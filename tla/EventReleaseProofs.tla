------------------------- MODULE EventReleaseProofs -------------------------
(***************************************************************************)
(* One event for any parts, members, absences and number of desks, every   *)
(* request beside every other.  No theorem assumes that anything waits     *)
(* but for the lock of a part; what overlap spoils is in the variables     *)
(* untold, stray and unchecked and in the field stale of a request, and    *)
(* the theorems say that there is nothing else.                            *)
(***************************************************************************)
EXTENDS EventRelease, TLAPS

\* FOR UPDATE: one assignment at a time reads and writes a part.
OnePerPart ==
    \A x, z \in Desks :
        /\ x # z /\ tx[x].at \in {"check", "save"} /\ tx[z].at \in {"check", "save"}
        => tx[x].part # tx[z].part

\* The rows a change of absence a touches.
Touched(a) == { p \in Parts : a[2] = event.day /\ a[1] \in On(p) }

\* What a request read is still so of the parts it is not stale about.  The cast of
\* the part it locked stays whatever happens.
Pictures(r) ==
    /\ r.at \in {"lock", "check", "save"} => r.part \in Parts
    /\ r.at \in {"check", "save"} => r.old = part[r.part].cast /\ r.found \in Event
    /\ r.at = "check" /\ r.part \notin r.stale => r.found.day = event.day
    /\ r.at = "save" /\ r.part \notin r.stale =>
          (r.conflict <=> \E m \in Of(r.new) : IsAbsent(m, event.day))
    /\ r.at = "publish" =>
          \A p \in Parts \ (unchecked \cup r.stale) : \A m \in On(p) : ~IsAbsent(m, event.day)
    /\ r.at = "flags" =>
          \E a \in Absences :
              /\ r.absences = {a}
              /\ \A p \in Parts \ r.stale :
                    /\ p \in r.rows <=> p \in Touched(a)
                    /\ p \in r.rows =>
                          (r.flags[p] <=> \E m \in On(p) : <<m, event.day>> \in Toggled(a))

Order == OnePerPart /\ (\A x \in Desks : Pictures(tx[x])) /\ ConflictFlagsHold

\* Only members with an account have a mail ahead of them.
PendingIsReachable == \A k \in notice.pending : Reachable(k[2])

\* Whom a release has on its list is on his part, of a released event once it is
\* published, or counted as stray.
Listed(r) ==
    /\ r.targets # {} => r.at \in {"publish", "burst"}
    /\ \A k \in r.targets :
          k \in stray \/ (k[2] \in On(k[1]) /\ (r.at = "burst" => event.released))

Mails == PendingIsReachable /\ (\A x \in Desks : Listed(tx[x])) /\ OnlyAssigneesAreTold

\* Nobody is on a part twice.
Paired(cast) == cast.speaker = cast.reader => cast = Empty
Pairs ==
    /\ \A p \in Parts : Paired(part[p].cast)
    /\ \A x \in Desks : tx[x].at \in {"lock", "check", "save"} => Paired(tx[x].new)

Telling == Pairs /\ NobodyIsForgotten

EInv == TypeOK /\ Order /\ Mails /\ Telling

-----------------------------------------------------------------------------
(* Requests.                                                               *)

LEMMA RestTypes ==
    /\ Rest \in Request /\ Rest.at = "idle" /\ Rest.targets = {} /\ Rest.stale = {}
    /\ Empty \in Cast /\ Empty.speaker = None /\ Empty.reader = None
<1>1. Empty \in Cast
  BY DEF Empty, Cast
<1> QED
  BY <1>1 DEF Rest, Request, Empty

\* Request x takes the state r and nobody else changes.
Takes(x, r) == tx' = [tx EXCEPT ![x] = r]

\* Request x comes to rest and the others may be outdated.
Ends(x, seen) == tx' = [Outdated(seen) EXCEPT ![x] = Rest]

\* r is z's request, if staler.
Staler(z, r) ==
    /\ r \in Request /\ tx[z].stale \subseteq r.stale
    /\ r.at = tx[z].at /\ r.part = tx[z].part /\ r.old = tx[z].old /\ r.new = tx[z].new
    /\ r.seen = tx[z].seen /\ r.found = tx[z].found /\ r.conflict = tx[z].conflict
    /\ r.targets = tx[z].targets /\ r.absences = tx[z].absences
    /\ r.flags = tx[z].flags /\ r.rows = tx[z].rows

LEMMA OthersKeep ==
    ASSUME TypeOK, NEW x \in Desks, NEW r, Takes(x, r), NEW z \in Desks
    PROVE  /\ tx'[z] = IF z = x THEN r ELSE tx[z]
           /\ z # x => Staler(z, tx'[z])
BY DEF TypeOK, Takes, Staler

LEMMA OutdatedKeeps ==
    ASSUME TypeOK, NEW seen \in [Desks -> SUBSET Parts]
    PROVE  /\ Outdated(seen) \in [Desks -> Request]
           /\ \A z \in Desks : /\ Staler(z, Outdated(seen)[z])
                               /\ Outdated(seen)[z].stale = tx[z].stale \cup seen[z]
<1>1. ASSUME NEW y \in Desks
      PROVE  /\ Outdated(seen)[y] = [tx[y] EXCEPT !.stale = tx[y].stale \cup seen[y]]
             /\ Outdated(seen)[y] \in Request
  <2>1. tx[y] \in Request /\ tx[y].stale \cup seen[y] \in SUBSET Parts
    BY DEF TypeOK, Request
  <2>2. Outdated(seen)[y] = [tx[y] EXCEPT !.stale = tx[y].stale \cup seen[y]]
    BY DEF Outdated
  <2> QED
    BY <2>1, <2>2 DEF Request
<1>2. \A z \in Desks : tx[z] \in Request
  BY DEF TypeOK
<1>3. Outdated(seen) \in [Desks -> Request]
  BY <1>1 DEF Outdated
<1> QED
  BY <1>1, <1>2, <1>3 DEF Staler, Request

LEMMA EndsKeeps ==
    ASSUME TypeOK, NEW x \in Desks, NEW seen \in [Desks -> SUBSET Parts], Ends(x, seen)
    PROVE  /\ tx' \in [Desks -> Request] /\ tx'[x] = Rest
           /\ \A z \in Desks \ {x} : /\ Staler(z, tx'[z])
                                     /\ tx'[z].stale = tx[z].stale \cup seen[z]
BY OutdatedKeeps, RestTypes DEF Ends

LEMMA SeenTypes ==
    /\ \A p \in Parts : PartSeen(p) \in [Desks -> SUBSET Parts]
    /\ \A a : AbsenceSeen(a) \in [Desks -> SUBSET Parts]
    /\ DaySeen \in [Desks -> SUBSET Parts]
BY DEF PartSeen, AbsenceSeen, DaySeen

-----------------------------------------------------------------------------
(* The notifications of an assignment.                                     *)

\* A pair of notifications of one slot: who leaves has no mail ahead of him, and
\* only who comes may get one.
LEMMA SlotEffect ==
    ASSUME NEW n \in Notice, NEW p \in Parts, NEW old \in Members \cup {None},
           NEW new \in Members \cup {None}
    PROVE  /\ SlotDiff(n, p, old, new) \in Notice
           /\ \A k \in SlotDiff(n, p, old, new).pending :
                 k \in n.pending \/ (k = <<p, new>> /\ Reachable(new))
           /\ Reachable(old) /\ old # new => <<p, old>> \notin SlotDiff(n, p, old, new).pending
<1> DEFINE left == IF Reachable(old) /\ old # new THEN Unassigned(n, <<p, old>>) ELSE n
<1>1. left \in Notice /\ left.pending \subseteq n.pending
      /\ (Reachable(old) /\ old # new => <<p, old>> \notin left.pending)
  <2>1. CASE Reachable(old) /\ old # new
    <3>1. <<p, old>> \in Keys
      BY <2>1, EventAssumption DEF Reachable, Keys
    <3>2. CASE <<p, old>> \in n.pending
      <4>1. left = [n EXCEPT !.pending = @ \ {<<p, old>>}]
        BY <2>1, <3>2 DEF Unassigned
      <4> QED
        BY <4>1 DEF Notice
    <3>3. CASE <<p, old>> \notin n.pending
      <4>1. left = [n EXCEPT !.mailed[<<p, old>>] = "unassigned"]
        BY <2>1, <3>3 DEF Unassigned
      <4> QED
        BY <3>1, <3>3, <4>1 DEF Notice
    <3> QED
      BY <3>2, <3>3
  <2>2. CASE ~(Reachable(old) /\ old # new)
    BY <2>2
  <2> QED
    BY <2>1, <2>2
<1>2. SlotDiff(n, p, old, new) =
        IF Reachable(new) /\ new # old THEN Assigned(left, <<p, new>>) ELSE left
  BY DEF SlotDiff
<1> HIDE DEF left
<1>3. CASE Reachable(new) /\ new # old
  <2>1. <<p, new>> \in Keys
    BY <1>3, EventAssumption DEF Reachable, Keys
  <2>2. SlotDiff(n, p, old, new) = [left EXCEPT !.pending = @ \cup {<<p, new>>}]
    BY <1>2, <1>3 DEF Assigned
  <2>3. /\ SlotDiff(n, p, old, new) \in Notice
        /\ SlotDiff(n, p, old, new).pending = left.pending \cup {<<p, new>>}
    BY <1>1, <2>1, <2>2 DEF Notice
  <2> QED
    BY <1>1, <1>3, <2>3
<1>4. CASE ~(Reachable(new) /\ new # old)
  BY <1>1, <1>2, <1>4
<1> QED
  BY <1>3, <1>4

\* The slots together: who is on a part no more has no mail ahead of him, and only
\* who is on it now may get one.
LEMMA DispatchEffect ==
    ASSUME NEW n \in Notice, NEW p \in Parts, NEW old \in Cast, NEW new \in Cast,
           \A k \in n.pending : Reachable(k[2])
    PROVE  /\ Dispatch(n, p, old, new) \in Notice
           /\ \A k \in Dispatch(n, p, old, new).pending : Reachable(k[2])
           /\ \A m \in Of(old) \ Of(new) : <<p, m>> \notin Dispatch(n, p, old, new).pending
           /\ \A k \in Dispatch(n, p, old, new).pending :
                 k \in n.pending \/ \E m \in Of(new) : k = <<p, m>>
<1> DEFINE first == SlotDiff(n, p, old.speaker, new.speaker)
           both == SlotDiff(first, p, old.reader, new.reader)
<1>1. /\ old.speaker \in Members \cup {None} /\ old.reader \in Members \cup {None}
      /\ new.speaker \in Members \cup {None} /\ new.reader \in Members \cup {None}
  BY DEF Cast
<1>2. /\ first \in Notice
      /\ \A k \in first.pending : k \in n.pending \/ (k = <<p, new.speaker>> /\ Reachable(new.speaker))
      /\ Reachable(old.speaker) /\ old.speaker # new.speaker => <<p, old.speaker>> \notin first.pending
  BY <1>1, SlotEffect
<1> HIDE DEF first
<1>3. /\ both \in Notice
      /\ \A k \in both.pending : k \in first.pending \/ (k = <<p, new.reader>> /\ Reachable(new.reader))
      /\ Reachable(old.reader) /\ old.reader # new.reader => <<p, old.reader>> \notin both.pending
  BY <1>1, <1>2, SlotEffect
<1>4. Dispatch(n, p, old, new) = both
  BY DEF Dispatch, first
<1> HIDE DEF both
<1>5. \A k \in both.pending : Reachable(k[2])
  BY <1>2, <1>3
<1>6. ASSUME NEW m \in Of(old) \ Of(new)
      PROVE  <<p, m>> \notin both.pending
  <2>1. m # new.speaker /\ m # new.reader /\ m \in {old.speaker, old.reader}
    BY <1>6 DEF Of
  <2>2. CASE ~Reachable(m)
    BY <1>5, <2>2
  <2>3. CASE Reachable(m) /\ m = old.speaker
    BY <1>2, <1>3, <2>1, <2>3
  <2>4. CASE Reachable(m) /\ m = old.reader
    BY <1>3, <2>1, <2>4
  <2> QED
    BY <2>1, <2>2, <2>3, <2>4
<1>7. ASSUME NEW k \in both.pending, k \notin n.pending
      PROVE  \E m \in Of(new) : k = <<p, m>>
  <2>1. \E m \in {new.speaker, new.reader} : k = <<p, m>> /\ Reachable(m)
    BY <1>2, <1>3, <1>7
  <2> QED
    BY <2>1, EventAssumption DEF Of, Reachable
<1> QED
  BY <1>3, <1>4, <1>5, <1>6, <1>7


\* From one notice to the next, what k has ahead of it and was mailed stays.
Keeps(n, next, k) == (k \in n.pending => k \in next.pending) /\ next.mailed[k] = n.mailed[k]

\* A slot concerns who leaves it and who comes.
LEMMA SlotKeeps ==
    ASSUME NEW n \in Notice, NEW p \in Parts, NEW old \in Members \cup {None},
           NEW new \in Members \cup {None}
    PROVE  /\ \A k \in Keys : k # <<p, old>> \/ old = new => Keeps(n, SlotDiff(n, p, old, new), k)
           /\ Reachable(new) /\ new # old => <<p, new>> \in SlotDiff(n, p, old, new).pending
<1> DEFINE left == IF Reachable(old) /\ old # new THEN Unassigned(n, <<p, old>>) ELSE n
<1>1. left \in Notice /\ \A k \in Keys : k # <<p, old>> \/ old = new => Keeps(n, left, k)
  <2>1. CASE Reachable(old) /\ old # new
    <3>1. <<p, old>> \in Keys
      BY <2>1, EventAssumption DEF Reachable, Keys
    <3>2. CASE <<p, old>> \in n.pending
      <4>1. left = [n EXCEPT !.pending = @ \ {<<p, old>>}]
        BY <2>1, <3>2 DEF Unassigned
      <4> QED
        BY <2>1, <4>1 DEF Notice, Keeps
    <3>3. CASE <<p, old>> \notin n.pending
      <4>1. left = [n EXCEPT !.mailed[<<p, old>>] = "unassigned"]
        BY <2>1, <3>3 DEF Unassigned
      <4>2. left \in Notice
        BY <3>1, <4>1 DEF Notice
      <4>3. left.pending = n.pending
            /\ \A k \in Keys : k # <<p, old>> => left.mailed[k] = n.mailed[k]
        BY <3>1, <4>1 DEF Notice
      <4> QED
        BY <2>1, <4>2, <4>3 DEF Keeps
    <3> QED
      BY <3>2, <3>3
  <2>2. CASE ~(Reachable(old) /\ old # new)
    BY <2>2 DEF Keeps
  <2> QED
    BY <2>1, <2>2
<1>2. SlotDiff(n, p, old, new) =
        IF Reachable(new) /\ new # old THEN Assigned(left, <<p, new>>) ELSE left
  BY DEF SlotDiff
<1> HIDE DEF left
<1>3. CASE Reachable(new) /\ new # old
  <2>1. SlotDiff(n, p, old, new) = [left EXCEPT !.pending = @ \cup {<<p, new>>}]
    BY <1>2, <1>3 DEF Assigned
  <2>2. /\ SlotDiff(n, p, old, new).pending = left.pending \cup {<<p, new>>}
        /\ SlotDiff(n, p, old, new).mailed = left.mailed
    BY <1>1, <2>1 DEF Notice
  <2> QED
    BY <1>1, <1>3, <2>2 DEF Keeps
<1>4. CASE ~(Reachable(new) /\ new # old)
  BY <1>1, <1>2, <1>4
<1> QED
  BY <1>3, <1>4

\* The slots together: other parts are not concerned, and whoever is on the part
\* afterwards was there before, gets a mail, or changed his slot.
LEMMA DispatchTells ==
    ASSUME NEW n \in Notice, NEW p \in Parts, NEW old \in Cast, NEW new \in Cast, Paired(old)
    PROVE  /\ \A k \in Keys : k[1] # p => Keeps(n, Dispatch(n, p, old, new), k)
           /\ \A m \in Of(new) \cap Accounts :
                 \/ <<p, m>> \in Dispatch(n, p, old, new).pending
                 \/ m \in Of(old) /\ Keeps(n, Dispatch(n, p, old, new), <<p, m>>)
                 \/ m \in Swapped(old, new)
<1> DEFINE first == SlotDiff(n, p, old.speaker, new.speaker)
           both == SlotDiff(first, p, old.reader, new.reader)
<1>1. /\ old.speaker \in Members \cup {None} /\ old.reader \in Members \cup {None}
      /\ new.speaker \in Members \cup {None} /\ new.reader \in Members \cup {None}
  BY DEF Cast
<1>2. /\ first \in Notice
      /\ \A k \in Keys : k # <<p, old.speaker>> \/ old.speaker = new.speaker => Keeps(n, first, k)
      /\ Reachable(new.speaker) /\ new.speaker # old.speaker => <<p, new.speaker>> \in first.pending
  BY <1>1, SlotEffect, SlotKeeps
<1> HIDE DEF first
<1>3. /\ \A k \in Keys : k # <<p, old.reader>> \/ old.reader = new.reader => Keeps(first, both, k)
      /\ Reachable(new.reader) /\ new.reader # old.reader => <<p, new.reader>> \in both.pending
  BY <1>1, <1>2, SlotKeeps
<1>4. Dispatch(n, p, old, new) = both
  BY DEF Dispatch, first
<1> HIDE DEF both
<1>5. \A k : Keeps(n, first, k) /\ Keeps(first, both, k) => Keeps(n, both, k)
  BY DEF Keeps
<1>6. ASSUME NEW k \in Keys, k[1] # p
      PROVE  Keeps(n, both, k)
  BY <1>2, <1>3, <1>5, <1>6
<1>7. ASSUME NEW m \in Of(new) \cap Accounts
      PROVE  \/ <<p, m>> \in both.pending
             \/ m \in Of(old) /\ Keeps(n, both, <<p, m>>)
             \/ m \in Swapped(old, new)
  <2>1. m \in Members /\ m # None /\ <<p, m>> \in Keys /\ Reachable(m)
    BY <1>7, EventAssumption DEF Of, Keys, Reachable
  <2>2. CASE m = new.speaker /\ m # old.reader
    <3>1. m # old.reader
      BY <2>2
    <3>2. Keeps(first, both, <<p, m>>)
      BY <1>3, <2>1, <3>1
    <3>3. CASE m # old.speaker
      BY <1>2, <2>1, <2>2, <3>2, <3>3 DEF Keeps
    <3>4. CASE m = old.speaker
      BY <1>2, <1>5, <2>1, <2>2, <3>2, <3>4 DEF Of
    <3> QED
      BY <3>3, <3>4
  <2>3. CASE m = new.reader
    <3>1. CASE m # old.reader
      BY <1>3, <2>1, <2>3, <3>1
    <3>2. CASE m = old.reader
      <4>1. m # old.speaker
        BY <2>1, <3>2, RestTypes DEF Paired
      <4> QED
        BY <1>2, <1>3, <1>5, <2>1, <2>3, <3>2, <4>1 DEF Of
    <3> QED
      BY <3>1, <3>2
  <2>4. CASE m = new.speaker /\ m = old.reader
    BY <2>1, <2>4 DEF Swapped
  <2> QED
    BY <1>7, <2>2, <2>3, <2>4 DEF Of
<1> QED
  BY <1>4, <1>6, <1>7

-----------------------------------------------------------------------------
(* Types.                                                                  *)

LEMMA AssignTypes ==
    ASSUME EInv, NEW x \in Desks
    PROVE  /\ \A p \in Parts, cast \in Cast : BeginAssign(x, p, cast) => TypeOK'
           /\ LockPart(x) => TypeOK'
           /\ CheckParticipants(x) => TypeOK'
           /\ SavePart(x) => TypeOK'
<1>1. tx[x] \in Request /\ event \in Event /\ part \in [Parts -> Part] /\ Pictures(tx[x]) /\ TypeOK
  BY DEF EInv, TypeOK, Order
<1>2. ASSUME NEW p \in Parts, NEW cast \in Cast, BeginAssign(x, p, cast)
      PROVE  TypeOK'
  <2>1. [Rest EXCEPT !.at = "lock", !.part = p, !.new = cast, !.seen = event.released] \in Request
    BY <1>1, RestTypes DEF Request, Event
  <2>2. tx' \in [Desks -> Request]
    BY <1>2, <2>1 DEF EInv, TypeOK, BeginAssign
  <2> QED
    BY <1>2, <2>2 DEF EInv, TypeOK, BeginAssign
<1>3. ASSUME LockPart(x)
      PROVE  TypeOK'
  <2>1. tx[x].part \in Parts
    BY <1>1, <1>3 DEF Pictures, LockPart
  <2>2. part[tx[x].part].cast \in Cast
    BY <1>1, <2>1 DEF Part
  <2>3. tx' = [tx EXCEPT ![x] = [tx[x] EXCEPT !.at = "check", !.old = part[tx[x].part].cast,
                                              !.found = event]]
    BY <1>3 DEF LockPart, EInv, TypeOK
  <2>4. [tx[x] EXCEPT !.at = "check", !.old = part[tx[x].part].cast, !.found = event] \in Request
    BY <1>1, <2>2 DEF Request
  <2>5. tx' \in [Desks -> Request]
    BY <2>3, <2>4 DEF EInv, TypeOK
  <2> QED
    BY <1>3, <2>5 DEF EInv, TypeOK, LockPart
<1>4. ASSUME CheckParticipants(x)
      PROVE  TypeOK'
  <2> DEFINE away == \E m \in Of(tx[x].new) : IsAbsent(m, tx[x].found.day)
  <2>1. tx' = [tx EXCEPT ![x] = IF away /\ tx[x].found.released THEN Rest
                                ELSE [tx[x] EXCEPT !.at = "save", !.conflict = away]]
    BY <1>4 DEF CheckParticipants
  <2>2. away \in BOOLEAN
    OBVIOUS
  <2> HIDE DEF away
  <2>3. [tx[x] EXCEPT !.at = "save", !.conflict = away] \in Request
    BY <1>1, <2>2 DEF Request
  <2>4. tx' \in [Desks -> Request]
    BY <2>1, <2>3, RestTypes DEF EInv, TypeOK
  <2> QED
    BY <1>4, <2>4 DEF EInv, TypeOK, CheckParticipants
<1>5. ASSUME SavePart(x)
      PROVE  TypeOK'
  <2> DEFINE p == tx[x].part
  <2>1. p \in Parts /\ tx[x].new \in Cast /\ tx[x].old \in Cast /\ tx[x].conflict \in BOOLEAN
    BY <1>1, <1>5 DEF Pictures, SavePart, Request
  <2>2. part' \in [Parts -> Part]
    BY <1>1, <1>5, <2>1 DEF SavePart, Part
  <2>3. notice' \in Notice
    BY <1>5, <2>1, DispatchEffect DEF SavePart, EInv, TypeOK, Mails, PendingIsReachable
  <2>4. Ends(x, PartSeen(p))
    BY <1>5 DEF SavePart, Ends
  <2>5. tx' \in [Desks -> Request]
    BY <1>1, <2>1, <2>4, EndsKeeps, SeenTypes
  <2>6. Swapped(tx[x].old, tx[x].new) \subseteq Members /\ Of(tx[x].new) \subseteq Members
    BY <2>1 DEF Swapped, Of, Cast
  <2>7. untold' \subseteq Keys
    <3>1. ASSUME NEW k \in untold', k \notin untold
          PROVE  k \in Keys
      <4>1. \E m \in Swapped(tx[x].old, tx[x].new) \cup Of(tx[x].new) : k = <<p, m>>
        BY <1>5, <3>1 DEF SavePart
      <4> QED
        BY <2>1, <2>6, <4>1 DEF Keys
    <3> QED
      BY <3>1 DEF EInv, TypeOK
  <2>8. stray' \subseteq Ahead'
    BY <1>5 DEF SavePart
  <2>9. stray' \subseteq Keys
    BY <2>3, <2>8 DEF Ahead, Notice
  <2>10. unchecked' \subseteq Parts /\ UNCHANGED <<event, absent, faults>>
    BY <1>5, <2>1 DEF SavePart, EInv, TypeOK
  <2> QED
    BY <2>2, <2>3, <2>5, <2>7, <2>9, <2>10 DEF EInv, TypeOK
<1> QED
  BY <1>2, <1>3, <1>4, <1>5

LEMMA ReleaseTypes ==
    ASSUME EInv, NEW x \in Desks
    PROVE  /\ BeginRelease(x) => TypeOK'
           /\ Publish(x) => TypeOK'
           /\ Fire(x) => TypeOK'
           /\ FireFails(x) => TypeOK'
           /\ BeginUnrelease(x) => TypeOK'
           /\ Retract(x) => TypeOK'
<1>1. tx[x] \in Request /\ event \in Event
  BY DEF EInv, TypeOK
<1>2. ASSUME BeginRelease(x)
      PROVE  TypeOK'
  <2> DEFINE T == { k \in Keys : k[2] \in On(k[1]) }
  <2>1. tx' = [tx EXCEPT ![x] = [Rest EXCEPT !.at = "publish", !.targets = T]]
    BY <1>2 DEF BeginRelease
  <2>2. T \in SUBSET Keys
    OBVIOUS
  <2> HIDE DEF T
  <2>3. [Rest EXCEPT !.at = "publish", !.targets = T] \in Request
    BY <2>2, RestTypes DEF Request
  <2>4. tx' \in [Desks -> Request]
    BY <2>1, <2>3 DEF EInv, TypeOK
  <2> QED
    BY <1>2, <2>4 DEF EInv, TypeOK, BeginRelease
<1>3. ASSUME Publish(x)
      PROVE  TypeOK'
  <2>1. [tx[x] EXCEPT !.at = "burst"] \in Request
    BY <1>1 DEF Request
  <2>2. tx' \in [Desks -> Request]
    BY <1>3, <2>1, RestTypes DEF EInv, TypeOK, Publish
  <2>3. event' \in Event
    BY <1>1, <1>3 DEF Publish, Event
  <2>4. untold' \subseteq Keys
    BY <1>3 DEF Publish, EInv, TypeOK
  <2> QED
    BY <1>3, <2>2, <2>3, <2>4 DEF EInv, TypeOK, Publish
<1>4. ASSUME NEW T \in SUBSET Keys, Fired(x, T)
      PROVE  tx' \in [Desks -> Request]
  <2>1. [tx[x] EXCEPT !.targets = tx[x].targets \ T] \in Request
    BY <1>1 DEF Request
  <2>2. tx' = [tx EXCEPT ![x] = IF tx[x].targets = T THEN Rest
                                ELSE [tx[x] EXCEPT !.targets = tx[x].targets \ T]]
    BY <1>4 DEF Fired, EInv, TypeOK
  <2> QED
    BY <2>1, <2>2, RestTypes DEF EInv, TypeOK
<1>5. ASSUME Fire(x)
      PROVE  TypeOK'
  <2>1. PICK k \in tx[x].targets :
          /\ notice' = IF Reachable(k[2]) THEN Assigned(notice, k) ELSE notice
          /\ Fired(x, {k})
          /\ untold' \subseteq untold /\ stray' \subseteq stray
          /\ UNCHANGED <<event, part, absent, unchecked, faults>>
    BY <1>5 DEF Fire
  <2>2. k \in Keys
    BY <1>1 DEF Request
  <2>3. notice' \in Notice
    BY <2>1, <2>2 DEF EInv, TypeOK, Notice, Assigned
  <2>4. tx' \in [Desks -> Request]
    BY <1>4, <2>1, <2>2
  <2> QED
    BY <2>1, <2>3, <2>4 DEF EInv, TypeOK
<1>6. ASSUME FireFails(x)
      PROVE  TypeOK'
  <2>1. PICK T \in { {k} : k \in tx[x].targets } \cup {tx[x].targets} :
          /\ faults < MaxFaults /\ faults' = faults + 1
          /\ untold' = untold \cup T /\ stray' \subseteq stray
          /\ Fired(x, T)
          /\ UNCHANGED <<event, part, absent, notice, unchecked>>
    BY <1>6 DEF FireFails
  <2>2. T \in SUBSET Keys
    BY <1>1, <2>1 DEF Request
  <2>3. tx' \in [Desks -> Request]
    BY <1>4, <2>1, <2>2
  <2>4. faults' \in 0..MaxFaults
    BY <2>1, EventAssumption DEF EInv, TypeOK
  <2> QED
    BY <2>1, <2>2, <2>3, <2>4 DEF EInv, TypeOK
<1>7. ASSUME BeginUnrelease(x)
      PROVE  TypeOK'
  <2>1. [Rest EXCEPT !.at = "retract"] \in Request
    BY RestTypes DEF Request
  <2> QED
    BY <1>7, <2>1 DEF EInv, TypeOK, BeginUnrelease
<1>8. ASSUME Retract(x)
      PROVE  TypeOK'
  <2>1. notice' \in Notice /\ event' \in Event
    BY <1>1, <1>8 DEF Retract, EInv, TypeOK, Notice, Event
  <2>2. tx' \in [Desks -> Request]
    BY <1>8, RestTypes DEF EInv, TypeOK, Retract
  <2>3. stray' \subseteq Keys /\ untold' \subseteq Keys
    BY <1>8 DEF EInv, TypeOK, Retract
  <2> QED
    BY <1>8, <2>1, <2>2, <2>3 DEF EInv, TypeOK, Retract
<1> QED
  BY <1>2, <1>3, <1>5, <1>6, <1>7, <1>8

\* The state of a request that has read for absence a.
Reading(a) ==
    LET rows == Touched(a)
    IN  [Rest EXCEPT !.at = "flags", !.absences = {a}, !.rows = rows,
                     !.flags = [p \in Parts |-> p \in rows
                                   /\ \E m \in On(p) : <<m, event.day>> \in Toggled(a)]]

LEMMA OtherTypes ==
    ASSUME EInv
    PROVE  /\ \A x \in Desks, a \in Absences : BeginAbsence(x, a) => TypeOK'
           /\ \A x \in Desks : SaveAbsence(x) => TypeOK'
           /\ \A day \in Days : MoveEvent(day) => TypeOK'
           /\ \A k \in Keys : Mail(k) => TypeOK'
<1>1. event \in Event /\ part \in [Parts -> Part] /\ TypeOK
  BY DEF EInv, TypeOK
<1>2. ASSUME NEW x \in Desks, NEW a \in Absences, BeginAbsence(x, a)
      PROVE  TypeOK'
  <2>1. tx' = [tx EXCEPT ![x] = Reading(a)]
    BY <1>2 DEF BeginAbsence, Reading, Touched
  <2>2. Touched(a) \in SUBSET Parts /\ {a} \in SUBSET (Members \X Days)
    BY EventAssumption DEF Touched
  <2>3. Reading(a) \in Request
    BY <2>2, RestTypes DEF Request, Reading
  <2>4. tx' \in [Desks -> Request]
    BY <2>1, <2>3 DEF EInv, TypeOK
  <2> QED
    BY <1>2, <2>4 DEF EInv, TypeOK, BeginAbsence
<1>3. ASSUME NEW x \in Desks, SaveAbsence(x)
      PROVE  TypeOK'
  <2>1. tx[x] \in Request
    BY DEF EInv, TypeOK
  <2>2. PICK a \in tx[x].absences :
          /\ absent' = Toggled(a) /\ Ends(x, AbsenceSeen(a))
          /\ unchecked' \subseteq unchecked \cup tx[x].stale
    BY <1>3 DEF SaveAbsence, Ends
  <2>3. absent' \subseteq Members \X Days
    BY <2>1, <2>2 DEF Request, Toggled, EInv, TypeOK
  <2>4. part' \in [Parts -> Part]
    BY <1>1, <1>3, <2>1 DEF SaveAbsence, Request, Part
  <2>5. tx' \in [Desks -> Request]
    BY <1>1, <2>2, EndsKeeps, SeenTypes
  <2>6. unchecked' \subseteq Parts
    BY <2>1, <2>2 DEF EInv, TypeOK, Request
  <2> QED
    BY <1>3, <2>3, <2>4, <2>5, <2>6 DEF SaveAbsence, EInv, TypeOK
<1>4. ASSUME NEW day \in Days, MoveEvent(day)
      PROVE  TypeOK'
  <2>1. event' \in Event
    BY <1>1, <1>4 DEF MoveEvent, Event
  <2>2. tx' \in [Desks -> Request]
    BY <1>1, <1>4, OutdatedKeeps, SeenTypes DEF MoveEvent
  <2> QED
    BY <1>4, <2>1, <2>2 DEF EInv, TypeOK, MoveEvent
<1>5. ASSUME NEW k \in Keys, Mail(k)
      PROVE  TypeOK'
  <2>1. notice' \in Notice
    BY <1>5 DEF Mail, EInv, TypeOK, Notice
  <2> QED
    BY <1>5, <2>1 DEF EInv, TypeOK, Mail
<1> QED
  BY <1>2, <1>3, <1>4, <1>5

-----------------------------------------------------------------------------
(* What a request read, and the flags.                                     *)

\* Toggling an absence concerns nothing else.
LEMMA ToggleEffect ==
    ASSUME NEW a, NEW b
    PROVE  b \in Toggled(a) <=> IF b = a THEN b \notin absent ELSE b \in absent
BY DEF Toggled

\* What z read stays so while the casts, the absences and the day do.
LEMMA PictureStays ==
    ASSUME NEW z \in Desks, Pictures(tx[z]), Staler(z, tx'[z]),
           UNCHANGED <<part, absent, unchecked>>, event' \in Event, event'.day = event.day
    PROVE  Pictures(tx[z])'
<1>1. \A p \in Parts : On(p)' = On(p)
  BY DEF On
<1>2. \A a : (Touched(a))' = Touched(a) /\ (Toggled(a))' = Toggled(a)
  BY <1>1 DEF Touched, Toggled
<1>3. /\ tx'[z].at \in {"lock", "check", "save"} => tx'[z].part \in Parts
      /\ tx'[z].at \in {"check", "save"} =>
            tx'[z].old = part'[tx'[z].part].cast /\ tx'[z].found \in Event
      /\ tx'[z].at = "check" /\ tx'[z].part \notin tx'[z].stale => tx'[z].found.day = event'.day
  BY DEF Pictures, Staler
<1>4. tx'[z].at = "save" /\ tx'[z].part \notin tx'[z].stale =>
          (tx'[z].conflict <=> \E m \in Of(tx'[z].new) : <<m, event'.day>> \in absent')
  BY DEF Pictures, Staler, IsAbsent
<1>5. tx'[z].at = "publish" =>
          \A p \in Parts \ (unchecked' \cup tx'[z].stale) : \A m \in On(p)' : <<m, event'.day>> \notin absent'
  BY <1>1 DEF Pictures, Staler, IsAbsent
<1>6. tx'[z].at = "flags" =>
          \E a \in Absences :
              /\ tx'[z].absences = {a}
              /\ \A p \in Parts \ tx'[z].stale :
                    /\ p \in tx'[z].rows <=> p \in (Touched(a))'
                    /\ p \in tx'[z].rows =>
                          (tx'[z].flags[p] <=> \E m \in On(p)' : <<m, event'.day>> \in (Toggled(a))')
  <2> SUFFICES ASSUME tx'[z].at = "flags"
               PROVE  \E a \in Absences :
                        /\ tx'[z].absences = {a}
                        /\ \A p \in Parts \ tx'[z].stale :
                              /\ p \in tx'[z].rows <=> p \in (Touched(a))'
                              /\ p \in tx'[z].rows =>
                                    (tx'[z].flags[p] <=>
                                        \E m \in On(p)' : <<m, event'.day>> \in (Toggled(a))')
    OBVIOUS
  <2>1. PICK a \in Absences :
          /\ tx[z].absences = {a}
          /\ \A p \in Parts \ tx[z].stale :
                /\ p \in tx[z].rows <=> p \in Touched(a)
                /\ p \in tx[z].rows =>
                      (tx[z].flags[p] <=> \E m \in On(p) : <<m, event.day>> \in Toggled(a))
    BY DEF Pictures, Staler
  <2> WITNESS a \in Absences
  <2> QED
    BY <1>1, <1>2, <2>1 DEF Staler
<1> QED
  BY <1>3, <1>4, <1>5, <1>6 DEF Pictures, IsAbsent

LEMMA StaysOnePerPart ==
    ASSUME OnePerPart, NEW x \in Desks, \A z \in Desks \ {x} : Staler(z, tx'[z]),
           tx'[x].at \in {"check", "save"} =>
              /\ tx'[x].part = tx[x].part
              /\ tx[x].at \in {"check", "save"} \/ LockFree(x, tx[x].part)
    PROVE  OnePerPart'
<1>1. ASSUME NEW v \in Desks, v # x, tx'[x].at \in {"check", "save"},
             tx'[v].at \in {"check", "save"}
      PROVE  tx'[x].part # tx'[v].part
  <2>1. tx'[v].part = tx[v].part /\ tx[v].at \in {"check", "save"} /\ Locks(v) = {tx[v].part}
    BY <1>1 DEF Staler, Locks
  <2> QED
    BY <1>1, <2>1 DEF OnePerPart, LockFree
<1>2. ASSUME NEW y \in Desks, NEW z \in Desks, y # z, y # x, z # x,
             tx'[y].at \in {"check", "save"}, tx'[z].at \in {"check", "save"}
      PROVE  tx'[y].part # tx'[z].part
  <2>1. Staler(y, tx'[y]) /\ Staler(z, tx'[z])
    BY <1>2
  <2> QED
    BY <1>2, <2>1 DEF OnePerPart, Staler
<1> QED
  BY <1>1, <1>2 DEF OnePerPart

\* A step of one request that leaves the casts, the absences and the day.
LEMMA PrivateStep ==
    ASSUME EInv, NEW x \in Desks, NEW r, Takes(x, r),
           UNCHANGED <<part, absent, unchecked>>, event' \in Event, event'.day = event.day,
           r.at \in {"check", "save"} =>
              r.part = tx[x].part /\ (tx[x].at \in {"check", "save"} \/ LockFree(x, tx[x].part)),
           Pictures(tx[x])'
    PROVE  Order'
<1>1. tx'[x] = r /\ \A z \in Desks \ {x} : Staler(z, tx'[z])
  BY OthersKeep DEF EInv
<1>2. ASSUME NEW z \in Desks
      PROVE  Pictures(tx[z])'
  BY <1>1, PictureStays DEF EInv, Order
<1>3. ConflictFlagsHold'
  BY DEF EInv, Order, ConflictFlagsHold, On, IsAbsent
<1>4. OnePerPart'
  BY <1>1, StaysOnePerPart DEF EInv, Order
<1> QED
  BY <1>2, <1>3, <1>4 DEF Order

\* A request that looks at nothing has nothing outdated.
LEMMA BlindPicture ==
    ASSUME NEW x \in Desks, tx'[x].at \in {"idle", "burst", "retract"}
    PROVE  Pictures(tx[x])'
BY DEF Pictures

LEMMA BeginAssignOrder ==
    ASSUME EInv, NEW x \in Desks, NEW p \in Parts, NEW cast \in Cast, BeginAssign(x, p, cast)
    PROVE  Order'
<1> DEFINE r == [Rest EXCEPT !.at = "lock", !.part = p, !.new = cast, !.seen = event.released]
<1>1. r.at = "lock" /\ r.part = p
  BY DEF Rest
<1>2. Takes(x, r) /\ UNCHANGED <<event, part, absent, unchecked>>
  BY DEF BeginAssign, Takes
<1> HIDE DEF r
<1>3. tx'[x] = r
  BY <1>2, OthersKeep DEF EInv
<1>4. Pictures(tx[x])'
  BY <1>1, <1>3 DEF Pictures
<1> QED
  BY <1>1, <1>2, <1>4, PrivateStep DEF EInv, TypeOK

LEMMA LockPartOrder ==
    ASSUME EInv, NEW x \in Desks, LockPart(x)
    PROVE  Order'
<1> DEFINE r == [tx[x] EXCEPT !.at = "check", !.old = part[tx[x].part].cast, !.found = event]
<1>1. tx[x].at = "lock" /\ LockFree(x, tx[x].part) /\ tx[x] \in Request /\ Pictures(tx[x])
  BY DEF LockPart, EInv, TypeOK, Order
<1>2. r.at = "check" /\ r.part = tx[x].part /\ r.old = part[tx[x].part].cast /\ r.found = event
  BY <1>1 DEF Request
<1>3. Takes(x, r) /\ UNCHANGED <<event, part, absent, unchecked>> /\ event \in Event
  BY DEF LockPart, Takes, EInv, TypeOK
<1> HIDE DEF r
<1>4. tx'[x] = r
  BY <1>3, OthersKeep DEF EInv
<1>5. Pictures(tx[x])'
  BY <1>1, <1>2, <1>3, <1>4 DEF Pictures
<1> QED
  BY <1>1, <1>2, <1>3, <1>5, PrivateStep

LEMMA CheckOrder ==
    ASSUME EInv, NEW x \in Desks, CheckParticipants(x)
    PROVE  Order'
<1> DEFINE away == \E m \in Of(tx[x].new) : IsAbsent(m, tx[x].found.day)
           s == [tx[x] EXCEPT !.at = "save", !.conflict = away]
           r == IF away /\ tx[x].found.released THEN Rest ELSE s
<1>1. tx[x].at = "check" /\ tx[x] \in Request /\ Takes(x, r) /\ Pictures(tx[x])
  BY DEF CheckParticipants, Takes, EInv, TypeOK, Order
<1>2. /\ s.at = "save" /\ s.part = tx[x].part /\ s.old = tx[x].old /\ s.new = tx[x].new
      /\ s.found = tx[x].found /\ s.conflict = away /\ s.stale = tx[x].stale
  BY <1>1 DEF Request
<1>3. UNCHANGED <<event, part, absent, unchecked>> /\ event \in Event
  BY DEF CheckParticipants, EInv, TypeOK
<1>4. r = Rest \/ r = s
  OBVIOUS
<1>5. tx'[x] = r
  BY <1>1, OthersKeep DEF EInv
<1>6. tx[x].part \notin tx[x].stale => (away <=> \E m \in Of(tx[x].new) : <<m, event.day>> \in absent)
  BY <1>1 DEF Pictures, IsAbsent
<1> HIDE DEF away, s, r
<1>7. Pictures(tx[x])'
  <2>1. CASE r = Rest
    BY <1>5, <2>1, RestTypes, BlindPicture
  <2>2. CASE r = s
    BY <1>1, <1>2, <1>3, <1>5, <1>6, <2>2 DEF Pictures, IsAbsent
  <2> QED
    BY <1>4, <2>1, <2>2
<1> QED
  BY <1>1, <1>2, <1>3, <1>4, <1>7, RestTypes, PrivateStep

LEMMA BeginReleaseOrder ==
    ASSUME EInv, NEW x \in Desks, BeginRelease(x)
    PROVE  Order'
<1> DEFINE r == [Rest EXCEPT !.at = "publish", !.targets = { k \in Keys : k[2] \in On(k[1]) }]
<1>1. r.at = "publish"
  BY DEF Rest
<1>2. Takes(x, r) /\ UNCHANGED <<event, part, absent, unchecked>> /\ event \in Event
  BY DEF BeginRelease, Takes, EInv, TypeOK
<1> HIDE DEF r
<1>3. tx'[x] = r
  BY <1>2, OthersKeep DEF EInv
<1>4. \A p \in Parts \ unchecked : \A m \in On(p) : ~IsAbsent(m, event.day)
  BY DEF BeginRelease, HasConflict, EInv, Order, ConflictFlagsHold
<1>5. Pictures(tx[x])'
  BY <1>1, <1>2, <1>3, <1>4 DEF Pictures, IsAbsent, On
<1> QED
  BY <1>1, <1>2, <1>5, PrivateStep

\* Publishing, un-releasing and the notifications.
LEMMA StatusOrder ==
    ASSUME EInv, NEW x \in Desks,
           Publish(x) \/ Fire(x) \/ FireFails(x) \/ BeginUnrelease(x) \/ Retract(x)
    PROVE  Order'
<1>1. tx[x] \in Request /\ event \in Event
  BY DEF EInv, TypeOK
<1>2. ASSUME NEW r, Takes(x, r), r.at \in {"idle", "burst", "retract"},
             UNCHANGED <<part, absent, unchecked>>, event' \in Event, event'.day = event.day
      PROVE  Order'
  <2>1. tx'[x] = r
    BY <1>2, OthersKeep DEF EInv
  <2>2. Pictures(tx[x])'
    BY <1>2, <2>1, BlindPicture
  <2> QED
    BY <1>2, <2>2, PrivateStep
<1>3. ASSUME NEW T, tx[x].at = "burst", Fired(x, T), UNCHANGED <<event, part, absent, unchecked>>
      PROVE  Order'
  <2> DEFINE s == [tx[x] EXCEPT !.targets = tx[x].targets \ T]
             r == IF tx[x].targets = T THEN Rest ELSE s
  <2>1. Takes(x, r) /\ s.at = "burst"
    BY <1>1, <1>3 DEF Fired, Takes, EInv, TypeOK, Request
  <2>2. r.at \in {"idle", "burst"}
    BY <2>1, RestTypes
  <2> QED
    BY <1>1, <1>2, <1>3, <2>1, <2>2
<1>4. CASE Publish(x)
  <2> DEFINE s == [tx[x] EXCEPT !.at = "burst"]
             r == IF tx[x].targets = {} THEN Rest ELSE s
  <2>1. Takes(x, r) /\ s.at = "burst"
    BY <1>1, <1>4 DEF Publish, Takes, EInv, TypeOK, Request
  <2>2. r.at \in {"idle", "burst"}
    BY <2>1, RestTypes
  <2>3. event' \in Event /\ event'.day = event.day /\ UNCHANGED <<part, absent, unchecked>>
    BY <1>1, <1>4 DEF Publish, Event
  <2> QED
    BY <1>2, <2>1, <2>2, <2>3
<1>5. CASE Fire(x)
  BY <1>3, <1>5 DEF Fire
<1>6. CASE FireFails(x)
  BY <1>3, <1>6 DEF FireFails
<1>7. CASE BeginUnrelease(x)
  <2>1. [Rest EXCEPT !.at = "retract"].at = "retract"
    BY DEF Rest
  <2>2. Takes(x, [Rest EXCEPT !.at = "retract"]) /\ UNCHANGED <<event, part, absent, unchecked>>
    BY <1>7 DEF BeginUnrelease, Takes
  <2> QED
    BY <1>1, <1>2, <2>1, <2>2
<1>8. CASE Retract(x)
  <2>1. Takes(x, Rest) /\ UNCHANGED <<part, absent, unchecked>>
    BY <1>8 DEF Retract, Takes
  <2>2. event' \in Event /\ event'.day = event.day
    BY <1>1, <1>8 DEF Retract, Event
  <2> QED
    BY <1>2, <2>1, <2>2, RestTypes
<1> QED
  BY <1>4, <1>5, <1>6, <1>7, <1>8

LEMMA BeginAbsenceOrder ==
    ASSUME EInv, NEW x \in Desks, NEW a \in Absences, BeginAbsence(x, a)
    PROVE  Order'
<1>1. Takes(x, Reading(a)) /\ UNCHANGED <<event, part, absent, unchecked>> /\ event \in Event
  BY DEF BeginAbsence, Reading, Touched, Takes, EInv, TypeOK
<1>2. /\ Reading(a).at = "flags" /\ Reading(a).absences = {a} /\ Reading(a).rows = Touched(a)
      /\ Reading(a).flags = [p \in Parts |-> p \in Touched(a)
                                /\ \E m \in On(p) : <<m, event.day>> \in Toggled(a)]
  BY DEF Reading, Rest
<1>3. tx'[x] = Reading(a)
  BY <1>1, OthersKeep DEF EInv
<1>4. (Touched(a))' = Touched(a) /\ (Toggled(a))' = Toggled(a) /\ \A p \in Parts : On(p)' = On(p)
  BY <1>1 DEF Touched, Toggled, On
<1>5. /\ tx'[x].absences = {a}
      /\ \A p \in Parts :
            /\ p \in tx'[x].rows <=> p \in (Touched(a))'
            /\ p \in tx'[x].rows =>
                  (tx'[x].flags[p] <=> \E m \in On(p)' : <<m, event'.day>> \in (Toggled(a))')
  <2> SUFFICES ASSUME NEW p \in Parts
               PROVE  /\ p \in tx'[x].rows <=> p \in (Touched(a))'
                      /\ p \in tx'[x].rows =>
                            (tx'[x].flags[p] <=>
                                \E m \in On(p)' : <<m, event'.day>> \in (Toggled(a))')
    BY <1>2, <1>3
  <2>1. tx'[x].rows = Touched(a) /\ (Touched(a))' = Touched(a) /\ (Toggled(a))' = Toggled(a)
    BY <1>2, <1>3, <1>4
  <2>2. tx'[x].flags[p] = (p \in Touched(a) /\ \E m \in On(p) : <<m, event.day>> \in Toggled(a))
    BY <1>2, <1>3
  <2>3. On(p)' = On(p) /\ event' = event
    BY <1>1, <1>4
  <2> QED
    BY <2>1, <2>2, <2>3
<1>6. tx'[x].at = "flags"
  BY <1>2, <1>3
<1>7. Pictures(tx[x])'
  BY <1>5, <1>6 DEF Pictures
<1> QED
  BY <1>1, <1>2, <1>7, PrivateStep

\* An assignment writes the part it holds: another request that has looked at that
\* part is outdated.
LEMMA SaveOrder ==
    ASSUME EInv, NEW x \in Desks, SavePart(x)
    PROVE  Order'
<1> DEFINE p == tx[x].part
<1>1. /\ tx[x].at = "save" /\ tx[x] \in Request /\ Ends(x, PartSeen(p))
      /\ part' = [part EXCEPT ![p] = [cast |-> tx[x].new, conflict |-> tx[x].conflict]]
      /\ unchecked' = (IF p \in tx[x].stale THEN unchecked \cup {p} ELSE unchecked \ {p})
      /\ UNCHANGED <<event, absent>>
  BY DEF SavePart, Ends, EInv, TypeOK
<1>2. p \in Parts /\ part \in [Parts -> Part] /\ Pictures(tx[x])
  BY <1>1 DEF EInv, TypeOK, Order, Pictures
<1>3. /\ part'[p].cast = tx[x].new /\ part'[p].conflict = tx[x].conflict
      /\ \A q \in Parts \ {p} : part'[q] = part[q] /\ On(q)' = On(q)
      /\ Of(part'[p].cast) = Of(tx[x].new)
  <2>1. /\ part'[p] = [cast |-> tx[x].new, conflict |-> tx[x].conflict]
        /\ \A q \in Parts \ {p} : part'[q] = part[q]
    BY <1>1, <1>2
  <2> QED
    BY <2>1 DEF On
<1>4. tx'[x] = Rest /\ \A z \in Desks \ {x} : /\ Staler(z, tx'[z])
                                              /\ tx'[z].stale = tx[z].stale \cup PartSeen(p)[z]
  BY <1>1, <1>2, EndsKeeps, SeenTypes DEF EInv
<1>5. OnePerPart'
  BY <1>4, RestTypes, StaysOnePerPart DEF EInv, Order
<1>6. ASSUME NEW q \in Parts \ unchecked'
      PROVE  part'[q].conflict <=> \E m \in Of(part'[q].cast) : <<m, event.day>> \in absent
  <2>1. CASE q = p
    <3>1. p \notin tx[x].stale
      BY <1>1, <1>6, <2>1
    <3>2. tx[x].conflict <=> \E m \in Of(tx[x].new) : <<m, event.day>> \in absent
      BY <1>1, <1>2, <3>1 DEF Pictures, IsAbsent
    <3> QED
      BY <1>3, <2>1, <3>2
  <2>2. CASE q # p
    <3>1. q \notin unchecked /\ part'[q] = part[q]
      BY <1>1, <1>3, <1>6, <2>2
    <3> QED
      BY <1>3, <2>2, <3>1 DEF EInv, Order, ConflictFlagsHold, IsAbsent, On
  <2> QED
    BY <2>1, <2>2
<1>7. ConflictFlagsHold'
  BY <1>1, <1>6 DEF ConflictFlagsHold, IsAbsent, On
<1>8. ASSUME NEW z \in Desks, z # x
      PROVE  Pictures(tx[z])'
  <2>1. Staler(z, tx'[z]) /\ tx'[z].stale = tx[z].stale \cup PartSeen(p)[z] /\ Pictures(tx[z])
    BY <1>4, <1>8 DEF EInv, Order
  <2>2. CASE tx[z].at \in {"check", "save"}
    <3>1. tx[z].part \in Parts \ {p}
      BY <1>1, <1>8, <2>1, <2>2 DEF EInv, Order, OnePerPart, Pictures
    <3>2. part'[tx[z].part].cast = part[tx[z].part].cast
      BY <1>3, <3>1
    <3> QED
      BY <1>1, <2>1, <2>2, <3>1, <3>2 DEF Pictures, Staler, IsAbsent
  <2>3. CASE tx[z].at = "lock"
    BY <2>1, <2>3 DEF Pictures, Staler
  <2>4. CASE tx[z].at = "publish"
    <3>1. p \in tx'[z].stale
      BY <1>8, <2>1, <2>4 DEF PartSeen
    <3>2. ASSUME NEW q \in Parts, q \notin unchecked', q \notin tx'[z].stale
          PROVE  \A m \in On(q)' : <<m, event'.day>> \notin absent'
      <4>1. q # p /\ q \notin unchecked /\ q \notin tx[z].stale
        BY <1>1, <2>1, <3>1, <3>2
      <4> QED
        BY <1>1, <1>3, <2>1, <2>4, <4>1 DEF Pictures, IsAbsent
    <3> QED
      BY <2>1, <2>4, <3>2 DEF Pictures, Staler, IsAbsent
  <2>5. CASE tx[z].at = "flags"
    <3>1. p \in tx'[z].stale /\ tx[z].stale \subseteq tx'[z].stale
      BY <1>8, <2>1, <2>5 DEF PartSeen
    <3>2. PICK a \in Absences :
            /\ tx[z].absences = {a}
            /\ \A q \in Parts \ tx[z].stale :
                  /\ q \in tx[z].rows <=> q \in Touched(a)
                  /\ q \in tx[z].rows =>
                        (tx[z].flags[q] <=> \E m \in On(q) : <<m, event.day>> \in Toggled(a))
      BY <2>1, <2>5 DEF Pictures
    <3>3. (Toggled(a))' = Toggled(a)
      BY <1>1 DEF Toggled
    <3>4. ASSUME NEW q \in Parts \ tx'[z].stale
          PROVE  /\ tx'[z].rows = tx[z].rows /\ tx'[z].flags = tx[z].flags
                 /\ q \in tx'[z].rows <=> q \in (Touched(a))'
                 /\ q \in tx'[z].rows =>
                       (tx'[z].flags[q] <=> \E m \in On(q)' : <<m, event'.day>> \in (Toggled(a))')
      <4>1. q # p /\ q \notin tx[z].stale
        BY <3>1, <3>4
      <4>2. On(q)' = On(q) /\ (q \in (Touched(a))' <=> q \in Touched(a))
        BY <1>1, <1>3, <4>1 DEF Touched
      <4> QED
        BY <1>1, <2>1, <3>2, <3>3, <4>1, <4>2 DEF Staler
    <3>5. tx'[z].at = "flags" /\ tx'[z].absences = {a}
      BY <2>1, <2>5, <3>2 DEF Staler
    <3> QED
      BY <3>4, <3>5 DEF Pictures
  <2>6. CASE tx[z].at \in {"idle", "burst", "retract"}
    BY <2>1, <2>6, BlindPicture DEF Staler
  <2>7. tx[z] \in Request
    BY DEF EInv, TypeOK
  <2> QED
    BY <2>2, <2>3, <2>4, <2>5, <2>6, <2>7 DEF Request
<1>9. Pictures(tx[x])'
  BY <1>4, RestTypes, BlindPicture
<1> QED
  BY <1>5, <1>7, <1>8, <1>9 DEF Order

\* The flags of an absence are right but for the parts that changed meanwhile, and
\* who has looked at a part it concerns is outdated.
LEMMA SaveAbsenceOrder ==
    ASSUME EInv, NEW x \in Desks, SaveAbsence(x)
    PROVE  Order'
<1>1. tx[x].at = "flags" /\ tx[x] \in Request /\ Pictures(tx[x]) /\ part \in [Parts -> Part]
  BY DEF SaveAbsence, EInv, TypeOK, Order
<1>2. PICK a \in Absences :
        /\ tx[x].absences = {a}
        /\ \A p \in Parts \ tx[x].stale :
              /\ p \in tx[x].rows <=> p \in Touched(a)
              /\ p \in tx[x].rows =>
                    (tx[x].flags[p] <=> \E m \in On(p) : <<m, event.day>> \in Toggled(a))
  BY <1>1 DEF Pictures
<1> DEFINE Concerns(p) == a[2] = event.day /\ a[1] \in On(p)
           wrong == { p \in tx[x].stale : p \in tx[x].rows \/ p \in AbsenceSeen(a)[x] }
<1>3. /\ absent' = Toggled(a) /\ Ends(x, AbsenceSeen(a)) /\ event' = event
      /\ part' = [p \in Parts |-> IF p \in tx[x].rows
                             THEN [part[p] EXCEPT !.conflict = tx[x].flags[p]] ELSE part[p]]
      /\ unchecked' = (unchecked \ tx[x].rows) \cup wrong
  BY <1>2 DEF SaveAbsence, Ends
<1>4. a = <<a[1], a[2]>>
  BY EventAssumption
<1>5. \A p \in Parts : /\ part'[p].cast = part[p].cast /\ On(p)' = On(p)
                       /\ p \in tx[x].rows => part'[p].conflict = tx[x].flags[p]
                       /\ p \notin tx[x].rows => part'[p] = part[p]
  BY <1>1, <1>3 DEF Part, On
<1>6. \A p \in Parts : p \in AbsenceSeen(a)[x] <=> Concerns(p)
  BY <1>1 DEF AbsenceSeen
<1>7. tx'[x] = Rest /\ \A z \in Desks \ {x} : /\ Staler(z, tx'[z])
                                              /\ tx'[z].stale = tx[z].stale \cup AbsenceSeen(a)[z]
  BY <1>3, EndsKeeps, SeenTypes DEF EInv
<1>8. OnePerPart'
  BY <1>7, RestTypes, StaysOnePerPart DEF EInv, Order
<1>9. \A b : b # a => (b \in absent' <=> b \in absent)
  BY <1>3, ToggleEffect
\* On a part the absence does not concern nobody's absence changed.
<1>10. ASSUME NEW p \in Parts, ~Concerns(p), NEW m \in On(p)
       PROVE  <<m, event.day>> \in absent' <=> <<m, event.day>> \in absent
  BY <1>4, <1>9, <1>10
\* A part that is checked afterwards was so before, or was computed just now.
<1>11. ASSUME NEW p \in Parts \ unchecked'
       PROVE  \/ p \in tx[x].rows /\ p \notin tx[x].stale /\ Concerns(p)
              \/ p \notin tx[x].rows /\ p \notin unchecked /\ ~Concerns(p)
  <2>1. p \notin wrong /\ (p \in tx[x].rows \/ p \notin unchecked)
    BY <1>3, <1>11
  <2>2. CASE p \in tx[x].stale
    BY <1>6, <2>1, <2>2
  <2>3. CASE p \notin tx[x].stale
    BY <1>2, <2>1, <2>3 DEF Touched
  <2> QED
    BY <2>2, <2>3
<1> HIDE DEF wrong
<1>12. ASSUME NEW p \in Parts \ unchecked'
       PROVE  part'[p].conflict <=> \E m \in On(p) : <<m, event.day>> \in absent'
  <2>1. CASE p \in tx[x].rows /\ p \notin tx[x].stale
    BY <1>2, <1>3, <1>5, <2>1
  <2>2. CASE p \notin tx[x].rows /\ p \notin unchecked /\ ~Concerns(p)
    <3>1. part[p].conflict <=> \E m \in On(p) : <<m, event.day>> \in absent
      BY <2>2 DEF EInv, Order, ConflictFlagsHold, IsAbsent
    <3> QED
      BY <1>5, <1>10, <2>2, <3>1
  <2> QED
    BY <1>11, <2>1, <2>2
<1>13. ConflictFlagsHold'
  BY <1>3, <1>5, <1>12 DEF ConflictFlagsHold, IsAbsent
<1>14. ASSUME NEW z \in Desks, z # x
       PROVE  Pictures(tx[z])'
  <2>1. Staler(z, tx'[z]) /\ tx'[z].stale = tx[z].stale \cup AbsenceSeen(a)[z] /\ Pictures(tx[z])
    BY <1>7, <1>14 DEF EInv, Order
  <2>2. CASE tx[z].at \in {"lock", "check"}
    BY <1>3, <1>5, <2>1, <2>2 DEF Pictures, Staler
  <2>3. CASE tx[z].at = "save"
    <3>1. /\ tx[z].part \in Parts /\ tx[z].old = part'[tx[z].part].cast /\ tx[z].found \in Event
      BY <1>5, <2>1, <2>3 DEF Pictures
    <3>2. ASSUME tx[z].part \notin tx'[z].stale
          PROVE  tx[z].conflict <=> \E m \in Of(tx[z].new) : <<m, event.day>> \in absent'
      <4>1. tx[z].part \notin AbsenceSeen(a)[z] /\ tx[z].part \notin tx[z].stale
        BY <2>1, <3>2
      <4>2. ~(a[2] = event.day /\ a[1] \in Of(tx[z].new))
        BY <2>3, <3>1, <4>1 DEF AbsenceSeen
      <4>3. \A m \in Of(tx[z].new) : <<m, event.day>> # a
        BY <1>4, <4>2
      <4> QED
        BY <1>9, <2>1, <2>3, <4>1, <4>3 DEF Pictures, IsAbsent
    <3> QED
      BY <1>3, <2>1, <2>3, <3>1, <3>2 DEF Pictures, Staler, IsAbsent
  <2>4. CASE tx[z].at = "publish"
    <3>1. ASSUME NEW p \in Parts, p \notin unchecked', p \notin tx'[z].stale
          PROVE  \A m \in On(p)' : <<m, event'.day>> \notin absent'
      <4>1. p \notin tx[z].stale /\ ~Concerns(p)
        BY <2>1, <2>4, <3>1 DEF AbsenceSeen
      <4>2. p \notin unchecked
        BY <1>11, <3>1, <4>1
      <4>3. \A m \in On(p) : <<m, event.day>> \notin absent
        BY <2>1, <2>4, <3>1, <4>1, <4>2 DEF Pictures, IsAbsent
      <4>4. On(p)' = On(p) /\ event' = event
        BY <1>3, <1>5, <3>1
      <4>5. \A m \in On(p) : <<m, event.day>> \notin absent'
        BY <1>10, <3>1, <4>1, <4>3
      <4> QED
        BY <4>4, <4>5
    <3> QED
      BY <2>1, <2>4, <3>1 DEF Pictures, Staler, IsAbsent
  <2>5. CASE tx[z].at = "flags"
    <3>1. PICK b \in Absences :
            /\ tx[z].absences = {b}
            /\ \A p \in Parts \ tx[z].stale :
                  /\ p \in tx[z].rows <=> p \in Touched(b)
                  /\ p \in tx[z].rows =>
                        (tx[z].flags[p] <=> \E m \in On(p) : <<m, event.day>> \in Toggled(b))
      BY <2>1, <2>5 DEF Pictures
    <3>2. \A c : c # a => (c \in (Toggled(b))' <=> c \in Toggled(b))
      BY <1>9 DEF Toggled
    <3>3. ASSUME NEW p \in Parts \ tx'[z].stale
          PROVE  /\ tx'[z].rows = tx[z].rows /\ tx'[z].flags = tx[z].flags
                 /\ p \in tx'[z].rows <=> p \in (Touched(b))'
                 /\ p \in tx'[z].rows =>
                       (tx'[z].flags[p] <=> \E m \in On(p)' : <<m, event'.day>> \in (Toggled(b))')
      <4>1. p \notin tx[z].stale /\ ~Concerns(p)
        BY <2>1, <2>5, <3>3 DEF AbsenceSeen
      <4>2. p \in (Touched(b))' <=> p \in Touched(b)
        BY <1>3, <1>5, <3>3 DEF Touched
      <4>3. \A m \in On(p) : <<m, event.day>> # a
        BY <1>4, <4>1
      <4>4. \A m \in On(p) : <<m, event.day>> \in (Toggled(b))' <=> <<m, event.day>> \in Toggled(b)
        BY <3>2, <4>3
      <4>5. /\ p \in tx[z].rows <=> p \in Touched(b)
            /\ p \in tx[z].rows =>
                  (tx[z].flags[p] <=> \E m \in On(p) : <<m, event.day>> \in Toggled(b))
        BY <3>1, <4>1
      <4>6. tx'[z].rows = tx[z].rows /\ tx'[z].flags = tx[z].flags
        BY <2>1 DEF Staler
      <4>7. On(p)' = On(p) /\ event' = event
        BY <1>3, <1>5, <3>3
      <4> QED
        BY <4>2, <4>4, <4>5, <4>6, <4>7
    <3>4. tx'[z].at = "flags" /\ tx'[z].absences = {b}
      BY <2>1, <2>5, <3>1 DEF Staler
    <3> QED
      BY <3>3, <3>4 DEF Pictures
  <2>6. CASE tx[z].at \in {"idle", "burst", "retract"}
    BY <2>1, <2>6, BlindPicture DEF Staler
  <2>7. tx[z] \in Request
    BY DEF EInv, TypeOK
  <2> QED
    BY <2>2, <2>3, <2>4, <2>5, <2>6, <2>7 DEF Request
<1>15. Pictures(tx[x])'
  BY <1>7, RestTypes, BlindPicture
<1> QED
  BY <1>8, <1>13, <1>14, <1>15 DEF Order

\* A move leaves no flag checked and nobody's picture of the day.
LEMMA MoveOrder ==
    ASSUME EInv, NEW day \in Days, MoveEvent(day)
    PROVE  Order'
<1>1. /\ tx' = Outdated(DaySeen) /\ unchecked' = Parts /\ UNCHANGED <<part, absent>>
  BY DEF MoveEvent
<1>2. \A z \in Desks : /\ Staler(z, tx'[z]) /\ tx'[z].stale = tx[z].stale \cup DaySeen[z]
  BY <1>1, OutdatedKeeps, SeenTypes DEF EInv
<1>3. OnePerPart'
  BY <1>2 DEF EInv, Order, OnePerPart, Staler
<1>4. ConflictFlagsHold'
  BY <1>1 DEF ConflictFlagsHold
<1>5. ASSUME NEW z \in Desks
      PROVE  Pictures(tx[z])'
  <2>1. Staler(z, tx'[z]) /\ Pictures(tx[z])
    BY <1>2 DEF EInv, Order
  <2>2. tx[z].at \in {"check", "save", "flags"} => Parts \subseteq tx'[z].stale
    BY <1>2 DEF DaySeen
  <2>3. /\ tx'[z].at \in {"lock", "check", "save"} => tx'[z].part \in Parts
        /\ tx'[z].at \in {"check", "save"} =>
              /\ tx'[z].old = part'[tx'[z].part].cast /\ tx'[z].found \in Event
              /\ tx'[z].part \in tx'[z].stale
        /\ tx'[z].at = "publish" => Parts \ (unchecked' \cup tx'[z].stale) = {}
    BY <1>1, <2>1, <2>2 DEF Pictures, Staler
  <2>4. tx'[z].at = "flags" =>
          Parts \ tx'[z].stale = {} /\ \E a \in Absences : tx'[z].absences = {a}
    BY <2>1, <2>2 DEF Pictures, Staler
  <2> QED
    BY <2>3, <2>4 DEF Pictures
<1> QED
  BY <1>3, <1>4, <1>5 DEF Order

LEMMA SameOrder ==
    ASSUME EInv, UNCHANGED <<event, part, absent, tx, unchecked>>
    PROVE  Order'
<1>1. ASSUME NEW z \in Desks
      PROVE  Pictures(tx[z])'
  BY PictureStays DEF EInv, TypeOK, Order, Staler
<1>2. OnePerPart' /\ ConflictFlagsHold'
  BY DEF EInv, Order, OnePerPart, ConflictFlagsHold, On, IsAbsent
<1> QED
  BY <1>1, <1>2 DEF Order

-----------------------------------------------------------------------------
(* The mails that are pending or on the list of a release.                 *)

\* A step that changes no cast and does not un-release: what is stray and still
\* ahead stays so, and a mail that is new is for somebody on the part.
LEMMA MailsStay ==
    ASSUME EInv, TypeOK',
           \A z \in Desks : Staler(z, tx'[z]) \/ Listed(tx[z])',
           event.released => event'.released,
           \A p \in Parts : On(p)' = On(p),
           stray \cap Ahead' \subseteq stray',
           \A k \in notice'.pending : /\ Reachable(k[2])
                                      /\ \/ k \in notice.pending \/ k \in stray'
                                         \/ event'.released /\ k[2] \in On(k[1])
    PROVE  Mails'
<1>1. ASSUME NEW z \in Desks, Staler(z, tx'[z])
      PROVE  Listed(tx[z])'
  <2>1. Listed(tx[z]) /\ tx'[z].targets = tx[z].targets /\ tx'[z].at = tx[z].at
    BY <1>1 DEF EInv, Mails, Staler
  <2>2. ASSUME NEW k \in tx'[z].targets
        PROVE  k \in Keys /\ k \in Ahead' /\ k[1] \in Parts
    <3>1. k \in Keys
      BY <1>1, <2>2 DEF Staler, Request
    <3> QED
      BY <2>2, <3>1 DEF Ahead, Targeted, Keys
  <2>3. ASSUME NEW k \in tx'[z].targets
        PROVE  k \in stray' \/ (k[2] \in On(k[1])' /\ (tx'[z].at = "burst" => event'.released))
    BY <2>1, <2>2, <2>3 DEF Listed
  <2> QED
    BY <2>1, <2>3 DEF Listed
<1>2. ASSUME NEW k \in notice'.pending
      PROVE  (event'.released /\ k[2] \in On(k[1])') \/ k \in stray'
  <2>1. k \in Keys /\ k[1] \in Parts /\ k \in Ahead'
    BY <1>2 DEF TypeOK, Notice, Ahead, Keys
  <2>2. CASE k \in notice.pending
    BY <2>1, <2>2 DEF EInv, Mails, OnlyAssigneesAreTold
  <2>3. CASE k \notin notice.pending
    BY <1>2, <2>1, <2>3
  <2> QED
    BY <2>2, <2>3
<1> QED
  BY <1>1, <1>2 DEF Mails, PendingIsReachable, OnlyAssigneesAreTold

\* A step of one request without a mail.
LEMMA QuietMails ==
    ASSUME EInv, TypeOK', NEW x \in Desks, NEW r, Takes(x, r),
           UNCHANGED <<part, notice, stray>>, event.released => event'.released,
           Listed(tx[x])'
    PROVE  Mails'
<1>1. \A z \in Desks : Staler(z, tx'[z]) \/ Listed(tx[z])'
  BY OthersKeep DEF EInv
<1>2. \A p \in Parts : On(p)' = On(p)
  BY DEF On
<1>3. \A k \in notice'.pending : Reachable(k[2]) /\ k \in notice.pending
  BY DEF EInv, Mails, PendingIsReachable
<1> QED
  BY <1>1, <1>2, <1>3, MailsStay

LEMMA RequestMails ==
    ASSUME EInv, TypeOK', NEW x \in Desks
    PROVE  /\ \A p \in Parts, cast \in Cast : BeginAssign(x, p, cast) => Mails'
           /\ LockPart(x) => Mails'
           /\ CheckParticipants(x) => Mails'
           /\ BeginRelease(x) => Mails'
           /\ Publish(x) => Mails'
           /\ BeginUnrelease(x) => Mails'
           /\ \A a \in Absences : BeginAbsence(x, a) => Mails'
<1>1. tx[x] \in Request /\ tx \in [Desks -> Request] /\ event \in Event /\ Listed(tx[x])
  BY DEF EInv, TypeOK, Mails
<1>2. ASSUME NEW r, Takes(x, r), r.targets = {}, UNCHANGED <<event, part, notice, stray>>
      PROVE  Mails'
  <2>1. tx'[x] = r
    BY <1>2, OthersKeep DEF EInv
  <2>2. Listed(tx[x])'
    BY <1>2, <2>1 DEF Listed
  <2> QED
    BY <1>2, <2>2, QuietMails
<1>3. ASSUME NEW p \in Parts, NEW cast \in Cast, BeginAssign(x, p, cast)
      PROVE  Mails'
  <2> DEFINE r == [Rest EXCEPT !.at = "lock", !.part = p, !.new = cast, !.seen = event.released]
  <2>1. Takes(x, r) /\ r.targets = {} /\ UNCHANGED <<event, part, notice, stray>>
    BY <1>3 DEF BeginAssign, Takes, Rest
  <2> QED
    BY <1>2, <2>1
<1>4. ASSUME LockPart(x)
      PROVE  Mails'
  <2> DEFINE r == [tx[x] EXCEPT !.at = "check", !.old = part[tx[x].part].cast, !.found = event]
  <2>1. Takes(x, r) /\ r.targets = tx[x].targets /\ UNCHANGED <<event, part, notice, stray>>
    BY <1>1, <1>4 DEF LockPart, Takes, Request
  <2>2. tx[x].targets = {}
    BY <1>1, <1>4 DEF LockPart, Listed
  <2> QED
    BY <1>2, <2>1, <2>2
<1>5. ASSUME CheckParticipants(x)
      PROVE  Mails'
  <2> DEFINE away == \E m \in Of(tx[x].new) : IsAbsent(m, tx[x].found.day)
             r == IF away /\ tx[x].found.released THEN Rest
                  ELSE [tx[x] EXCEPT !.at = "save", !.conflict = away]
  <2>1. Takes(x, r) /\ UNCHANGED <<event, part, notice, stray>>
    BY <1>5 DEF CheckParticipants, Takes
  <2>2. tx[x].targets = {}
    BY <1>1, <1>5 DEF CheckParticipants, Listed
  <2>3. r.targets = {}
    BY <1>1, <2>2, RestTypes DEF Request
  <2> QED
    BY <1>2, <2>1, <2>3
<1>6. ASSUME BeginRelease(x)
      PROVE  Mails'
  <2> DEFINE T == { k \in Keys : k[2] \in On(k[1]) }
             r == [Rest EXCEPT !.at = "publish", !.targets = T]
  <2>1. /\ Takes(x, r) /\ r.targets = T /\ r.at = "publish"
        /\ UNCHANGED <<event, part, notice, stray>>
    BY <1>6 DEF BeginRelease, Takes, Rest
  <2>2. tx'[x] = r
    BY <2>1, OthersKeep DEF EInv
  <2>3. \A k \in T : k[2] \in On(k[1])'
    BY <2>1 DEF On
  <2> HIDE DEF T, r
  <2>4. Listed(tx[x])'
    BY <2>1, <2>2, <2>3 DEF Listed
  <2> QED
    BY <2>1, <2>4, QuietMails
<1>7. ASSUME Publish(x)
      PROVE  Mails'
  <2> DEFINE s == [tx[x] EXCEPT !.at = "burst"]
             r == IF tx[x].targets = {} THEN Rest ELSE s
  <2>1. /\ Takes(x, r) /\ s.at = "burst" /\ s.targets = tx[x].targets
        /\ UNCHANGED <<part, notice, stray>> /\ event'.released
    BY <1>1, <1>7 DEF Publish, Takes, Request, Event
  <2>2. tx'[x] = r
    BY <2>1, OthersKeep DEF EInv
  <2>3. r = s \/ (r = Rest /\ r.targets = {})
    BY RestTypes
  <2>4. \A k \in tx[x].targets : k \in stray' \/ k[2] \in On(k[1])'
    BY <1>1, <2>1 DEF Listed, On
  <2> HIDE DEF s, r
  <2>5. Listed(tx[x])'
    BY <2>1, <2>2, <2>3, <2>4 DEF Listed
  <2> QED
    BY <2>1, <2>5, QuietMails
<1>8. ASSUME BeginUnrelease(x)
      PROVE  Mails'
  <2>1. Takes(x, [Rest EXCEPT !.at = "retract"]) /\ UNCHANGED <<event, part, notice, stray>>
    BY <1>8 DEF BeginUnrelease, Takes
  <2>2. [Rest EXCEPT !.at = "retract"].targets = {}
    BY DEF Rest
  <2> QED
    BY <1>2, <2>1, <2>2
<1>9. ASSUME NEW a \in Absences, BeginAbsence(x, a)
      PROVE  Mails'
  <2>1. Takes(x, Reading(a)) /\ UNCHANGED <<event, part, notice, stray>>
    BY <1>9 DEF BeginAbsence, Takes, Reading, Touched
  <2>2. Reading(a).targets = {}
    BY DEF Reading, Rest
  <2> QED
    BY <1>2, <2>1, <2>2
<1> QED
  BY <1>3, <1>4, <1>5, <1>6, <1>7, <1>8, <1>9

\* The notifications of a release: each takes a member off the list.
LEMMA BurstMails ==
    ASSUME EInv, TypeOK', NEW x \in Desks, Fire(x) \/ FireFails(x)
    PROVE  Mails'
<1>1. tx[x] \in Request /\ Listed(tx[x]) /\ notice \in Notice
  BY DEF EInv, TypeOK, Mails
<1>2. ASSUME NEW T, tx[x].at = "burst", Fired(x, T), UNCHANGED <<event, part>>,
             stray' = stray \cap Ahead',
             \A k \in notice'.pending :
                k \in notice.pending \/ (k \in tx[x].targets /\ Reachable(k[2]))
      PROVE  Mails'
  <2> DEFINE s == [tx[x] EXCEPT !.targets = tx[x].targets \ T]
             r == IF tx[x].targets = T THEN Rest ELSE s
  <2>1. Takes(x, r) /\ s.at = "burst" /\ s.targets = tx[x].targets \ T
    BY <1>1, <1>2 DEF Fired, Takes, EInv, TypeOK, Request
  <2>2. r = s \/ (r = Rest /\ r.targets = {})
    BY RestTypes
  <2>3. tx'[x] = r /\ \A z \in Desks \ {x} : Staler(z, tx'[z])
    BY <2>1, OthersKeep DEF EInv
  <2>4. \A p \in Parts : On(p)' = On(p)
    BY <1>2 DEF On
  <2> HIDE DEF s, r
  <2>5. ASSUME NEW k \in tx'[x].targets
        PROVE  k \in stray' \/ (k[2] \in On(k[1])' /\ event'.released)
    <3>1. k \in tx[x].targets /\ k \in Keys
      BY <1>1, <2>1, <2>2, <2>3, <2>5 DEF Request
    <3>2. k \in Ahead' /\ k[1] \in Parts
      BY <2>5, <3>1 DEF Ahead, Targeted, Keys
    <3> QED
      BY <1>1, <1>2, <2>4, <3>1, <3>2 DEF Listed
  <2>6. tx'[x].targets # {} => tx'[x].at = "burst"
    BY <2>1, <2>2, <2>3
  <2>7. Listed(tx[x])'
    BY <2>5, <2>6 DEF Listed
  <2>8. ASSUME NEW k \in notice'.pending
        PROVE  /\ Reachable(k[2])
               /\ k \in notice.pending \/ k \in stray' \/ (event'.released /\ k[2] \in On(k[1]))
    <3>1. k \in Ahead'
      BY <2>8 DEF Ahead
    <3> QED
      BY <1>1, <1>2, <2>8, <3>1 DEF Listed, EInv, Mails, PendingIsReachable
  <2> QED
    BY <1>2, <2>3, <2>4, <2>7, <2>8, MailsStay
<1>3. CASE Fire(x)
  <2>1. PICK k \in tx[x].targets :
          /\ tx[x].at = "burst" /\ Fired(x, {k}) /\ UNCHANGED <<event, part>>
          /\ notice' = IF Reachable(k[2]) THEN Assigned(notice, k) ELSE notice
          /\ stray' = stray \cap Ahead'
    BY <1>3 DEF Fire
  <2>2. \A j \in notice'.pending :
            j \in notice.pending \/ (j \in tx[x].targets /\ Reachable(j[2]))
    BY <1>1, <2>1 DEF Assigned, Notice
  <2> QED
    BY <1>2, <2>1, <2>2
<1>4. CASE FireFails(x)
  <2>1. PICK T \in { {k} : k \in tx[x].targets } \cup {tx[x].targets} :
          /\ tx[x].at = "burst" /\ Fired(x, T) /\ UNCHANGED <<event, part, notice>>
          /\ stray' = stray \cap Ahead'
    BY <1>4 DEF FireFails
  <2> QED
    BY <1>2, <2>1
<1> QED
  BY <1>3, <1>4

\* An assignment: whoever leaves the part loses his mail, or is counted as stray.
LEMMA SaveMails ==
    ASSUME EInv, TypeOK', NEW x \in Desks, SavePart(x)
    PROVE  Mails'
<1> DEFINE p == tx[x].part
           old == Of(tx[x].old)
           new == Of(tx[x].new)
           early == IF tx[x].seen /\ ~event.released THEN new ELSE {}
           late == { m \in old \ new : Targeted(<<p, m>>) \/ ~tx[x].seen }
<1>1. /\ tx[x].at = "save" /\ tx[x] \in Request /\ Ends(x, PartSeen(p))
      /\ part' = [part EXCEPT ![p] = [cast |-> tx[x].new, conflict |-> tx[x].conflict]]
      /\ notice' = (IF tx[x].seen THEN Dispatch(notice, p, tx[x].old, tx[x].new) ELSE notice)
      /\ stray' = (stray \cup ({p} \X (early \cup late))) \cap Ahead'
      /\ event' = event
  BY DEF SavePart, Ends, EInv, TypeOK
<1>2. /\ p \in Parts /\ part \in [Parts -> Part] /\ notice \in Notice
      /\ tx[x].old = part[p].cast /\ tx[x].old \in Cast /\ tx[x].new \in Cast
  BY <1>1 DEF EInv, TypeOK, Order, Pictures, Request
<1>3. /\ On(p) = old /\ Of(part'[p].cast) = new
      /\ \A q \in Parts \ {p} : Of(part'[q].cast) = On(q)
  <2>1. /\ part'[p] = [cast |-> tx[x].new, conflict |-> tx[x].conflict]
        /\ \A q \in Parts \ {p} : part'[q] = part[q]
    BY <1>1, <1>2
  <2> QED
    BY <1>2, <2>1 DEF On
<1>4. tx'[x] = Rest /\ \A z \in Desks \ {x} : Staler(z, tx'[z])
  BY <1>1, <1>2, EndsKeeps, SeenTypes DEF EInv
<1>5. \A k \in notice.pending : Reachable(k[2])
  BY DEF EInv, Mails, PendingIsReachable
<1>6. /\ \A k \in notice'.pending : Reachable(k[2])
      /\ tx[x].seen => \A m \in old \ new : <<p, m>> \notin notice'.pending
      /\ \A k \in notice'.pending : k \in notice.pending \/ (tx[x].seen /\ \E m \in new : k = <<p, m>>)
  <2>1. CASE tx[x].seen
    BY <1>1, <1>2, <1>5, <2>1, DispatchEffect
  <2>2. CASE ~tx[x].seen
    BY <1>1, <1>5, <2>2
  <2> QED
    BY <2>1, <2>2
<1>7. \A k \in Keys : k \in Ahead' /\ (k \in stray \/ (k[1] = p /\ k[2] \in early \cup late)) => k \in stray'
  BY <1>1 DEF Keys
<1> HIDE DEF early
<1>8. ASSUME NEW k \in Keys, k \in Ahead', k \in stray \/ k[2] \in On(k[1]),
             k[1] = p /\ k[2] \in old \ new => k[2] \in late
      PROVE  k \in stray' \/ k[2] \in On(k[1])'
  <2>1. k[1] \in Parts
    BY DEF Keys
  <2>2. k[2] \in Of(part'[k[1]].cast) => k[2] \in On(k[1])'
    BY DEF On
  <2>3. CASE k \in stray
    BY <1>7, <1>8, <2>3
  <2>4. CASE k[1] # p /\ k[2] \in On(k[1])
    BY <1>3, <2>1, <2>2, <2>4
  <2>5. CASE k[1] = p /\ k[2] \in On(k[1])
    BY <1>3, <1>7, <1>8, <2>2, <2>5
  <2> QED
    BY <1>8, <2>3, <2>4, <2>5
<1>9. ASSUME NEW z \in Desks, z # x
      PROVE  Listed(tx[z])'
  <2>1. /\ Listed(tx[z]) /\ tx'[z].targets = tx[z].targets /\ tx'[z].at = tx[z].at
        /\ tx[z].targets \subseteq Keys
    BY <1>4, <1>9 DEF EInv, TypeOK, Mails, Staler, Request
  <2>2. ASSUME NEW k \in tx'[z].targets
        PROVE  k \in stray' \/ (k[2] \in On(k[1])' /\ (tx'[z].at = "burst" => event'.released))
    <3>1. k \in Keys /\ k \in Ahead' /\ k[1] \in Parts
      BY <2>1, <2>2 DEF Ahead, Targeted, Keys
    <3>2. k[1] = p /\ k[2] \in old \ new => k[2] \in late
      BY <2>1, <2>2, <3>1 DEF Targeted, Keys
    <3>3. k \in stray \/ (k[2] \in On(k[1]) /\ (tx[z].at = "burst" => event.released))
      BY <2>1, <2>2 DEF Listed
    <3>4. k \in stray => k \in stray'
      BY <1>7, <3>1
    <3> QED
      BY <1>1, <1>8, <2>1, <3>1, <3>2, <3>3, <3>4
  <2> QED
    BY <2>1, <2>2 DEF Listed
<1>10. Listed(tx[x])'
  BY <1>4, RestTypes DEF Listed
<1>11. ASSUME NEW k \in notice'.pending
       PROVE  (event'.released /\ k[2] \in On(k[1])') \/ k \in stray'
  <2>1. k \in Keys /\ k \in Ahead' /\ k[1] \in Parts
    BY <1>11 DEF TypeOK, Notice, Ahead, Keys
  <2>2. CASE k \in notice.pending
    <3>1. k[1] = p /\ k[2] \in old \ new => k[2] \in late
      BY <1>6, <1>11, <2>1 DEF Keys
    <3>2. k \in stray => k \in stray'
      BY <1>7, <2>1
    <3>3. k \in stray \/ (event.released /\ k[2] \in On(k[1]))
      BY <2>2 DEF EInv, Mails, OnlyAssigneesAreTold
    <3> QED
      BY <1>1, <1>8, <2>1, <3>1, <3>2, <3>3
  <2>3. CASE k \notin notice.pending
    <3>1. tx[x].seen /\ k[1] = p /\ k[2] \in new
      BY <1>6, <1>11, <2>3
    <3>2. ~event.released => k \in stray'
      BY <1>7, <2>1, <3>1 DEF early
    <3>3. k[2] \in On(k[1])'
      BY <1>3, <3>1 DEF On
    <3> QED
      BY <1>1, <3>2, <3>3
  <2> QED
    BY <2>2, <2>3
<1> QED
  BY <1>6, <1>9, <1>10, <1>11 DEF Mails, PendingIsReachable, OnlyAssigneesAreTold

\* An event that becomes a draft again: no row is pending, and what its releases
\* still have on their lists is counted as stray.
LEMMA RetractMails ==
    ASSUME EInv, TypeOK', NEW x \in Desks, Retract(x)
    PROVE  Mails'
<1>1. /\ notice'.pending = {} /\ Takes(x, Rest) /\ part' = part
      /\ stray' = (stray \cup { k \in Keys : Firing(k) }) \cap Ahead'
  BY DEF Retract, Takes, EInv, TypeOK, Notice
<1>2. tx'[x] = Rest /\ \A z \in Desks \ {x} : tx'[z] = tx[z]
  BY <1>1, OthersKeep DEF EInv
<1>3. ASSUME NEW z \in Desks, z # x
      PROVE  Listed(tx[z])'
  <2>1. Listed(tx[z]) /\ tx'[z] = tx[z] /\ tx[z].targets \subseteq Keys
    BY <1>2, <1>3 DEF EInv, TypeOK, Mails, Request
  <2>2. ASSUME NEW k \in tx[z].targets
        PROVE  k \in stray' \/ (k[2] \in On(k[1])' /\ tx[z].at # "burst")
    <3>1. k \in Keys /\ k \in Ahead' /\ k[1] \in Parts
      BY <2>1, <2>2 DEF Ahead, Targeted, Keys
    <3>2. k \in stray \/ Firing(k) => k \in stray'
      BY <1>1, <3>1
    <3>3. tx[z].at = "burst" => Firing(k)
      BY <2>2 DEF Firing
    <3> QED
      BY <1>1, <2>1, <2>2, <3>1, <3>2, <3>3 DEF Listed, On
  <2> QED
    BY <2>1, <2>2 DEF Listed
<1>4. Listed(tx[x])'
  BY <1>2, RestTypes DEF Listed
<1> QED
  BY <1>1, <1>3, <1>4 DEF Mails, PendingIsReachable, OnlyAssigneesAreTold

\* Absences, the day, a mail that is sent, a step of nobody.
LEMMA OtherMails ==
    ASSUME EInv, TypeOK'
    PROVE  /\ \A x \in Desks : SaveAbsence(x) => Mails'
           /\ \A day \in Days : MoveEvent(day) => Mails'
           /\ \A k \in Keys : Mail(k) => Mails'
           /\ UNCHANGED vars => Mails'
<1>1. ASSUME notice'.pending \subseteq notice.pending, \A p \in Parts : On(p)' = On(p),
             \A z \in Desks : Staler(z, tx'[z]) \/ Listed(tx[z])',
             event.released => event'.released, stray \cap Ahead' \subseteq stray'
      PROVE  Mails'
  <2>1. \A k \in notice'.pending : Reachable(k[2]) /\ k \in notice.pending
    BY <1>1 DEF EInv, Mails, PendingIsReachable
  <2> QED
    BY <1>1, <2>1, MailsStay
<1>2. ASSUME NEW x \in Desks, SaveAbsence(x)
      PROVE  Mails'
  <2>1. PICK a \in tx[x].absences :
          /\ Ends(x, AbsenceSeen(a)) /\ UNCHANGED <<event, notice, stray>>
          /\ part' = [p \in Parts |-> IF p \in tx[x].rows
                                 THEN [part[p] EXCEPT !.conflict = tx[x].flags[p]] ELSE part[p]]
    BY <1>2 DEF SaveAbsence, Ends
  <2>2. tx'[x] = Rest /\ \A z \in Desks \ {x} : Staler(z, tx'[z])
    BY <2>1, EndsKeeps, SeenTypes DEF EInv
  <2>3. Listed(tx[x])'
    BY <2>2, RestTypes DEF Listed
  <2>4. \A p \in Parts : On(p)' = On(p)
    BY <2>1 DEF EInv, TypeOK, Part, On
  <2> QED
    BY <1>1, <2>1, <2>2, <2>3, <2>4
<1>3. ASSUME NEW day \in Days, MoveEvent(day)
      PROVE  Mails'
  <2>1. /\ \A z \in Desks : Staler(z, tx'[z])
        /\ UNCHANGED <<part, notice, stray>> /\ event'.released = event.released
    BY <1>3, OutdatedKeeps, SeenTypes DEF MoveEvent, EInv, TypeOK, Event
  <2> QED
    BY <1>1, <2>1 DEF On
<1>4. \A z \in Desks : tx' = tx => Staler(z, tx'[z])
  BY DEF EInv, TypeOK, Staler
<1>5. ASSUME NEW k \in Keys, Mail(k)
      PROVE  Mails'
  BY <1>1, <1>4, <1>5 DEF Mail, On
<1>6. ASSUME UNCHANGED vars
      PROVE  Mails'
  BY <1>1, <1>4, <1>6 DEF vars, On
<1> QED
  BY <1>2, <1>3, <1>5, <1>6

-----------------------------------------------------------------------------
(* Nobody is forgotten.                                                    *)

\* No step but an assignment and the start of one changes a pair.
LEMMA PairsStay ==
    ASSUME EInv, \A p \in Parts : part'[p].cast = part[p].cast,
           \A z \in Desks : \/ tx'[z].at \in {"lock", "check", "save"} =>
                                  tx[z].at \in {"lock", "check", "save"} /\ tx'[z].new = tx[z].new
                            \/ Paired(tx'[z].new)
    PROVE  Pairs'
<1>1. Pairs
  BY DEF EInv, Telling
<1>2. \A c, d : c = d => (Paired(c) <=> Paired(d))
  BY DEF Paired
<1>3. \A p \in Parts : Paired(part'[p].cast)
  BY <1>1, <1>2 DEF Pairs
<1>4. \A z \in Desks : tx'[z].at \in {"lock", "check", "save"} => Paired(tx'[z].new)
  BY <1>1, <1>2 DEF Pairs
<1> QED
  BY <1>3, <1>4 DEF Pairs, Paired

LEMMA RestIsPaired == Rest.at \notin {"lock", "check", "save"} /\ Paired(Rest.new)
BY RestTypes DEF Paired, Rest

\* A release that notifies goes on while others work.
LEMMA FiringStays ==
    ASSUME NEW k, \A z \in Desks : Staler(z, tx'[z]) \/ tx[z].at # "burst", Firing(k)
    PROVE  Firing(k)'
BY DEF Firing, Staler

\* A step that changes no cast and does not release: whoever was told stays told, or
\* is remembered.
LEMMA ToldStays ==
    ASSUME EInv, \A p \in Parts : On(p)' = On(p), event'.released => event.released,
           \A k \in Keys : k[2] \in Accounts /\ (Told(k) \/ k \in untold)
                              => Told(k)' \/ k \in untold'
    PROVE  NobodyIsForgotten'
<1>1. ASSUME event'.released, NEW p \in Parts, NEW m \in On(p) \cap Accounts
      PROVE  Told(<<p, m>>)' \/ <<p, m>> \in untold'
  <2>1. <<p, m>> \in Keys
    BY EventAssumption DEF Keys
  <2>2. Told(<<p, m>>) \/ <<p, m>> \in untold
    BY <1>1 DEF EInv, Telling, NobodyIsForgotten
  <2> QED
    BY <2>1, <2>2
<1> QED
  BY <1>1 DEF NobodyIsForgotten

\* A step of one request without a mail.
LEMMA QuietTelling ==
    ASSUME EInv, NEW x \in Desks, NEW r, Takes(x, r), tx[x].at # "burst",
           UNCHANGED <<part, notice, untold>>, event'.released => event.released,
           r.at \in {"lock", "check", "save"} =>
              \/ Paired(r.new)
              \/ tx[x].at \in {"lock", "check", "save"} /\ r.new = tx[x].new
    PROVE  Telling'
<1>1. TypeOK
  BY DEF EInv
<1>2. tx'[x] = r /\ \A z \in Desks \ {x} : Staler(z, tx'[z])
  BY <1>1, OthersKeep
<1>3. \A k \in Keys : Told(k) => Told(k)'
  <2>1. \A k \in Keys : Firing(k) => Firing(k)'
    BY <1>2, FiringStays
  <2> QED
    BY <2>1 DEF Told
<1>4. NobodyIsForgotten'
  BY <1>3, ToldStays DEF On
<1>5. Pairs'
  BY <1>2, PairsStay DEF Staler
<1> QED
  BY <1>4, <1>5 DEF Telling

LEMMA RequestTelling ==
    ASSUME EInv, NEW x \in Desks
    PROVE  /\ \A p \in Parts, cast \in Cast : BeginAssign(x, p, cast) => Telling'
           /\ LockPart(x) => Telling'
           /\ CheckParticipants(x) => Telling'
           /\ BeginRelease(x) => Telling'
           /\ BeginUnrelease(x) => Telling'
           /\ \A a \in Absences : BeginAbsence(x, a) => Telling'
<1>1. tx[x] \in Request
  BY DEF EInv, TypeOK
<1>2. ASSUME NEW p \in Parts, NEW cast \in Cast, BeginAssign(x, p, cast)
      PROVE  Telling'
  <2> DEFINE r == [Rest EXCEPT !.at = "lock", !.part = p, !.new = cast, !.seen = event.released]
  <2>1. /\ Takes(x, r) /\ r.new = cast /\ Paired(cast) /\ tx[x].at # "burst"
        /\ UNCHANGED <<event, part, notice, untold>>
    BY <1>2 DEF BeginAssign, Takes, Rest, Paired
  <2> HIDE DEF r
  <2> QED
    BY <2>1, QuietTelling
<1>3. ASSUME LockPart(x)
      PROVE  Telling'
  <2> DEFINE r == [tx[x] EXCEPT !.at = "check", !.old = part[tx[x].part].cast, !.found = event]
  <2>1. /\ Takes(x, r) /\ r.new = tx[x].new /\ tx[x].at = "lock"
        /\ UNCHANGED <<event, part, notice, untold>>
    BY <1>1, <1>3 DEF LockPart, Takes, Request
  <2> HIDE DEF r
  <2> QED
    BY <2>1, QuietTelling
<1>4. ASSUME CheckParticipants(x)
      PROVE  Telling'
  <2> DEFINE away == \E m \in Of(tx[x].new) : IsAbsent(m, tx[x].found.day)
             s == [tx[x] EXCEPT !.at = "save", !.conflict = away]
             r == IF away /\ tx[x].found.released THEN Rest ELSE s
  <2>1. /\ Takes(x, r) /\ s.new = tx[x].new /\ tx[x].at = "check"
        /\ UNCHANGED <<event, part, notice, untold>>
    BY <1>1, <1>4 DEF CheckParticipants, Takes, Request
  <2>2. r = Rest \/ r = s
    OBVIOUS
  <2> HIDE DEF r, s
  <2> QED
    BY <2>1, <2>2, RestIsPaired, QuietTelling
<1>5. ASSUME BeginRelease(x)
      PROVE  Telling'
  <2> DEFINE r == [Rest EXCEPT !.at = "publish", !.targets = { k \in Keys : k[2] \in On(k[1]) }]
  <2>1. /\ Takes(x, r) /\ r.at = "publish" /\ tx[x].at # "burst"
        /\ UNCHANGED <<event, part, notice, untold>>
    BY <1>5 DEF BeginRelease, Takes, Rest
  <2> HIDE DEF r
  <2> QED
    BY <2>1, QuietTelling
<1>6. ASSUME BeginUnrelease(x)
      PROVE  Telling'
  <2> DEFINE r == [Rest EXCEPT !.at = "retract"]
  <2>1. /\ Takes(x, r) /\ r.at = "retract" /\ tx[x].at # "burst"
        /\ UNCHANGED <<event, part, notice, untold>>
    BY <1>6 DEF BeginUnrelease, Takes, Rest
  <2> HIDE DEF r
  <2> QED
    BY <2>1, QuietTelling
<1>7. ASSUME NEW a \in Absences, BeginAbsence(x, a)
      PROVE  Telling'
  <2>1. /\ Takes(x, Reading(a)) /\ Reading(a).at = "flags" /\ tx[x].at # "burst"
        /\ UNCHANGED <<event, part, notice, untold>>
    BY <1>7 DEF BeginAbsence, Takes, Reading, Touched, Rest
  <2> QED
    BY <2>1, QuietTelling
<1> QED
  BY <1>2, <1>3, <1>4, <1>5, <1>6, <1>7

\* An assignment notifies who comes, or remembers why it does not.
LEMMA SaveTelling ==
    ASSUME EInv, NEW x \in Desks, SavePart(x)
    PROVE  Telling'
<1> DEFINE p == tx[x].part
           old == Of(tx[x].old)
           new == Of(tx[x].new)
           swapped == IF tx[x].seen THEN Swapped(tx[x].old, tx[x].new) ELSE {}
           unseen == IF event.released /\ ~tx[x].seen THEN new \ old ELSE {}
<1>1. /\ tx[x].at = "save" /\ tx[x] \in Request /\ Ends(x, PartSeen(p))
      /\ part' = [part EXCEPT ![p] = [cast |-> tx[x].new, conflict |-> tx[x].conflict]]
      /\ notice' = (IF tx[x].seen THEN Dispatch(notice, p, tx[x].old, tx[x].new) ELSE notice)
      /\ untold' = (untold \cup ({p} \X (swapped \cup unseen))) \ notice'.pending
      /\ event' = event
  BY DEF SavePart, Ends, EInv, TypeOK
<1>2. /\ p \in Parts /\ part \in [Parts -> Part] /\ notice \in Notice
      /\ tx[x].old = part[p].cast /\ tx[x].old \in Cast /\ tx[x].new \in Cast
      /\ Paired(tx[x].old) /\ Paired(tx[x].new)
  BY <1>1 DEF EInv, TypeOK, Order, Pictures, Request, Telling, Pairs
<1>3. /\ On(p) = old /\ part'[p].cast = tx[x].new /\ Of(part'[p].cast) = new
      /\ \A q \in Parts \ {p} : part'[q].cast = part[q].cast /\ Of(part'[q].cast) = On(q)
  <2>1. /\ part'[p] = [cast |-> tx[x].new, conflict |-> tx[x].conflict]
        /\ \A q \in Parts \ {p} : part'[q] = part[q]
    BY <1>1, <1>2
  <2> QED
    BY <1>2, <2>1 DEF On
<1>4. tx'[x] = Rest /\ \A z \in Desks \ {x} : Staler(z, tx'[z])
  BY <1>1, <1>2, EndsKeeps, SeenTypes DEF EInv
<1>5. Pairs'
  <2>1. \A c, d : c = d => (Paired(c) <=> Paired(d))
    BY DEF Paired
  <2>2. \A q \in Parts : Paired(part'[q].cast)
    BY <1>2, <1>3, <2>1 DEF EInv, Telling, Pairs
  <2>3. \A z \in Desks : tx'[z].at \in {"lock", "check", "save"} => Paired(tx'[z].new)
    BY <1>4, <2>1, RestIsPaired DEF EInv, Telling, Pairs, Staler
  <2> QED
    BY <2>2, <2>3 DEF Pairs, Paired
<1>6. \A k : Firing(k) => Firing(k)'
  BY <1>1, <1>4, FiringStays
<1>7. \A k : Told(k) /\ Keeps(notice, notice', k) => Told(k)'
  BY <1>6 DEF Told, Keeps
<1>8. \A k : k \in notice'.pending => Told(k)'
  BY DEF Told
<1>9. \A k : k \in untold \/ (k[1] = p /\ k \in {p} \X (swapped \cup unseen)) => Told(k)' \/ k \in untold'
  BY <1>1, <1>8
<1>10. /\ \A k \in Keys : k[1] # p => Keeps(notice, notice', k)
       /\ \A m \in new \cap Accounts : \/ <<p, m>> \in notice'.pending
                                       \/ m \in old /\ Keeps(notice, notice', <<p, m>>)
                                       \/ tx[x].seen /\ m \in Swapped(tx[x].old, tx[x].new)
                                       \/ ~tx[x].seen /\ m \notin old
  <2>1. CASE tx[x].seen
    BY <1>1, <1>2, <2>1, DispatchTells
  <2>2. CASE ~tx[x].seen
    <3>1. notice' = notice
      BY <1>1, <2>2
    <3> QED
      BY <2>2, <3>1 DEF Keeps
  <2> QED
    BY <2>1, <2>2
<1>11. ASSUME event'.released, NEW q \in Parts, NEW m \in Of(part'[q].cast) \cap Accounts
       PROVE  Told(<<q, m>>)' \/ <<q, m>> \in untold'
  <2>1. <<q, m>> \in Keys
    BY EventAssumption DEF Keys
  <2>2. m \in On(q) => Told(<<q, m>>) \/ <<q, m>> \in untold
    BY <1>1, <1>11 DEF EInv, Telling, NobodyIsForgotten
  <2>3. CASE q # p
    BY <1>3, <1>7, <1>9, <1>10, <1>11, <2>1, <2>2, <2>3
  <2>4. CASE q = p
    <3>1. m \in new \cap Accounts
      BY <1>3, <1>11, <2>4
    <3>2. CASE <<p, m>> \in notice'.pending
      BY <1>8, <2>4, <3>2
    <3>3. CASE m \in old /\ Keeps(notice, notice', <<p, m>>)
      BY <1>3, <1>7, <1>9, <2>2, <2>4, <3>3
    <3>4. CASE tx[x].seen /\ m \in Swapped(tx[x].old, tx[x].new)
      BY <1>9, <2>4, <3>4
    <3>5. CASE ~tx[x].seen /\ m \notin old
      BY <1>1, <1>9, <1>11, <2>4, <3>1, <3>5
    <3> QED
      BY <1>10, <3>1, <3>2, <3>3, <3>4, <3>5
  <2> QED
    BY <2>3, <2>4
<1>12. NobodyIsForgotten'
  BY <1>11 DEF NobodyIsForgotten, On
<1> QED
  BY <1>5, <1>12 DEF Telling

\* A release has whoever it read on its list, and remembers the others.
LEMMA PublishTelling ==
    ASSUME EInv, NEW x \in Desks, Publish(x)
    PROVE  Telling'
<1> DEFINE s == [tx[x] EXCEPT !.at = "burst"]
           r == IF tx[x].targets = {} THEN Rest ELSE s
<1>1. /\ tx[x] \in Request /\ tx[x].at = "publish" /\ Takes(x, r) /\ TypeOK
      /\ s.at = "burst" /\ s.targets = tx[x].targets
      /\ untold' = (untold \cup { k \in Keys : k[2] \in On(k[1]) /\ k \notin tx[x].targets })
                       \ notice.pending
      /\ UNCHANGED <<part, notice>>
  BY DEF Publish, Takes, EInv, TypeOK, Request
<1>2. tx'[x] = r /\ (r = s \/ (r = Rest /\ tx[x].targets = {}))
  BY <1>1, OthersKeep
<1>3. \A z \in Desks \ {x} : Staler(z, tx'[z])
  BY <1>1, OthersKeep
<1> HIDE DEF r, s
<1>4. ASSUME NEW k \in Keys, k[2] \in On(k[1])
      PROVE  Told(k)' \/ k \in untold'
  <2>1. CASE k \in tx[x].targets
    <3>1. tx'[x].at = "burst" /\ k \in tx'[x].targets
      BY <1>1, <1>2, <2>1
    <3>2. Firing(k)'
      BY <3>1 DEF Firing
    <3> QED
      BY <3>2 DEF Told
  <2>2. CASE k \notin tx[x].targets
    BY <1>1, <1>4, <2>2 DEF Told
  <2> QED
    BY <2>1, <2>2
<1>5. NobodyIsForgotten'
  <2>1. ASSUME NEW p \in Parts, NEW m \in On(p) \cap Accounts
        PROVE  Told(<<p, m>>)' \/ <<p, m>> \in untold'
    <3>1. <<p, m>> \in Keys
      BY EventAssumption DEF Keys
    <3> QED
      BY <1>4, <3>1
  <2> QED
    BY <1>1, <2>1 DEF NobodyIsForgotten, On
<1>6. Pairs'
  <2>1. tx'[x].at \notin {"lock", "check", "save"}
    BY <1>1, <1>2, RestIsPaired
  <2> QED
    BY <1>1, <1>3, <2>1, PairsStay DEF Staler
<1> QED
  BY <1>5, <1>6 DEF Telling

\* A notification of a release is enqueued, or the member is remembered.
LEMMA BurstTelling ==
    ASSUME EInv, NEW x \in Desks, Fire(x) \/ FireFails(x)
    PROVE  Telling'
<1>1. tx[x] \in Request /\ TypeOK /\ notice \in Notice
  BY DEF EInv, TypeOK
<1>2. ASSUME NEW T, tx[x].at = "burst", Fired(x, T), UNCHANGED <<event, part>>,
             notice'.mailed = notice.mailed, notice.pending \subseteq notice'.pending,
             \A k \in T : k[2] \in Accounts => k \in notice'.pending \/ k \in untold',
             untold \subseteq untold' \cup notice'.pending
      PROVE  Telling'
  <2> DEFINE s == [tx[x] EXCEPT !.targets = tx[x].targets \ T]
             r == IF tx[x].targets = T THEN Rest ELSE s
  <2>1. /\ Takes(x, r) /\ s.at = "burst" /\ s.targets = tx[x].targets \ T
    BY <1>1, <1>2 DEF Fired, Takes, EInv, TypeOK, Request
  <2>2. tx'[x] = r /\ (r = s \/ (r = Rest /\ tx[x].targets = T))
    BY <1>1, <2>1, OthersKeep
  <2>3. \A z \in Desks \ {x} : Staler(z, tx'[z])
    BY <1>1, <2>1, OthersKeep
  <2> HIDE DEF r, s
  <2>4. ASSUME NEW k \in Keys, k[2] \in Accounts, Firing(k)
        PROVE  Told(k)' \/ k \in untold'
    <3>1. PICK z \in Desks : tx[z].at = "burst" /\ k \in tx[z].targets
      BY <2>4 DEF Firing
    <3>2. CASE z # x
      <4>1. tx'[z].at = "burst" /\ k \in tx'[z].targets
        BY <2>3, <3>1, <3>2 DEF Staler
      <4> QED
        BY <4>1 DEF Told, Firing
    <3>3. CASE z = x /\ k \in T
      BY <1>2, <2>4, <3>3 DEF Told
    <3>4. CASE z = x /\ k \notin T
      <4>1. tx'[x].at = "burst" /\ k \in tx'[x].targets
        BY <2>1, <2>2, <3>1, <3>4
      <4> QED
        BY <4>1 DEF Told, Firing
    <3> QED
      BY <3>2, <3>3, <3>4
  <2>5. \A k \in Keys : k[2] \in Accounts /\ (Told(k) \/ k \in untold) => Told(k)' \/ k \in untold'
    BY <1>2, <2>4 DEF Told
  <2>6. NobodyIsForgotten'
    BY <1>2, <2>5, ToldStays DEF On
  <2>7. tx'[x].at \notin {"lock", "check", "save"}
    BY <1>2, <2>1, <2>2, RestIsPaired
  <2>8. Pairs'
    BY <1>2, <2>3, <2>7, PairsStay DEF Staler
  <2> QED
    BY <2>6, <2>8 DEF Telling
<1>3. CASE Fire(x)
  <2>1. PICK k \in tx[x].targets :
          /\ tx[x].at = "burst" /\ Fired(x, {k}) /\ UNCHANGED <<event, part>>
          /\ notice' = IF Reachable(k[2]) THEN Assigned(notice, k) ELSE notice
          /\ untold' = untold \ notice'.pending
    BY <1>3 DEF Fire
  <2>2. /\ notice'.mailed = notice.mailed /\ notice.pending \subseteq notice'.pending
        /\ k[2] \in Accounts => k \in notice'.pending
    BY <1>1, <2>1 DEF Assigned, Notice, Reachable
  <2> QED
    BY <1>2, <2>1, <2>2
<1>4. CASE FireFails(x)
  <2>1. PICK T \in { {k} : k \in tx[x].targets } \cup {tx[x].targets} :
          /\ tx[x].at = "burst" /\ Fired(x, T) /\ UNCHANGED <<event, part, notice>>
          /\ untold' = untold \cup T
    BY <1>4 DEF FireFails
  <2> QED
    BY <1>2, <2>1
<1> QED
  BY <1>3, <1>4

LEMMA OtherTelling ==
    ASSUME EInv
    PROVE  /\ \A x \in Desks : Retract(x) => Telling'
           /\ \A x \in Desks : SaveAbsence(x) => Telling'
           /\ \A day \in Days : MoveEvent(day) => Telling'
           /\ \A k \in Keys : Mail(k) => Telling'
           /\ UNCHANGED vars => Telling'
<1>1. TypeOK
  BY DEF EInv
<1>2. ASSUME NEW x \in Desks, Retract(x)
      PROVE  Telling'
  <2>1. Takes(x, Rest) /\ part' = part /\ ~event'.released
    BY <1>1, <1>2 DEF Retract, Takes, TypeOK, Event
  <2>2. tx'[x] = Rest /\ \A z \in Desks \ {x} : Staler(z, tx'[z])
    BY <1>1, <2>1, OthersKeep
  <2>3. Pairs'
    BY <2>1, <2>2, RestIsPaired, PairsStay DEF Staler
  <2> QED
    BY <2>1, <2>3 DEF Telling, NobodyIsForgotten
<1>3. ASSUME \A z \in Desks : Staler(z, tx'[z]) \/ (tx'[z] = Rest /\ tx[z].at # "burst"),
             \A p \in Parts : part'[p].cast = part[p].cast,
             event'.released => event.released, untold' = untold,
             \A k \in Keys : /\ k \in notice.pending =>
                                   k \in notice'.pending \/ notice'.mailed[k] = "assigned"
                             /\ notice.mailed[k] = "assigned" => notice'.mailed[k] = "assigned"
      PROVE  Telling'
  <2>1. \A k \in Keys : Told(k) => Told(k)'
    BY <1>3, FiringStays DEF Told
  <2>2. NobodyIsForgotten'
    BY <1>3, <2>1, ToldStays DEF On
  <2>3. Pairs'
    BY <1>3, RestIsPaired, PairsStay DEF Staler
  <2> QED
    BY <2>2, <2>3 DEF Telling
<1>4. ASSUME NEW x \in Desks, SaveAbsence(x)
      PROVE  Telling'
  <2>1. PICK a \in tx[x].absences :
          /\ Ends(x, AbsenceSeen(a)) /\ UNCHANGED <<event, notice, untold>> /\ tx[x].at = "flags"
          /\ part' = [p \in Parts |-> IF p \in tx[x].rows
                                 THEN [part[p] EXCEPT !.conflict = tx[x].flags[p]] ELSE part[p]]
    BY <1>4 DEF SaveAbsence, Ends
  <2>2. tx'[x] = Rest /\ \A z \in Desks \ {x} : Staler(z, tx'[z])
    BY <1>1, <2>1, EndsKeeps, SeenTypes
  <2>3. \A p \in Parts : part'[p].cast = part[p].cast
    BY <1>1, <2>1 DEF TypeOK, Part
  <2> QED
    BY <1>3, <2>1, <2>2, <2>3
<1>5. ASSUME NEW day \in Days, MoveEvent(day)
      PROVE  Telling'
  <2>1. /\ \A z \in Desks : Staler(z, tx'[z])
        /\ UNCHANGED <<part, notice, untold>> /\ event'.released = event.released
    BY <1>1, <1>5, OutdatedKeeps, SeenTypes DEF MoveEvent, TypeOK, Event
  <2> QED
    BY <1>3, <2>1
<1>6. \A z \in Desks : tx' = tx => Staler(z, tx'[z])
  BY <1>1 DEF TypeOK, Staler
<1>7. ASSUME NEW k \in Keys, Mail(k)
      PROVE  Telling'
  <2>1. /\ notice' = [pending |-> notice.pending \ {k}, mailed |-> [notice.mailed EXCEPT ![k] = "assigned"]]
        /\ UNCHANGED <<event, part, tx, untold>> /\ notice \in Notice
    BY <1>1, <1>7 DEF Mail, TypeOK
  <2>2. /\ notice'.pending = notice.pending \ {k} /\ notice'.mailed[k] = "assigned"
        /\ \A j \in Keys : j # k => notice'.mailed[j] = notice.mailed[j]
    BY <2>1 DEF Notice
  <2> QED
    BY <1>3, <1>6, <2>1, <2>2
<1>8. ASSUME UNCHANGED vars
      PROVE  Telling'
  BY <1>3, <1>6, <1>8 DEF vars
<1> QED
  BY <1>2, <1>4, <1>5, <1>7, <1>8

-----------------------------------------------------------------------------
(* The invariant.                                                          *)

LEMMA InitEInv == Init => EInv
<1> SUFFICES ASSUME Init PROVE EInv
  OBVIOUS
<1>1. \A x \in Desks : tx[x] = Rest
  BY DEF Init
<1>2. \A p \in Parts : part[p] = [cast |-> Empty, conflict |-> FALSE]
  BY DEF Init
<1>3. /\ notice = [pending |-> {}, mailed |-> [k \in Keys |-> "nothing"]]
      /\ absent = {} /\ untold = {} /\ stray = {} /\ unchecked = {} /\ faults = 0
      /\ event \in Event /\ ~event.released
  BY DEF Init, Event
<1>4. notice \in Notice /\ notice.pending = {}
  BY <1>3 DEF Notice
<1>5. part \in [Parts -> Part] /\ tx \in [Desks -> Request]
  BY <1>2, RestTypes DEF Init, Part
<1>6. TypeOK
  BY <1>3, <1>4, <1>5, EventAssumption DEF TypeOK
<1>7. Order
  <2>1. \A x \in Desks : tx[x].at = "idle"
    BY <1>1, RestTypes
  <2>2. \A x \in Desks : Pictures(tx[x])
    BY <2>1 DEF Pictures
  <2>3. OnePerPart /\ ConflictFlagsHold
    BY <1>2, <1>3, <2>1 DEF OnePerPart, ConflictFlagsHold, IsAbsent
  <2> QED
    BY <2>2, <2>3 DEF Order
<1>8. Mails
  BY <1>1, <1>4, RestTypes DEF Mails, PendingIsReachable, Listed, OnlyAssigneesAreTold
<1>9. Telling
  BY <1>1, <1>2, <1>3, RestIsPaired, RestTypes DEF Telling, Pairs, Paired, NobodyIsForgotten
<1> QED
  BY <1>6, <1>7, <1>8, <1>9 DEF EInv

LEMMA EInvStep == ASSUME EInv, [Next]_vars PROVE EInv'
<1>1. TypeOK'
  <2>1. CASE UNCHANGED vars
    BY <2>1 DEF vars, EInv, TypeOK
  <2> QED
    BY <2>1, AssignTypes, ReleaseTypes, OtherTypes DEF Next
<1>2. Order'
  <2>1. CASE UNCHANGED vars
    BY <2>1, SameOrder DEF vars
  <2>2. ASSUME NEW k \in Keys, Mail(k)
        PROVE  Order'
    BY <2>2, SameOrder DEF Mail
  <2> QED
    BY <2>1, <2>2, BeginAssignOrder, LockPartOrder, CheckOrder, SaveOrder, BeginReleaseOrder,
       StatusOrder, BeginAbsenceOrder, SaveAbsenceOrder, MoveOrder DEF Next
<1>3. Mails'
  BY <1>1, RequestMails, SaveMails, BurstMails, RetractMails, OtherMails DEF Next
<1>4. Telling'
  BY RequestTelling, SaveTelling, PublishTelling, BurstTelling, OtherTelling DEF Next
<1> QED
  BY <1>1, <1>2, <1>3, <1>4 DEF EInv

LEMMA EInvHolds == Spec => []EInv
BY InitEInv, EInvStep, PTL DEF Spec

-----------------------------------------------------------------------------
(* The theorems.                                                           *)

\* Every request, every row and every history has its type, whatever overlaps.
THEOREM EventTypes == Spec => []TypeOK
<1>1. EInv => TypeOK
  BY DEF EInv
<1> QED
  BY <1>1, EInvHolds, PTL

\* The flag hasConflict of a part says whether somebody on it is absent, at any time:
\* assignments (attribution and day off) and absences compute it from each other's
\* rows.  The exceptions are the parts in unchecked: a move of the event, or a flag
\* computed from what another request changed before it was written.
THEOREM FlagsFollowAbsences == Spec => []ConflictFlagsHold
<1>1. EInv => ConflictFlagsHold
  BY DEF EInv, Order
<1> QED
  BY <1>1, EInvHolds, PTL

\* A release publishes no absence (assertCanRelease), but on the parts in unchecked
\* and those whose cast or absences changed after the release read the flags.
THEOREM ReleaseHasNoAbsence == Spec => NoAbsenceIsPublished
<1>1. EInv =>
        [\A x \in Desks : tx[x].at = "publish" /\ tx'[x].at # "publish" =>
            \A p \in Parts \ (unchecked \cup tx[x].stale) :
                ~\E m \in On(p) : IsAbsent(m, event.day)]_vars
  BY DEF EInv, Order, Pictures
<1> QED
  BY <1>1, EInvHolds, PTL DEF NoAbsenceIsPublished

\* Whoever has an "assigned" mail pending is on the part of a released event: draft
\* assignments are silent, and who leaves loses his row.  The exceptions are in
\* stray: a release had him on its list, a request read another status than it
\* wrote under, or the event was un-released before a release was through.
THEOREM NoPhantomMail == Spec => []OnlyAssigneesAreTold
<1>1. EInv => OnlyAssigneesAreTold
  BY DEF EInv, Mails
<1> QED
  BY <1>1, EInvHolds, PTL

\* Whoever is on a part of a released event and has an account was mailed so, has
\* the mail pending or is on the list of a release.  The exceptions are in untold: a
\* notification that failed, an assignment that overlapped the release, and a reader
\* who became the speaker of his part.
THEOREM NoOneIsForgotten == Spec => []NobodyIsForgotten
<1>1. EInv => NobodyIsForgotten
  BY DEF EInv, Telling
<1> QED
  BY <1>1, EInvHolds, PTL
=============================================================================
