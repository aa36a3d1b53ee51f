---------------------------- MODULE EventRelease ----------------------------
(***************************************************************************)
(* One programme event: who is assigned to its parts, which absences       *)
(* conflict with that, whether it is public, and who is told.              *)
(*                                                                         *)
(* A request is a transaction under READ COMMITTED, cut where it reads     *)
(* what another one may change before it writes: an assignment reads the   *)
(* status of the event, then waits for the lock of its part and reads the  *)
(* part, then looks for absences, then writes.  A release fires its        *)
(* notifications one by one after its commit.  What notify() does inside   *)
(* is NotificationPipeline; here it is one step.                           *)
(*                                                                         *)
(* Any request may overlap any other: only the lock of a part makes one    *)
(* wait.  What the code does not promise under overlap is remembered at    *)
(* the step that causes it, in variables no action reads: the parts a      *)
(* request has an outdated picture of (stale), the flags nobody computed   *)
(* anew (unchecked), the members nobody will tell (untold), and the mails  *)
(* on their way to somebody who has left (stray).                          *)
(***************************************************************************)
EXTENDS Integers, FiniteSets

CONSTANTS
    Desks,              \* connections that work on the event
    Parts, Members,
    speakers, readers,  \* speakers[p]: who is eligible; a service has no readers
    Accounts,           \* members who have an account that receives mails
    Days,               \* the days the event may be on
    Absences,           \* the absences that may be entered: a member and a day
    None,
    MaxFaults           \* bound: notifications of a release that fail

Cast == [speaker : Members \cup {None}, reader : Members \cup {None}]
Empty == [speaker |-> None, reader |-> None]
Keys == Parts \X Members

Event == [released : BOOLEAN, day : Days]
Part == [cast : Cast, conflict : BOOLEAN]
Notice == [pending : SUBSET Keys, mailed : [Keys -> {"nothing", "assigned", "unassigned"}]]

ASSUME EventAssumption ==
    /\ speakers \in [Parts -> SUBSET Members] /\ readers \in [Parts -> SUBSET Members]
    /\ Accounts \subseteq Members /\ Absences \subseteq Members \X Days
    /\ MaxFaults \in Nat
    /\ None \notin Members \cup Parts \cup Event

VARIABLES
    event,       \* its status and its day
    part,        \* who is on each part, and the flag hasConflict
    absent,      \* the absences: a member and a day
    tx,          \* tx[x]: the request of desk x
    notice,      \* the pending "assigned" rows, and what each member was mailed last
    untold,      \* history: the assignments whose mail failed, was skipped or was cancelled
    stray,       \* history: the mails on their way to somebody who has left meanwhile
    unchecked,   \* history: the parts whose flag nobody computed from what is so now
    faults

vars == <<event, part, absent, tx, notice, untold, stray, unchecked, faults>>

Request ==
    [ at : {"idle", "lock", "check", "save", "publish", "burst", "retract", "flags"},
      part : Parts \cup {None},
      old : Cast, new : Cast,        \* the cast found and the cast wanted
      seen : BOOLEAN,                \* the route read that the event is released
      found : Event \cup {None},      \* the event as the writer read it
      conflict : BOOLEAN,
      targets : SUBSET Keys,         \* who is still to be told of the release
      absences : SUBSET (Members \X Days),   \* the one that is created or deleted
      flags : [Parts -> BOOLEAN], rows : SUBSET Parts,   \* the flags to write
      stale : SUBSET Parts ]         \* history: the parts that changed since it read them

\* A request at rest remembers nothing.
Rest ==
    [ at |-> "idle", part |-> None, old |-> Empty, new |-> Empty,
      seen |-> FALSE, found |-> None, conflict |-> FALSE, targets |-> {}, absences |-> {},
      flags |-> [p \in Parts |-> FALSE], rows |-> {}, stale |-> {} ]

-----------------------------------------------------------------------------
Of(cast) == {cast.speaker, cast.reader} \ {None}
On(p) == Of(part[p].cast)

\* Days off of a member that overlap the event.
IsAbsent(m, day) == <<m, day>> \in absent

\* FOR UPDATE of the part's row: held from the read to the end.
Locks(x) == IF tx[x].at \in {"check", "save"} THEN {tx[x].part} ELSE {}

\* Mutant: the part is read without a lock.
LockFreeAlways(x, p) == TRUE

LockFree(x, p) == \A z \in Desks \ {x} : p \notin Locks(z)

\* The desks with their requests, z's picture of the parts in seen[z] outdated.
Outdated(seen) == [z \in Desks |-> [tx[z] EXCEPT !.stale = @ \cup seen[z]]]

\* What a write of the cast of p, of absence a or of the day outdates.
PartSeen(p) ==
    [z \in Desks |-> IF tx[z].at \in {"publish", "flags"} THEN {p} ELSE {}]
AbsenceSeen(a) ==
    [z \in Desks |->
        { p \in Parts : /\ a[2] = event.day
                       /\ \/ tx[z].at = "save" /\ p = tx[z].part /\ a[1] \in Of(tx[z].new)
                          \/ tx[z].at \in {"publish", "flags"} /\ a[1] \in On(p) }]
DaySeen ==
    [z \in Desks |-> IF tx[z].at \in {"check", "save", "flags"} THEN Parts ELSE {}]

\* The mails that are pending, or that a release under way has still to enqueue.
Targeted(k) == \E z \in Desks : k \in tx[z].targets
Firing(k) == \E z \in Desks : tx[z].at = "burst" /\ k \in tx[z].targets
Ahead == notice.pending \cup { k \in Keys : Targeted(k) }

Init ==
    /\ event \in [released : {FALSE}, day : Days]
    /\ part = [p \in Parts |-> [cast |-> Empty, conflict |-> FALSE]]
    /\ absent = {} /\ unchecked = {} /\ untold = {} /\ stray = {} /\ faults = 0
    /\ tx = [x \in Desks |-> Rest]
    /\ notice = [pending |-> {}, mailed |-> [k \in Keys |-> "nothing"]]

-----------------------------------------------------------------------------
(* notify() for an assignment: "assigned" is debounced; "unassigned"       *)
(* cancels the pending row, and is mailed at once when there is none.      *)

Assigned(n, k) == [n EXCEPT !.pending = @ \cup {k}]

\* Mutant: the correction is mailed and the pending row stays.
UnassignedAtOnce(n, k) == [n EXCEPT !.mailed[k] = "unassigned"]

Unassigned(n, k) ==
    IF k \in n.pending THEN [n EXCEPT !.pending = @ \ {k}]
    ELSE [n EXCEPT !.mailed[k] = "unassigned"]

\* notifyAssignment: a member without an account hears nothing.
Reachable(m) == m \in Accounts

SlotDiff(n, p, old, new) ==
    LET left == IF Reachable(old) /\ old # new THEN Unassigned(n, <<p, old>>) ELSE n
    IN  IF Reachable(new) /\ new # old THEN Assigned(left, <<p, new>>) ELSE left

\* dispatchAssignmentDiffs: the slots one after the other.
Dispatch(n, p, old, new) ==
    SlotDiff(SlotDiff(n, p, old.speaker, new.speaker), p, old.reader, new.reader)

-----------------------------------------------------------------------------
(* Assigning and unassigning.  An empty cast is what unassigning and an    *)
(* external speaker leave.                                                 *)

\* The route reads the event.
BeginAssign(x, p, cast) ==
    /\ tx[x].at = "idle"
    /\ cast.speaker \in speakers[p] \cup {None} /\ cast.reader \in readers[p] \cup {None}
    /\ cast.speaker = cast.reader => cast = Empty
    /\ tx' = [tx EXCEPT ![x] = [Rest EXCEPT !.at = "lock", !.part = p,
                                           !.new = cast, !.seen = event.released]]
    /\ UNCHANGED <<event, part, absent, notice, untold, stray, unchecked, faults>>

LockPart(x) ==
    /\ tx[x].at = "lock" /\ LockFree(x, tx[x].part)
    /\ tx' = [tx EXCEPT ![x].at = "check", ![x].old = part[tx[x].part].cast, ![x].found = event]
    /\ UNCHANGED <<event, part, absent, notice, untold, stray, unchecked, faults>>

\* Mutant: the reader is not checked.
CheckSpeaker(x) ==
    LET away == IsAbsent(tx[x].new.speaker, tx[x].found.day)
    IN  /\ tx[x].at = "check"
        /\ tx' = [tx EXCEPT ![x] = IF away /\ tx[x].found.released THEN Rest
                                   ELSE [@ EXCEPT !.at = "save", !.conflict = away]]
        /\ UNCHANGED <<event, part, absent, notice, untold, stray, unchecked, faults>>

\* An absence is an error on a released event and a conflict on a draft.
CheckParticipants(x) ==
    LET away == \E m \in Of(tx[x].new) : IsAbsent(m, tx[x].found.day)
    IN  /\ tx[x].at = "check"
        /\ tx' = [tx EXCEPT ![x] = IF away /\ tx[x].found.released THEN Rest
                                   ELSE [@ EXCEPT !.at = "save", !.conflict = away]]
        /\ UNCHANGED <<event, part, absent, notice, untold, stray, unchecked, faults>>

\* The slot a member gives up is notified after the one he takes.
Swapped(old, new) == ({new.speaker} \cap {old.reader}) \ {None}

\* The update, the notifications and the commit.
SavePart(x) ==
    LET p == tx[x].part
        old == Of(tx[x].old)
        new == Of(tx[x].new)
        swapped == IF tx[x].seen THEN Swapped(tx[x].old, tx[x].new) ELSE {}
        unseen == IF event.released /\ ~tx[x].seen THEN new \ old ELSE {}
        early == IF tx[x].seen /\ ~event.released THEN new ELSE {}
        late == { m \in old \ new : Targeted(<<p, m>>) \/ ~tx[x].seen }
    IN  /\ tx[x].at = "save"
        /\ part' = [part EXCEPT ![p] = [cast |-> tx[x].new, conflict |-> tx[x].conflict]]
        /\ notice' = IF tx[x].seen THEN Dispatch(notice, p, tx[x].old, tx[x].new) ELSE notice
        /\ tx' = [Outdated(PartSeen(p)) EXCEPT ![x] = Rest]
        /\ unchecked' = IF p \in tx[x].stale THEN unchecked \cup {p} ELSE unchecked \ {p}
        /\ untold' = (untold \cup ({p} \X (swapped \cup unseen))) \ notice'.pending
        /\ stray' = (stray \cup ({p} \X (early \cup late))) \cap Ahead'
        /\ UNCHANGED <<event, absent, faults>>

-----------------------------------------------------------------------------
(* Release and unrelease.                                                  *)

\* assertCanRelease
HasConflict == \E p \in Parts : part[p].conflict

BeginRelease(x) ==
    /\ tx[x].at = "idle"
    /\ ~event.released /\ ~HasConflict
    /\ tx' = [tx EXCEPT ![x] = [Rest EXCEPT !.at = "publish",
                                   !.targets = { k \in Keys : k[2] \in On(k[1]) }]]
    /\ UNCHANGED <<event, part, absent, notice, untold, stray, unchecked, faults>>

Publish(x) ==
    /\ tx[x].at = "publish"
    /\ event' = [event EXCEPT !.released = TRUE]
    /\ tx' = [tx EXCEPT ![x] = IF tx[x].targets = {} THEN Rest
                                       ELSE [@ EXCEPT !.at = "burst"]]
    /\ untold' = (untold \cup { k \in Keys : k[2] \in On(k[1]) /\ k \notin tx[x].targets })
                     \ notice.pending
    /\ UNCHANGED <<part, absent, notice, stray, unchecked, faults>>

Fired(x, T) == tx' = [tx EXCEPT ![x] = IF tx[x].targets = T THEN Rest
                                       ELSE [tx[x] EXCEPT !.targets = @ \ T]]

\* fireReleaseNotifications: a transaction for each target.
Fire(x) ==
    \E k \in tx[x].targets :
        /\ tx[x].at = "burst"
        /\ notice' = IF Reachable(k[2]) THEN Assigned(notice, k) ELSE notice
        /\ Fired(x, {k})
        /\ untold' = untold \ notice'.pending
        /\ stray' = stray \cap Ahead'
        /\ UNCHANGED <<event, part, absent, unchecked, faults>>

\* One fails and is logged, or the server stops and none of the rest is told.
FireFails(x) ==
    \E T \in { {k} : k \in tx[x].targets } \cup {tx[x].targets} :
        /\ tx[x].at = "burst"
        /\ faults < MaxFaults /\ faults' = faults + 1
        /\ Fired(x, T)
        /\ untold' = untold \cup T
        /\ UNCHANGED <<event, part, absent, notice, unchecked>>
        /\ stray' = stray \cap Ahead'

BeginUnrelease(x) ==
    /\ tx[x].at = "idle"
    /\ event.released
    /\ tx' = [tx EXCEPT ![x] = [Rest EXCEPT !.at = "retract"]]
    /\ UNCHANGED <<event, part, absent, notice, untold, stray, unchecked, faults>>

\* The rows that are pending by now are cancelled.
Retract(x) ==
    /\ tx[x].at = "retract"
    /\ event' = [event EXCEPT !.released = FALSE]
    /\ notice' = [notice EXCEPT !.pending = {}]
    /\ tx' = [tx EXCEPT ![x] = Rest]
    /\ untold' = {}
    /\ stray' = (stray \cup { k \in Keys : Firing(k) }) \cap Ahead'
    /\ UNCHANGED <<part, absent, unchecked, faults>>

-----------------------------------------------------------------------------
(* Absences, and the flags that follow them.                               *)

\* The absences once a is created or deleted.
Toggled(a) == IF a \in absent THEN absent \ {a} ELSE absent \cup {a}

\* Mutant: the flag follows the member whose absence changed, and nobody else.
BeginAbsenceAlone(x, a) ==
    LET rows == { p \in Parts : a[2] = event.day /\ a[1] \in On(p) }
    IN  /\ tx[x].at = "idle"
        /\ \A z \in Desks : a \notin tx[z].absences
        /\ tx' = [tx EXCEPT ![x] = [Rest EXCEPT !.at = "flags",
                      !.absences = {a}, !.rows = rows,
                      !.flags = [p \in Parts |-> p \in rows /\ a \in Toggled(a)]]]
        /\ UNCHANGED <<event, part, absent, notice, untold, stray, unchecked, faults>>

\* createDayOff, deleteDayOff: the rows of the member are read, with the
\* absences of everybody who is on them.
BeginAbsence(x, a) ==
    LET rows == { p \in Parts : a[2] = event.day /\ a[1] \in On(p) }
    IN  /\ tx[x].at = "idle"
        /\ \A z \in Desks : a \notin tx[z].absences
        /\ tx' = [tx EXCEPT ![x] = [Rest EXCEPT !.at = "flags",
                      !.absences = {a}, !.rows = rows,
                      !.flags = [p \in Parts |-> p \in rows
                                     /\ \E m \in On(p) : <<m, event.day>> \in Toggled(a)]]]
        /\ UNCHANGED <<event, part, absent, notice, untold, stray, unchecked, faults>>

SaveAbsence(x) ==
    \E a \in tx[x].absences :
        LET wrong == { p \in tx[x].stale : p \in tx[x].rows \/ p \in AbsenceSeen(a)[x] }
        IN  /\ tx[x].at = "flags"
            /\ \A p \in tx[x].rows : LockFree(x, p)
            /\ absent' = Toggled(a)
            /\ part' = [p \in Parts |-> IF p \in tx[x].rows
                                   THEN [part[p] EXCEPT !.conflict = tx[x].flags[p]] ELSE part[p]]
            /\ tx' = [Outdated(AbsenceSeen(a)) EXCEPT ![x] = Rest]
            /\ unchecked' = (unchecked \ tx[x].rows) \cup wrong
            /\ UNCHANGED <<event, notice, untold, stray, faults>>

\* updateEvent: the dates change and nothing else.
MoveEvent(day) ==
    /\ day # event.day
    /\ event' = [event EXCEPT !.day = day]
    /\ tx' = Outdated(DaySeen)
    /\ unchecked' = Parts
    /\ UNCHANGED <<part, absent, notice, untold, stray, faults>>

\* A row settles and its mail is sent.
Mail(k) ==
    /\ k \in notice.pending
    /\ notice' = [pending |-> notice.pending \ {k}, mailed |-> [notice.mailed EXCEPT ![k] = "assigned"]]
    /\ UNCHANGED <<event, part, absent, tx, untold, unchecked, faults>>
    /\ stray' = stray \cap Ahead'

Next ==
    \/ \E x \in Desks :
          \/ \E p \in Parts, cast \in Cast : BeginAssign(x, p, cast)
          \/ LockPart(x) \/ CheckParticipants(x) \/ SavePart(x)
          \/ BeginRelease(x) \/ Publish(x) \/ Fire(x) \/ FireFails(x)
          \/ BeginUnrelease(x) \/ Retract(x)
          \/ \E a \in Absences : BeginAbsence(x, a)
          \/ SaveAbsence(x)
    \/ \E day \in Days : MoveEvent(day)
    \/ \E k \in Keys : Mail(k)

Spec == Init /\ [][Next]_vars

-----------------------------------------------------------------------------
TypeOK ==
    /\ event \in Event /\ part \in [Parts -> Part]
    /\ absent \subseteq Members \X Days
    /\ tx \in [Desks -> Request] /\ notice \in Notice
    /\ untold \subseteq Keys /\ stray \subseteq Keys
    /\ unchecked \subseteq Parts /\ faults \in 0..MaxFaults

Told(k) == k \in notice.pending \/ notice.mailed[k] = "assigned" \/ Firing(k)

\* "So no one is silently forgotten": at any time, whoever is on a part of a
\* released event was mailed so, has the mail pending, or is still to be told by a
\* release under way.  The exceptions are in untold: his notification failed; an
\* assignment that had read a draft wrote after the release's read or its commit;
\* or the reader became the speaker, and his old slot cancelled the mail of the new.
NobodyIsForgotten ==
    event.released =>
        \A p \in Parts : \A m \in On(p) \cap Accounts : Told(<<p, m>>) \/ <<p, m>> \in untold

\* "Drafts accumulate diffs silently" and no phantom mail: whenever an "assigned"
\* mail is pending, the event is released and its member is on the part.  The
\* exceptions are in stray: he was taken off while a release had him on its list, or
\* by a request that read another status than it wrote under; or the event was
\* un-released before the notifications of its release were through.
OnlyAssigneesAreTold ==
    \A k \in notice.pending : (event.released /\ k[2] \in On(k[1])) \/ k \in stray

\* The flag says whether somebody on the part is absent, whoever's absence came or
\* went last, at any time.  The exceptions are in unchecked: the event was moved, or
\* the last to compute the flag had read an absence, a cast or a day that another
\* request changed before it wrote.
ConflictFlagsHold ==
    \A p \in Parts \ unchecked : part[p].conflict <=> \E m \in On(p) : IsAbsent(m, event.day)

\* "Release is blocked when the event has unresolved absence conflicts": when a
\* release publishes the event nobody is absent from a part whose flag held when it
\* read it, unless the part or an absence on it changed since that read.
NoAbsenceIsPublished ==
    [][ \A x \in Desks : tx[x].at = "publish" /\ tx'[x].at # "publish" =>
          \A p \in Parts \ (unchecked \cup tx[x].stale) :
              ~\E m \in On(p) : IsAbsent(m, event.day)]_vars

-----------------------------------------------------------------------------
(* What the code says and does not keep.                                   *)

\* notify-assignment: "so no one is silently forgotten", whichever slot he takes.
CurrentAssigneesAreTold ==
    (\A x \in Desks : tx[x].at = "idle") /\ event.released =>
        \A p \in Parts : \A m \in On(p) \cap Accounts : Told(<<p, m>>)
=============================================================================
