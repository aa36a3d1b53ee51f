------------------------- MODULE PioneerStintsProofs -------------------------
(***************************************************************************)
(* The stints and the roles of a member, for any calendar, any stints and  *)
(* any number of desks whose requests overlap at will.                     *)
(***************************************************************************)
EXTENDS PioneerStints, TLAPS

\* RowsAfter and FlagsAfter of any state.
RowsOf(st, q) ==
    [ s \in Stints |->
        IF s \notin q.ids THEN st[s]
        ELSE IF q.kind = "enrol" THEN q.row
        ELSE IF q.kind = "remove" \/ st[s] = None THEN None
        ELSE [st[s] EXCEPT !.end = q.end] ]

FlagsOf(mb, q) == [f \in Fields |-> IF q.flags[f] = None THEN mb[f] ELSE q.flags[f]]

Table == [Stints -> Stint \cup {None}]

\* A stint does not end before it begins.
Forward(r) == IsOngoing(r) \/ r.start <= r.end

\* What a request carries fits its kind and the rows it names.
Shape(q, st) ==
    /\ q.kind = "enrol" => /\ q.row \in Stint /\ Forward(q.row)
                           /\ \A s \in q.ids : st[s] = None
                           /\ \A s, t \in q.ids : s = t
    /\ q.kind = "close" =>
          q.end \in Months /\ \A s \in q.ids : st[s] # None => st[s].start <= q.end
    /\ q.kind \notin {"enrol", "close", "remove"} => q.ids = {}
    /\ q.kind # "member" => q.flags = Keep
    /\ q.step \in Steps => q.kind \in Kinds

\* The check of an enrolment still holds when no stint was saved since.
Clear(q, st) ==
    q.kind = "enrol" /\ q.missed \cap {"enrol", "close"} = {} =>
        \A s \in Stints : st[s] # None => ~enrolmentsOverlap(q.row, st[s])

\* What the sync derived and compared is right when nothing was saved since; only an
\* edit of the identity, which has read the flags, skips the sync.
Synced(q, st, mb, rl) ==
    /\ q.step \notin {"written", "compared"} => ~q.late /\ q.added = {} /\ q.removed = {}
    /\ q.step = "written" => q.syncs
    /\ q.step = "written" /\ ~q.late => q.wanted = Desired(FlagsOf(mb, q), RowsOf(st, q))
    /\ q.step = "compared" /\ q.syncs /\ ~q.late =>
          (rl \cup q.added) \ q.removed = Desired(FlagsOf(mb, q), RowsOf(st, q))
    /\ ~q.syncs => q.kind = "member" /\ q.added = {} /\ q.removed = {}
    /\ q.before # None => q.kind = "member"

\* A stint that is being inserted is named by one request.
Apart ==
    \A x, z \in Desks : x # z /\ tx[x].kind = "enrol" => tx[x].ids \cap tx[z].ids = {}

Disjoint ==
    \A s, t \in Stints \ excused :
        s # t /\ stint[s] # None /\ stint[t] # None => ~enrolmentsOverlap(stint[s], stint[t])

SInv ==
    /\ TypeOK /\ Apart /\ Disjoint /\ RolesFollow
    /\ \A x \in Desks : /\ tx[x].step \in Steps \/ tx[x] = Rest
                        /\ Shape(tx[x], stint) /\ Clear(tx[x], stint)
                        /\ Synced(tx[x], stint, member, roles)

-----------------------------------------------------------------------------
LEMMA AfterIsOf == \A q : RowsAfter(q) = RowsOf(stint, q) /\ FlagsAfter(q) = FlagsOf(member, q)
BY DEF RowsAfter, RowsOf, FlagsAfter, FlagsOf

LEMMA NoneApart ==
    /\ None \notin Months /\ None \notin Stint /\ None \notin Flags
    /\ None \notin BOOLEAN /\ None \notin Kinds /\ None \notin Steps
BY StintsAssumption

LEMMA BoundTypes == MaxOverlaps \in Nat /\ LastMonth \in Nat
BY StintsAssumption

LEMMA KeepTypes == Keep \in [Fields -> BOOLEAN \cup {None}]
BY DEF Keep

LEMMA RestTypes == Rest \in Request
BY KeepTypes DEF Rest, Request

\* A desk at rest claims nothing.
LEMMA RestIsSound ==
    \A st, mb, rl : Shape(Rest, st) /\ Clear(Rest, st) /\ Synced(Rest, st, mb, rl)
BY NoneApart DEF Shape, Clear, Synced, Rest, Kinds, Steps

\* Keep leaves every flag.
LEMMA KeepKeeps == \A mb \in Flags : \A q : q.flags = Keep => FlagsOf(mb, q) = mb
BY DEF Keep, FlagsOf, Flags

LEMMA FlagsTypes ==
    ASSUME NEW mb \in Flags, NEW q \in Request
    PROVE  FlagsOf(mb, q) \in Flags
BY NoneApart DEF FlagsOf, Flags, Request

LEMMA DesiredTypes == \A f, rows : Desired(f, rows) \subseteq IdentityRoles
BY DEF Desired, IdentityRoles

\* The rows after a request keep to the schema.
LEMMA RowsTypes ==
    ASSUME NEW st \in Table, NEW q \in Request, Shape(q, st),
           \A s \in Stints : st[s] # None => Forward(st[s])
    PROVE  /\ RowsOf(st, q) \in Table
           /\ \A s \in Stints : RowsOf(st, q)[s] # None => Forward(RowsOf(st, q)[s])
<1> SUFFICES ASSUME NEW s \in Stints
             PROVE  /\ RowsOf(st, q)[s] \in Stint \cup {None}
                    /\ RowsOf(st, q)[s] # None => Forward(RowsOf(st, q)[s])
  BY DEF RowsOf, Table
<1>1. CASE s \notin q.ids
  BY <1>1 DEF RowsOf, Table
<1>2. CASE s \in q.ids /\ q.kind = "enrol"
  BY <1>2 DEF RowsOf, Shape
<1>3. CASE s \in q.ids /\ q.kind # "enrol" /\ (q.kind = "remove" \/ st[s] = None)
  BY <1>3 DEF RowsOf
<1>4. CASE s \in q.ids /\ q.kind = "close" /\ st[s] # None
  <2>1. RowsOf(st, q)[s] = [st[s] EXCEPT !.end = q.end]
    BY <1>4 DEF RowsOf
  <2>2. st[s] \in Stint /\ q.end \in Months /\ st[s].start <= q.end
    BY <1>4 DEF Shape, Table
  <2> QED
    BY <2>1, <2>2 DEF Stint, Forward
<1> QED
  BY <1>1, <1>2, <1>3, <1>4 DEF Shape

-----------------------------------------------------------------------------
LEMMA InitKeeps == Init => SInv
<1> SUFFICES ASSUME Init PROVE SInv
  OBVIOUS
<1>1. \A x \in Desks : tx[x] = Rest
  BY DEF Init
<1>2. TypeOK
  <2>1. stint \in [Stints -> Stint \cup {None}] /\ \A s \in Stints : stint[s] = None
    BY DEF Init
  <2>2. roles \subseteq IdentityRoles
    BY DesiredTypes DEF Init
  <2>3. member \in Flags /\ tx \in [Desks -> Request]
    BY RestTypes DEF Init
  <2>4. excused \subseteq Stints /\ overlaps \in 0..MaxOverlaps
    <3>1. excused = {} /\ overlaps = 0
      BY DEF Init
    <3> QED
      BY <3>1, BoundTypes
  <2>5. drift \in BOOLEAN
    BY DEF Init
  <2> QED
    BY <2>1, <2>2, <2>3, <2>4, <2>5 DEF TypeOK
<1>3. Apart
  BY <1>1, NoneApart DEF Apart, Rest, Kinds
<1>4. Disjoint /\ RolesFollow
  BY DEF Init, Disjoint, RolesFollow
<1> QED
  BY <1>1, <1>2, <1>3, <1>4, RestIsSound DEF SInv

\* A request that has passed its checks.
Fresh(q) ==
    /\ q \in Request /\ q.kind \in Kinds /\ q.step = None
    /\ q.wanted = {} /\ q.added = {} /\ q.removed = {} /\ q.missed = {} /\ ~q.late
    /\ Shape(q, stint) /\ (q.kind = "enrol" => NoOverlap(q.row))
    /\ q.syncs /\ (q.before # None => q.kind = "member")

\* Beginning a request keeps the invariant.
LEMMA BeginKeeps ==
    ASSUME SInv, NEW x \in Desks, NEW q, Fresh(q), Begin(x, q),
           q.kind = "enrol" => \A z \in Desks : q.ids \cap tx[z].ids = {},
           \A z \in Desks : tx[z].kind = "enrol" => q.ids \cap tx[z].ids = {}
    PROVE  SInv'
<1> DEFINE b == [q EXCEPT !.step = "decided"]
<1>1. /\ b \in Request /\ b.kind = q.kind /\ b.ids = q.ids /\ b.step = "decided"
      /\ b.row = q.row /\ b.end = q.end /\ b.flags = q.flags /\ b.syncs = q.syncs
      /\ b.before = q.before /\ b.added = {} /\ b.removed = {} /\ b.missed = {} /\ ~b.late
  BY DEF Fresh, Request, Steps
<1>2. tx' = [tx EXCEPT ![x] = b] /\ tx \in [Desks -> Request]
  BY DEF Begin, SInv, TypeOK
<1>3. UNCHANGED <<stint, member, roles, excused, drift, overlaps>>
  BY DEF Begin
<1>4. TypeOK'
  BY <1>1, <1>2, <1>3 DEF SInv, TypeOK
<1>5. Apart'
  BY <1>1, <1>2 DEF SInv, Apart
<1>6. Disjoint' /\ RolesFollow'
  BY <1>3 DEF SInv, Disjoint, RolesFollow, Desired
<1>7. Shape(b, stint)
  BY <1>1 DEF Fresh, Shape
<1>8. Clear(b, stint)
  BY <1>1 DEF Fresh, NoOverlap, Clear
<1>9. Synced(b, stint, member, roles)
  BY <1>1 DEF Fresh, Synced
<1>10. ASSUME NEW z \in Desks
       PROVE  (/\ tx[z].step \in Steps \/ tx[z] = Rest
               /\ Shape(tx[z], stint) /\ Clear(tx[z], stint) /\ Synced(tx[z], stint, member, roles))'
  <2>1. CASE z = x
    BY <1>1, <1>2, <1>3, <1>7, <1>8, <1>9, <2>1 DEF Steps
  <2>2. CASE z # x
    BY <1>2, <1>3, <2>2 DEF SInv
  <2> QED
    BY <2>1, <2>2
<1> QED
  BY <1>4, <1>5, <1>6, <1>10 DEF SInv

\* A step of a request that leaves the rows alone and keeps what it names.
LEMMA OwnStepKeeps ==
    ASSUME SInv, NEW x \in Desks, NEW b \in Request, tx' = [tx EXCEPT ![x] = b],
           UNCHANGED <<stint, member, roles, excused, drift>>, overlaps' \in 0..MaxOverlaps,
           b.kind = "enrol" => tx[x].kind = "enrol", b.ids \subseteq tx[x].ids,
           b.step \in Steps \/ b = Rest,
           Shape(b, stint), Clear(b, stint), Synced(b, stint, member, roles)
    PROVE  SInv'
<1>1. tx \in [Desks -> Request]
  BY DEF SInv, TypeOK
<1>2. TypeOK'
  BY <1>1 DEF SInv, TypeOK
<1>3. Apart'
  <2> SUFFICES ASSUME NEW u \in Desks, NEW z \in Desks, u # z, tx'[u].kind = "enrol"
               PROVE  tx'[u].ids \cap tx'[z].ids = {}
    BY DEF Apart
  <2>1. tx[u].kind = "enrol" /\ tx'[u].ids \subseteq tx[u].ids /\ tx'[z].ids \subseteq tx[z].ids
    BY <1>1
  <2> QED
    BY <2>1 DEF SInv, Apart
<1>4. Disjoint' /\ RolesFollow'
  BY DEF SInv, Disjoint, RolesFollow, Desired
<1>5. ASSUME NEW z \in Desks
      PROVE  (/\ tx[z].step \in Steps \/ tx[z] = Rest
              /\ Shape(tx[z], stint) /\ Clear(tx[z], stint) /\ Synced(tx[z], stint, member, roles))'
  <2>1. CASE z = x
    BY <1>1, <2>1
  <2>2. CASE z # x
    BY <1>1, <2>2 DEF SInv
  <2> QED
    BY <2>1, <2>2
<1> QED
  BY <1>2, <1>3, <1>4, <1>5 DEF SInv

-----------------------------------------------------------------------------
(* Each operation begins a request that fits.                              *)

LEMMA EnrolKeeps ==
    ASSUME SInv, NEW x \in Desks, NEW s \in Stints, NEW r \in Stint, Forward(r), Enrol(x, s, r)
    PROVE  SInv'
<1> DEFINE q == [Rest EXCEPT !.kind = "enrol", !.ids = {s}, !.row = r]
<1>1. /\ q \in Request /\ q.kind = "enrol" /\ q.ids = {s} /\ q.row = r /\ q.step = None /\ q.flags = Keep
      /\ q.wanted = {} /\ q.added = {} /\ q.removed = {} /\ q.missed = {} /\ ~q.late /\ q.syncs /\ q.before = None
  BY KeepTypes DEF Rest, Request, Kinds
<1>2. Shape(q, stint)
  BY <1>1 DEF Enrol, Shape, Kinds
<1>3. Fresh(q)
  BY <1>1, <1>2 DEF Fresh, Enrol, Kinds
<1>4. \A z \in Desks : q.ids \cap tx[z].ids = {}
  BY <1>1 DEF Enrol
<1>5. Begin(x, q)
  BY DEF Enrol
<1> QED
  BY <1>3, <1>4, <1>5, BeginKeeps

\* A request as Begin is given it.
Plain(q) ==
    /\ q \in Request /\ q.step = None
    /\ q.wanted = {} /\ q.added = {} /\ q.removed = {} /\ q.missed = {} /\ ~q.late

\* A request that names rows that exist.
LEMMA RowsKeep ==
    ASSUME SInv, NEW x \in Desks, NEW q, Plain(q), q.kind \in {"close", "remove"}, q.flags = Keep, q.syncs, q.before = None,
           \A s \in q.ids : stint[s] # None,
           q.kind = "close" => q.end \in Months /\ \A s \in q.ids : stint[s].start <= q.end,
           Begin(x, q)
    PROVE  SInv'
<1>1. Shape(q, stint)
  BY DEF Shape, Plain, Kinds
<1>2. Fresh(q)
  BY <1>1 DEF Plain, Fresh, Kinds
<1>3. \A z \in Desks : tx[z].kind = "enrol" => q.ids \cap tx[z].ids = {}
  BY DEF SInv, Shape
<1>4. q.kind # "enrol"
  OBVIOUS
<1> QED
  BY <1>2, <1>3, <1>4, BeginKeeps

LEMMA CloseKeeps ==
    ASSUME SInv, NEW x \in Desks, NEW s \in Stints, NEW month \in Months, Close(x, s, month)
    PROVE  SInv'
<1> DEFINE q == [Rest EXCEPT !.kind = "close", !.ids = {s}, !.end = month]
<1>1. /\ q \in Request /\ q.kind = "close" /\ q.ids = {s} /\ q.end = month /\ q.step = None /\ q.flags = Keep
      /\ q.wanted = {} /\ q.added = {} /\ q.removed = {} /\ q.missed = {} /\ ~q.late /\ q.syncs /\ q.before = None
  BY KeepTypes DEF Rest, Request, Kinds
<1>2. stint[s] # None /\ stint[s].start <= month /\ Begin(x, q)
  BY DEF Close
<1>3. Plain(q)
  BY <1>1 DEF Plain
<1> HIDE DEF q
<1> QED
  BY <1>1, <1>2, <1>3, RowsKeep

LEMMA CloseAuxiliariesKeeps ==
    ASSUME SInv, NEW x \in Desks, NEW month \in Months, CloseAuxiliaries(x, month)
    PROVE  SInv'
<1> DEFINE ongoing == { s \in Stints : /\ stint[s] # None /\ stint[s].type = "auxiliary"
                                       /\ IsOngoing(stint[s]) /\ stint[s].start <= month }
           q == [Rest EXCEPT !.kind = "close", !.ids = ongoing, !.end = month]
<1>1. Begin(x, q)
  BY DEF CloseAuxiliaries
<1>2. ongoing \in SUBSET Stints /\ \A s \in ongoing : stint[s] # None /\ stint[s].start <= month
  OBVIOUS
<1> HIDE DEF ongoing
<1>3. /\ q \in Request /\ q.kind = "close" /\ q.ids = ongoing /\ q.end = month /\ q.step = None /\ q.flags = Keep
      /\ q.wanted = {} /\ q.added = {} /\ q.removed = {} /\ q.missed = {} /\ ~q.late /\ q.syncs /\ q.before = None
  BY <1>2, KeepTypes DEF Rest, Request, Kinds
<1>4. Plain(q)
  BY <1>3 DEF Plain
<1> HIDE DEF q
<1> QED
  BY <1>1, <1>2, <1>3, <1>4, RowsKeep

LEMMA RemoveKeeps ==
    ASSUME SInv, NEW x \in Desks, NEW s \in Stints, Remove(x, s)
    PROVE  SInv'
<1> DEFINE q == [Rest EXCEPT !.kind = "remove", !.ids = {s}]
<1>1. /\ q \in Request /\ q.kind = "remove" /\ q.ids = {s} /\ q.step = None /\ q.flags = Keep
      /\ q.wanted = {} /\ q.added = {} /\ q.removed = {} /\ q.missed = {} /\ ~q.late /\ q.syncs /\ q.before = None
  BY KeepTypes DEF Rest, Request, Kinds
<1>2. stint[s] # None /\ Begin(x, q)
  BY DEF Remove
<1>3. Plain(q)
  BY <1>1 DEF Plain
<1> HIDE DEF q
<1> QED
  BY <1>1, <1>2, <1>3, RowsKeep

\* A request on the Member row.
LEMMA MemberKeeps ==
    ASSUME SInv, NEW x \in Desks, NEW q, Plain(q), q.kind = "member", q.ids = {}, q.syncs, Begin(x, q)
    PROVE  SInv'
<1>1. Shape(q, stint)
  BY DEF Shape, Plain, Kinds
<1>2. Fresh(q)
  BY <1>1 DEF Plain, Fresh, Kinds
<1> QED
  BY <1>2, BeginKeeps

LEMMA ChangeKeeps ==
    ASSUME SInv, NEW x \in Desks, NEW flags \in [Fields -> BOOLEAN \cup {None}], Change(x, flags)
    PROVE  SInv'
<1> DEFINE q == [Rest EXCEPT !.kind = "member", !.flags = flags]
<1>1. /\ q \in Request /\ q.kind = "member" /\ q.ids = {} /\ q.step = None /\ q.syncs
      /\ q.wanted = {} /\ q.added = {} /\ q.removed = {} /\ q.missed = {} /\ ~q.late
  BY DEF Rest, Request, Kinds
<1>2. Plain(q)
  BY <1>1 DEF Plain
<1>3. Begin(x, q)
  BY DEF Change
<1> HIDE DEF q
<1> QED
  BY <1>1, <1>2, <1>3, MemberKeeps

LEMMA UpdateIdentityKeeps ==
    ASSUME SInv, NEW x \in Desks, NEW to \in BOOLEAN, UpdateIdentity(x, to)
    PROVE  SInv'
<1> DEFINE flags == [Keep EXCEPT !["baptized"] = to]
           q == [Rest EXCEPT !.kind = "member", !.flags = flags, !.before = member]
<1>1. flags \in [Fields -> BOOLEAN \cup {None}] /\ member \in Flags
  BY KeepTypes DEF Fields, SInv, TypeOK
<1>2. Begin(x, q)
  BY DEF UpdateIdentity
<1> HIDE DEF flags
<1>3. /\ q \in Request /\ q.kind = "member" /\ q.ids = {} /\ q.step = None /\ q.syncs
      /\ q.wanted = {} /\ q.added = {} /\ q.removed = {} /\ q.missed = {} /\ ~q.late
  BY <1>1 DEF Rest, Request, Kinds
<1>4. Plain(q)
  BY <1>3 DEF Plain
<1> HIDE DEF q
<1> QED
  BY <1>2, <1>3, <1>4, MemberKeeps

-----------------------------------------------------------------------------
LEMMA WriteKeeps ==
    ASSUME SInv, NEW x \in Desks, Write(x)
    PROVE  SInv'
<1> DEFINE q == tx[x]
           b == tx'[x]
<1>1. tx \in [Desks -> Request] /\ q \in Request
  BY DEF SInv, TypeOK
<1>2. /\ b = [q EXCEPT !.step = IF Syncs(q) THEN "written" ELSE "compared",
                        !.before = None, !.syncs = Syncs(q),
                        !.wanted = IF Syncs(q) THEN Desired(FlagsOf(member, q), RowsOf(stint, q)) ELSE {}]
      /\ q.step = "decided"
  BY <1>1, AfterIsOf DEF Write, WriteAndRead
<1>3. Syncs(q) \in BOOLEAN /\ Desired(FlagsOf(member, q), RowsOf(stint, q)) \in SUBSET IdentityRoles
  BY DesiredTypes DEF Syncs
<1>4. /\ b \in Request /\ b.step = (IF Syncs(q) THEN "written" ELSE "compared")
       /\ b.wanted = (IF Syncs(q) THEN Desired(FlagsOf(member, q), RowsOf(stint, q)) ELSE {})
       /\ b.syncs = Syncs(q) /\ b.before = None
       /\ b.kind = q.kind /\ b.ids = q.ids /\ b.row = q.row /\ b.end = q.end /\ b.flags = q.flags
       /\ b.added = q.added /\ b.removed = q.removed /\ b.missed = q.missed /\ b.late = q.late
  <2> HIDE DEF q, b
  <2> QED
    BY <1>1, <1>2, <1>3 DEF Request, Steps
<1>5. tx' = [tx EXCEPT ![x] = b] /\ UNCHANGED <<stint, member, roles, excused, drift, overlaps>>
  BY <1>1 DEF Write, WriteAndRead
<1>6. Shape(q, stint) /\ Clear(q, stint) /\ Synced(q, stint, member, roles)
  BY DEF SInv
<1>7. Shape(b, stint) /\ Clear(b, stint)
  BY <1>2, <1>6, <1>4 DEF Shape, Clear, Steps
<1>8. FlagsOf(member, b) = FlagsOf(member, q) /\ RowsOf(stint, b) = RowsOf(stint, q)
  BY <1>4 DEF FlagsOf, RowsOf
<1>9. Synced(b, stint, member, roles)
  <2>1. ~Syncs(q) => q.kind = "member"
    <3>1. FlagsAfter(q) \in Flags
      BY <1>1, AfterIsOf, FlagsTypes DEF SInv, TypeOK
    <3>2. FlagsAfter(q) # None
      BY <3>1, NoneApart
    <3> QED
      BY <1>6, <3>2 DEF Syncs, Synced
  <2>2. ~q.late /\ q.added = {} /\ q.removed = {}
    BY <1>2, <1>6 DEF Synced
  <2> HIDE DEF q, b
  <2> QED
    BY <1>8, <1>4, <2>1, <2>2 DEF Synced
<1>10. overlaps' \in 0..MaxOverlaps
  BY <1>5 DEF SInv, TypeOK
<1> HIDE DEF q, b
<1> QED
  BY <1>5, <1>7, <1>9, <1>10, <1>4, OwnStepKeeps DEF q, Steps

LEMMA CompareKeeps ==
    ASSUME SInv, NEW x \in Desks, Compare(x)
    PROVE  SInv'
<1> DEFINE q == tx[x]
           b == tx'[x]
<1>1. tx \in [Desks -> Request] /\ q \in Request /\ roles \subseteq IdentityRoles
  BY DEF SInv, TypeOK
<1>2. tx' = [tx EXCEPT ![x] = [q EXCEPT !.step = "compared", !.wanted = {},
                                        !.added = q.wanted \ roles, !.removed = roles \ q.wanted]]
  BY <1>1 DEF Compare
<1>3. b = [q EXCEPT !.step = "compared", !.wanted = {}, !.added = q.wanted \ roles, !.removed = roles \ q.wanted]
  BY <1>1, <1>2
<1>4. /\ b.step = "compared" /\ b.added = q.wanted \ roles /\ b.removed = roles \ q.wanted
      /\ b.kind = q.kind /\ b.ids = q.ids /\ b.row = q.row /\ b.end = q.end /\ b.flags = q.flags
      /\ b.syncs = q.syncs /\ b.before = q.before /\ b.missed = q.missed /\ b.late = q.late /\ q.step = "written"
  BY <1>1, <1>3 DEF Compare, Request
<1>5. b \in Request
  <2>1. q.wanted \ roles \in SUBSET IdentityRoles /\ roles \ q.wanted \in SUBSET IdentityRoles
    BY <1>1 DEF Request
  <2> QED
    BY <1>1, <1>3, <2>1 DEF Request, Steps
<1>6. tx' = [tx EXCEPT ![x] = b] /\ UNCHANGED <<stint, member, roles, excused, drift, overlaps>>
  BY <1>2, <1>3 DEF Compare
<1>7. Shape(q, stint) /\ Clear(q, stint) /\ Synced(q, stint, member, roles)
  BY DEF SInv
<1>8. Shape(b, stint) /\ Clear(b, stint)
  BY <1>4, <1>7 DEF Shape, Clear, Steps
<1>9. FlagsOf(member, b) = FlagsOf(member, q) /\ RowsOf(stint, b) = RowsOf(stint, q)
  BY <1>4 DEF FlagsOf, RowsOf
<1>10. (roles \cup b.added) \ b.removed = q.wanted
  BY <1>4
<1>11. Synced(b, stint, member, roles)
  BY <1>4, <1>7, <1>9, <1>10 DEF Synced
<1>12. overlaps' \in 0..MaxOverlaps
  BY <1>6 DEF SInv, TypeOK
<1> HIDE DEF q, b
<1> QED
  BY <1>4, <1>5, <1>6, <1>8, <1>11, <1>12, OwnStepKeeps DEF q, Steps

LEMMA FailKeeps ==
    ASSUME SInv, NEW x \in Desks, Fail(x)
    PROVE  SInv'
<1>1. tx' = [tx EXCEPT ![x] = Rest] /\ UNCHANGED <<stint, member, roles, excused, drift>>
  BY DEF Fail
<1>2. overlaps' \in 0..MaxOverlaps
  <2>1. overlaps \in 0..MaxOverlaps /\ (overlaps' = 0 \/ overlaps' = overlaps)
    BY DEF SInv, TypeOK, Fail
  <2> QED
    BY <2>1, BoundTypes
<1>3. Rest.ids = {} /\ Rest.kind # "enrol"
  BY NoneApart DEF Rest, Kinds
<1> QED
  BY <1>1, <1>2, <1>3, RestIsSound, RestTypes, OwnStepKeeps

-----------------------------------------------------------------------------
(* The commit.                                                             *)

\* Two valid rows one of which is closed overlap only if they did before.
LEMMA ClosingShrinks ==
    ASSUME NEW a \in Stint, NEW b \in Stint, NEW e \in Months, IsOngoing(a)
    PROVE  /\ enrolmentsOverlap([a EXCEPT !.end = e], b) => enrolmentsOverlap(a, b)
           /\ enrolmentsOverlap(b, [a EXCEPT !.end = e]) => enrolmentsOverlap(b, a)
BY NoneApart DEF enrolmentsOverlap, IsOngoing, Stint

LEMMA OverlapIsMutual == \A a, b : enrolmentsOverlap(a, b) => enrolmentsOverlap(b, a)
BY DEF enrolmentsOverlap

\* What a saved request leaves of the row of a stint.
LEMMA RowCases ==
    ASSUME NEW st \in Table, NEW q \in Request, Shape(q, st), NEW s \in Stints
    PROVE  \/ RowsOf(st, q)[s] = st[s] /\ s \notin q.ids
           \/ s \in q.ids /\ q.kind = "enrol" /\ RowsOf(st, q)[s] = q.row /\ q.row \in Stint /\ st[s] = None
           \/ s \in q.ids /\ q.kind # "enrol" /\ RowsOf(st, q)[s] = None
           \/ /\ s \in q.ids /\ q.kind = "close" /\ st[s] \in Stint /\ q.end \in Months
              /\ RowsOf(st, q)[s] = [st[s] EXCEPT !.end = q.end]
<1>1. q.kind \in {"enrol", "close", "remove"} \/ q.ids = {}
  BY DEF Shape
<1>2. st[s] \in Stint \/ st[s] = None
  BY DEF Table
<1> QED
  BY <1>1, <1>2 DEF RowsOf, Shape

LEMMA SaveFacts ==
    ASSUME SInv, NEW x \in Desks, Save(x)
    PROVE  LET q == tx[x]
               Missing(z) == [tx[z] EXCEPT !.missed = @ \cup {q.kind}, !.late = tx[z].step # "decided"]
           IN  /\ q \in Request /\ q.step = "compared" /\ stint \in Table
               /\ Shape(q, stint) /\ Clear(q, stint) /\ Synced(q, stint, member, roles)
               /\ stint' = RowsOf(stint, q) /\ member' = FlagsOf(member, q)
               /\ roles' = (roles \cup q.added) \ q.removed
               /\ q.kind \in Kinds
               /\ tx'[x] = Rest
               /\ \A z \in Desks \ {x} : tx'[z] = IF tx[z] = Rest THEN Rest ELSE Missing(z)
<1>1. tx \in [Desks -> Request] /\ tx[x] \in Request /\ stint \in Table
  BY DEF SInv, TypeOK, Table
<1>2. Shape(tx[x], stint) /\ Clear(tx[x], stint) /\ Synced(tx[x], stint, member, roles)
  BY DEF SInv
<1>3. /\ tx[x].step = "compared" /\ stint' = RowsOf(stint, tx[x]) /\ member' = FlagsOf(member, tx[x])
      /\ roles' = (roles \cup tx[x].added) \ tx[x].removed
  BY AfterIsOf DEF Save
<1>4. tx[x].kind \in Kinds
  BY <1>2, <1>3 DEF Shape, Steps
<1>5. tx'[x] = Rest
  BY DEF Save
<1>6. \A z \in Desks \ {x} :
        tx'[z] = IF tx[z] = Rest THEN Rest
                 ELSE [tx[z] EXCEPT !.missed = @ \cup {tx[x].kind}, !.late = tx[z].step # "decided"]
  BY DEF Save
<1> QED
  BY <1>1, <1>2, <1>3, <1>4, <1>5, <1>6

\* What a save leaves of the request of another desk.
LEMMA OtherRequests ==
    ASSUME SInv, NEW x \in Desks, Save(x), NEW z \in Desks \ {x}, tx[z] # Rest
    PROVE  LET q == tx[x]  o == tx[z]  b == tx'[z]
           IN  /\ b \in Request /\ o \in Request
               /\ b.kind = o.kind /\ b.step = o.step /\ b.ids = o.ids /\ b.row = o.row /\ b.end = o.end
               /\ b.flags = o.flags /\ b.before = o.before /\ b.syncs = o.syncs /\ b.added = o.added /\ b.removed = o.removed
               /\ b.missed = o.missed \cup {q.kind} /\ (b.late <=> o.step # "decided")
<1> DEFINE q == tx[x]
           o == tx[z]
<1>1. o \in Request /\ q.kind \in Kinds
  BY SaveFacts DEF SInv, TypeOK
<1>2. tx'[z] = [o EXCEPT !.missed = o.missed \cup {q.kind}, !.late = o.step # "decided"]
  BY SaveFacts
<1>3. (o.step # "decided") \in BOOLEAN /\ o.missed \cup {q.kind} \in SUBSET Kinds
  BY <1>1 DEF Request
<1> HIDE DEF q, o
<1>4. tx'[z] \in Request
  BY <1>1, <1>2, <1>3 DEF Request
<1>5. LET b == tx'[z]
      IN  /\ b.kind = o.kind /\ b.step = o.step /\ b.ids = o.ids /\ b.row = o.row /\ b.end = o.end
          /\ b.flags = o.flags /\ b.before = o.before /\ b.syncs = o.syncs /\ b.added = o.added /\ b.removed = o.removed
          /\ b.missed = o.missed \cup {q.kind} /\ (b.late <=> o.step # "decided")
  BY <1>1, <1>2 DEF Request
<1> QED
  BY <1>1, <1>4, <1>5 DEF q, o

LEMMA SaveTypes ==
    ASSUME SInv, NEW x \in Desks, Save(x)
    PROVE  TypeOK'
<1> DEFINE q == tx[x]
<1>1. /\ q \in Request /\ stint \in Table /\ Shape(q, stint) /\ stint' = RowsOf(stint, q)
      /\ member' = FlagsOf(member, q) /\ roles' = (roles \cup q.added) \ q.removed
  BY SaveFacts
<1>2. \A s \in Stints : stint[s] # None => Forward(stint[s])
  BY DEF SInv, TypeOK, Forward
<1>3. stint' \in Table /\ \A s \in Stints : stint'[s] # None => Forward(stint'[s])
  BY <1>1, <1>2, RowsTypes
<1>4. member' \in Flags
  BY <1>1, FlagsTypes DEF SInv, TypeOK
<1>5. roles' \subseteq IdentityRoles
  BY <1>1 DEF SInv, TypeOK, Request
<1>6. tx' \in [Desks -> Request]
  <2>1. tx'[x] \in Request
    BY SaveFacts, RestTypes
  <2>2. ASSUME NEW z \in Desks \ {x} PROVE tx'[z] \in Request
    <3>1. CASE tx[z] = Rest
      BY <3>1, SaveFacts, RestTypes
    <3>2. CASE tx[z] # Rest
      BY <3>2, OtherRequests
    <3> QED
      BY <3>1, <3>2
  <2>3. tx' = [z \in Desks |-> tx'[z]]
    BY DEF Save
  <2> QED
    BY <2>1, <2>2, <2>3
<1>7. excused' \subseteq Stints
  BY <1>1 DEF SInv, TypeOK, Save, Request
<1>8. drift' \in BOOLEAN
  <2>1. drift' = Drifts(q)
    BY DEF Save
  <2>2. q.late \in BOOLEAN /\ drift \in BOOLEAN
    BY <1>1 DEF Request, SInv, TypeOK
  <2> QED
    BY <2>1, <2>2 DEF Drifts
<1>9. overlaps' \in 0..MaxOverlaps
  <2>1. overlaps \in 0..MaxOverlaps /\ overlaps' <= MaxOverlaps /\ (overlaps' = 0 \/ overlaps' = overlaps + 1)
    BY DEF SInv, TypeOK, Save
  <2> QED
    BY <2>1, BoundTypes
<1> HIDE DEF q
<1> QED
  BY <1>3, <1>4, <1>5, <1>6, <1>7, <1>8, <1>9 DEF TypeOK, Table, Forward

LEMMA SaveApart ==
    ASSUME SInv, NEW x \in Desks, Save(x)
    PROVE  Apart'
<1> SUFFICES ASSUME NEW u \in Desks, NEW z \in Desks, u # z, tx'[u].kind = "enrol"
             PROVE  tx'[u].ids \cap tx'[z].ids = {}
  BY DEF Apart
<1>1. Rest.ids = {} /\ Rest.kind # "enrol"
  BY NoneApart DEF Rest, Kinds
<1>2. CASE tx'[z] = Rest
  BY <1>1, <1>2
<1>3. CASE tx'[z] # Rest
  <2>1. u # x /\ tx[u] # Rest /\ z # x /\ tx[z] # Rest
    BY <1>1, <1>3, SaveFacts
  <2>2. tx'[u].ids = tx[u].ids /\ tx'[z].ids = tx[z].ids /\ tx[u].kind = "enrol"
    BY <2>1, OtherRequests
  <2> QED
    BY <2>2 DEF SInv, Apart
<1> QED
  BY <1>2, <1>3

\* No saved stint overlaps another one, but those that are excused.
LEMMA SaveDisjoint ==
    ASSUME SInv, NEW x \in Desks, Save(x)
    PROVE  Disjoint'
<1> DEFINE q == tx[x]
<1>1. /\ q \in Request /\ stint \in Table /\ Shape(q, stint) /\ Clear(q, stint)
      /\ stint' = RowsOf(stint, q)
  BY SaveFacts
<1>2. /\ \A s \in excused : stint'[s] # None => s \in excused'
      /\ \A s \in q.ids : q.kind = "enrol" /\ q.missed \cap {"enrol", "close"} # {} => s \in excused'
      /\ \A s \in q.ids : q.kind = "close" /\ ~IsOngoing(stint[s]) => s \in excused'
  BY AfterIsOf, <1>1 DEF Save
<1> HIDE DEF q
<1> DEFINE Was(s) == stint[s] \in Stint /\ s \notin excused /\ (q.kind = "enrol" => s \notin q.ids)
           New(s) == q.kind = "enrol" /\ stint'[s] = q.row /\ q.row \in Stint /\ s \in q.ids
                         /\ q.missed \cap {"enrol", "close"} = {}
<1>3. ASSUME NEW s \in Stints, s \notin excused', stint'[s] # None
      PROVE  \/ New(s)
             \/ Was(s) /\ stint'[s] = stint[s]
             \/ Was(s) /\ q.kind = "close" /\ IsOngoing(stint[s]) /\ q.end \in Months /\ stint'[s] = [stint[s] EXCEPT !.end = q.end]
  <2>1. CASE stint'[s] = stint[s] /\ s \notin q.ids
    BY <1>1, <1>2, <1>3, <2>1 DEF Table
  <2>2. CASE s \in q.ids /\ q.kind = "enrol" /\ stint'[s] = q.row /\ q.row \in Stint
    BY <1>2, <1>3, <2>2
  <2>3. CASE s \in q.ids /\ q.kind = "close" /\ stint[s] \in Stint /\ q.end \in Months
             /\ stint'[s] = [stint[s] EXCEPT !.end = q.end]
    BY <1>2, <1>3, <2>3
  <2> QED
    BY <1>1, <1>3, <2>1, <2>2, <2>3, RowCases
<1> SUFFICES ASSUME NEW s \in Stints, NEW t \in Stints, s \notin excused', t \notin excused',
                    s # t, stint'[s] # None, stint'[t] # None, enrolmentsOverlap(stint'[s], stint'[t])
             PROVE  FALSE
  BY DEF Disjoint
<1>4. CASE New(s)
  <2>1. stint'[t] = stint[t] /\ stint[t] # None
    BY <1>1, <1>3, <1>4 DEF Shape
  <2> QED
    BY <1>1, <1>4, <2>1 DEF Clear
<1>5. CASE New(t)
  <2>1. stint'[s] = stint[s] /\ stint[s] # None
    BY <1>1, <1>3, <1>5 DEF Shape
  <2>2. enrolmentsOverlap(q.row, stint[s])
    BY <1>5, <2>1, OverlapIsMutual
  <2> QED
    BY <1>1, <1>5, <2>1, <2>2 DEF Clear
<1>6. CASE Was(s) /\ Was(t)
  <2>1. stint[s] \in Stint /\ stint[t] \in Stint /\ stint'[t] \in Stint
    <3>1. stint' \in Table
      BY SaveTypes DEF TypeOK, Table
    <3> QED
      BY <1>6, <3>1 DEF Table
  <2>2. enrolmentsOverlap(stint[s], stint'[t])
    <3>1. CASE stint'[s] = stint[s]
      BY <3>1
    <3>2. CASE IsOngoing(stint[s]) /\ q.end \in Months /\ stint'[s] = [stint[s] EXCEPT !.end = q.end]
      BY <2>1, <3>2, ClosingShrinks
    <3> QED
      BY <1>3, <1>6, <3>1, <3>2 DEF Shape
  <2>3. enrolmentsOverlap(stint[s], stint[t])
    <3>1. CASE stint'[t] = stint[t]
      BY <2>2, <3>1
    <3>2. CASE IsOngoing(stint[t]) /\ q.end \in Months /\ stint'[t] = [stint[t] EXCEPT !.end = q.end]
      BY <2>1, <2>2, <3>2, ClosingShrinks
    <3> QED
      BY <1>3, <1>6, <3>1, <3>2 DEF Shape
  <2>4. s \notin excused /\ t \notin excused /\ stint[s] # None /\ stint[t] # None
    BY <1>6, <2>1, NoneApart
  <2> QED
    BY <2>3, <2>4 DEF SInv, Disjoint
<1> QED
  BY <1>3, <1>4, <1>5, <1>6

\* The stored roles after a save, when nothing was saved since they were derived.
LEMMA SaveRoles ==
    ASSUME SInv, NEW x \in Desks, Save(x)
    PROVE  RolesFollow'
<1> DEFINE q == tx[x]
<1>1. /\ q.step = "compared" /\ Synced(q, stint, member, roles) /\ Shape(q, stint) /\ stint \in Table
      /\ stint' = RowsOf(stint, q) /\ member' = FlagsOf(member, q)
      /\ roles' = (roles \cup q.added) \ q.removed
  BY SaveFacts
<1>2. drift' = Drifts(q)
  BY DEF Save
<1> HIDE DEF q
<1> SUFFICES ASSUME ~drift' PROVE roles' = Desired(member', stint')
  BY DEF RolesFollow, Desired
<1>3. CASE q.syncs
  BY <1>1, <1>2, <1>3 DEF Drifts, Synced
<1>4. CASE ~q.syncs
  <2>1. ~drift /\ FlagsOf(member, q) = member
    BY <1>2, <1>4, AfterIsOf DEF Drifts
  <2>2. member' = member /\ roles' = roles /\ q.ids = {}
    BY <1>1, <1>4, <2>1 DEF Synced, Shape
  <2>3. stint' = stint
    BY <1>1, <2>2 DEF RowsOf, Table
  <2> QED
    BY <2>1, <2>2, <2>3 DEF SInv, RolesFollow
<1> QED
  BY <1>3, <1>4

\* The requests of the other desks after a save.
LEMMA SaveOthers ==
    ASSUME SInv, NEW x \in Desks, Save(x), NEW z \in Desks
    PROVE  (/\ tx[z].step \in Steps \/ tx[z] = Rest
            /\ Shape(tx[z], stint) /\ Clear(tx[z], stint) /\ Synced(tx[z], stint, member, roles))'
<1> DEFINE q == tx[x]
           o == tx[z]
           b == tx'[z]
<1>1. CASE b = Rest
  BY <1>1, RestIsSound
<1>2. CASE b # Rest
  <2>1. z \in Desks \ {x} /\ tx[z] # Rest
    BY <1>2, SaveFacts
  <2>2. /\ b \in Request /\ o \in Request
        /\ b.kind = o.kind /\ b.step = o.step /\ b.ids = o.ids /\ b.row = o.row /\ b.end = o.end
        /\ b.flags = o.flags /\ b.before = o.before /\ b.syncs = o.syncs /\ b.added = o.added /\ b.removed = o.removed
        /\ b.missed = o.missed \cup {q.kind} /\ (b.late <=> o.step # "decided")
    BY <2>1, OtherRequests
  <2>3. /\ stint \in Table /\ Shape(q, stint) /\ stint' = RowsOf(stint, q)
        /\ member' = FlagsOf(member, q) /\ member \in Flags /\ q \in Request /\ q.kind \in Kinds
    BY SaveFacts DEF SInv, TypeOK
  <2>4. Shape(o, stint) /\ Clear(o, stint) /\ Synced(o, stint, member, roles)
    BY DEF SInv
  <2>5. /\ o.kind = "enrol" => o.ids \cap q.ids = {}
        /\ q.kind = "enrol" => o.ids \cap q.ids = {}
    BY <2>1 DEF SInv, Apart
  <2>9. o.step \in Steps
    BY <2>1 DEF SInv
  <2> HIDE DEF q, o, b
  <2>6. Shape(b, stint')
    <3>1. ASSUME NEW s \in b.ids, b.kind = "enrol"
          PROVE  stint'[s] = None
      BY <2>2, <2>3, <2>4, <2>5, <3>1 DEF Shape, RowsOf, Request
    <3>2. ASSUME NEW s \in b.ids, b.kind = "close", stint'[s] # None
          PROVE  stint'[s].start <= b.end
      <4>1. s \in Stints /\ s \in o.ids /\ o.kind = "close"
        BY <2>2, <3>2 DEF Request
      <4>2. \/ stint'[s] = stint[s]
            \/ stint[s] \in Stint /\ stint'[s] = [stint[s] EXCEPT !.end = q.end]
        BY <2>3, <2>5, <3>2, <4>1, RowCases
      <4>3. stint[s] # None /\ stint[s].start = stint'[s].start
        BY <3>2, <4>2, NoneApart DEF Stint
      <4> QED
        BY <2>2, <2>4, <4>1, <4>3 DEF Shape
    <3> QED
      BY <2>2, <2>4, <3>1, <3>2 DEF Shape
  <2>7. Clear(b, stint')
    <3> SUFFICES ASSUME b.kind = "enrol", b.missed \cap {"enrol", "close"} = {},
                        NEW s \in Stints, stint'[s] # None
                 PROVE  ~enrolmentsOverlap(b.row, stint'[s])
      BY DEF Clear
    <3>1. q.kind \notin {"enrol", "close"}
      BY <2>2
    <3>2. stint'[s] = stint[s]
      BY <2>3, <3>1, RowCases DEF Kinds
    <3> QED
      BY <2>2, <2>4, <3>2 DEF Clear
  <2>8. Synced(b, stint', member', roles')
    <3>1. b.step \in {"written", "compared"} => b.late
      BY <2>2
    <3>2. b.step \notin {"written", "compared"} => ~b.late
      <4>1. o.step \notin {"written", "compared"} => o.step = "decided"
        BY <2>9 DEF Steps
      <4> QED
        BY <2>2, <4>1
    <3> QED
      BY <2>2, <2>4, <3>1, <3>2 DEF Synced
  <2> QED
    BY <2>2, <2>6, <2>7, <2>8, <2>9 DEF b
<1> QED
  BY <1>1, <1>2

LEMMA SaveKeeps ==
    ASSUME SInv, NEW x \in Desks, Save(x)
    PROVE  SInv'
BY SaveTypes, SaveApart, SaveDisjoint, SaveRoles, SaveOthers DEF SInv

-----------------------------------------------------------------------------
\* The forms offer stints that do not end before they begin.
LEMMA OfferedStints ==
    ASSUME NEW type \in Types, NEW month \in Months
    PROVE  /\ [type |-> type, start |-> month, end |-> None] \in Stint
           /\ Forward([type |-> type, start |-> month, end |-> None])
           /\ [type |-> "auxiliary", start |-> month, end |-> month] \in Stint
           /\ Forward([type |-> "auxiliary", start |-> month, end |-> month])
BY DEF Stint, Types, Forward, IsOngoing, Months

LEMMA NextKeeps == SInv /\ [Next]_vars => SInv'
<1>1. CASE UNCHANGED vars
  BY <1>1 DEF vars, SInv, TypeOK, Apart, Disjoint, RolesFollow, Desired
<1>2. ASSUME SInv, Next PROVE SInv'
  <2> PICK x \in Desks :
        \/ \E s \in Stints, type \in Types, month \in Months : EnrolStanding(x, s, type, month)
        \/ \E s \in Stints, month \in Months : EnrolMonthly(x, s, month) \/ Close(x, s, month)
        \/ \E month \in Months : CloseAuxiliaries(x, month)
        \/ \E s \in Stints : Remove(x, s)
        \/ MarkLeft(x) \/ MarkReturned(x)
        \/ \E to \in BOOLEAN : TogglePublisher(x, to) \/ UpdateIdentity(x, to)
        \/ Write(x) \/ Compare(x) \/ Save(x) \/ Fail(x)
    BY <1>2 DEF Next
  <2>1. ASSUME NEW s \in Stints, NEW type \in Types, NEW month \in Months, EnrolStanding(x, s, type, month)
        PROVE  SInv'
    BY <1>2, <2>1, OfferedStints, EnrolKeeps DEF EnrolStanding
  <2>2. ASSUME NEW s \in Stints, NEW month \in Months, EnrolMonthly(x, s, month)
        PROVE  SInv'
    <3>1. "auxiliary" \in Types
      BY DEF Types
    <3> QED
      BY <1>2, <2>2, <3>1, OfferedStints, EnrolKeeps DEF EnrolMonthly
  <2>3. ASSUME NEW s \in Stints, NEW month \in Months, Close(x, s, month)
        PROVE  SInv'
    BY <1>2, <2>3, CloseKeeps
  <2>4. ASSUME NEW month \in Months, CloseAuxiliaries(x, month)
        PROVE  SInv'
    BY <1>2, <2>4, CloseAuxiliariesKeeps
  <2>5. ASSUME NEW s \in Stints, Remove(x, s)
        PROVE  SInv'
    BY <1>2, <2>5, RemoveKeeps
  <2>6. ASSUME MarkLeft(x) \/ MarkReturned(x) \/ \E to \in BOOLEAN : TogglePublisher(x, to)
        PROVE  SInv'
    <3>1. PICK field \in Fields, to \in BOOLEAN : Change(x, [Keep EXCEPT ![field] = to])
      BY <2>6 DEF MarkLeft, MarkReturned, TogglePublisher, Fields
    <3>2. [Keep EXCEPT ![field] = to] \in [Fields -> BOOLEAN \cup {None}]
      BY KeepTypes
    <3> QED
      BY <1>2, <3>1, <3>2, ChangeKeeps
  <2>7. ASSUME NEW to \in BOOLEAN, UpdateIdentity(x, to)
        PROVE  SInv'
    BY <1>2, <2>7, UpdateIdentityKeeps
  <2>8. CASE Write(x)
    BY <1>2, <2>8, WriteKeeps
  <2>9. CASE Compare(x)
    BY <1>2, <2>9, CompareKeeps
  <2>10. CASE Save(x)
    BY <1>2, <2>10, SaveKeeps
  <2>11. CASE Fail(x)
    BY <1>2, <2>11, FailKeeps
  <2> QED
    BY <2>1, <2>2, <2>3, <2>4, <2>5, <2>6, <2>7, <2>8, <2>9, <2>10, <2>11
<1> QED
  BY <1>1, <1>2

LEMMA SInvHolds == Spec => []SInv
<1> QED
  BY InitKeeps, NextKeeps, PTL DEF Spec

-----------------------------------------------------------------------------
\* The rows keep to the schema, and no stint ends before it begins.
THEOREM StintTypes == Spec => []TypeOK
<1>1. SInv => TypeOK
  BY DEF SInv
<1> QED
  BY <1>1, SInvHolds, PTL

\* No two stints of the member share a month, for any number of desks and stints:
\* only an enrolment beside another one, or a second closure, can bring it about.
THEOREM StintsAreApart == Spec => []NoSharedMonth
<1>1. SInv => NoSharedMonth
  <2> SUFFICES ASSUME SInv, NEW s \in Stints \ excused, NEW t \in Stints \ excused, NEW month \in Months,
                      s # t, stint[s] # None, stint[t] # None,
                      coversMonth(stint[s], month), coversMonth(stint[t], month)
               PROVE  FALSE
    BY DEF NoSharedMonth
  <2>1. stint[s] \in Stint /\ stint[t] \in Stint
    BY DEF SInv, TypeOK
  <2>2. enrolmentsOverlap(stint[s], stint[t])
    BY <2>1, BoundTypes DEF coversMonth, enrolmentsOverlap, IsOngoing, Stint, Months
  <2> QED
    BY <2>2 DEF SInv, Disjoint
<1> QED
  BY <1>1, SInvHolds, PTL

\* The stored roles are those the flags and the stints imply, unless the last sync ran
\* beside a request that was saved after it, or an edit of the identity skipped it and
\* put back a flag that was changed meanwhile; whatever was stored before, a sync that
\* runs beside nobody repairs it.
THEOREM RolesAreImplied == Spec => []RolesFollow
<1>1. SInv => RolesFollow
  BY DEF SInv
<1> QED
  BY <1>1, SInvHolds, PTL

=============================================================================
