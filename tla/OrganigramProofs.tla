-------------------------- MODULE OrganigramProofs --------------------------
(***************************************************************************)
(* Proofs about Organigram, for any roles, posts, depth limit and number   *)
(* of desks whose requests overlap: the tables keep to the schema and to   *)
(* the foreign key of the chart, the committee keeps its place, and, for   *)
(* writes decided on the tree they change, the chart stays a forest of     *)
(* bounded depth in which everyone answers to a roster.                    *)
(***************************************************************************)
EXTENDS Organigram, FiniteSetTheorems, TLAPS

\* A roster is a root: the policy refuses a parent, and a root that is removed
\* lifts its children to the top.
ElderIsRoot == parent[Elder] = None

\* What a request carries was accepted: nothing appointed is hung or removed,
\* and a roster goes, and leaves what is under it, to the top.
RequestsAccepted ==
    \A x \in Desks : tx[x] # None /\ tx[x].kind # "adopt" =>
        /\ tx[x].role \notin Appointed
        /\ tx[x].role = Elder => tx[x].to = None

PlaceInv == TypeOK /\ ElderIsRoot /\ RequestsAccepted /\ CommitteeStands

-----------------------------------------------------------------------------
\* The kinds of roles are apart.
LEMMA Apart ==
    /\ Elder \in Rosters /\ Elder \in BuiltIn /\ Elder \in Role
    /\ Committee \in Appointed /\ Posts \subseteq Appointed
    /\ Appointed \subseteq BuiltIn /\ BuiltIn \subseteq Role /\ Services \subseteq Role
    /\ Elder \notin Appointed /\ Committee \notin Posts
    /\ Services \cap BuiltIn = {} /\ None \notin Role
    /\ Sources \subseteq Role \ Appointed
    /\ \A post \in Posts : post # Committee /\ post # Elder
BY OrganigramAssumption DEF Role, BuiltIn, Appointed

\* No request is mistaken for the absence of one.
LEMMA RestingDesk ==
    ASSUME NEW x \in Desks, TypeOK
    PROVE  /\ tx[x] \in Request \cup {None}
           /\ tx[x] # None => tx[x] \in Request
BY DEF TypeOK

\* The empty choice and every other one name sources only.
LEMMA ChoicesNameSources ==
    /\ NoChoice \in Choice
    /\ \A choice \in Choice : \A a \in Appointed : choice[a] \in Sources \cup {None}
BY DEF NoChoice, Choice

\* Accepting a request writes a request of its kind, and no table.
LEMMA BeginTypes ==
    ASSUME TypeOK, NEW x \in Desks, NEW kind \in {"add", "create", "move", "remove", "adopt"},
           NEW r \in Role, NEW p \in Role \cup {None}, NEW choice \in Choice,
           Begin(x, kind, r, p, choice)
    PROVE  TypeOK'
<1> DEFINE q == [ kind |-> kind, role |-> r, to |-> p, choice |-> choice, stale |-> FALSE ]
<1>1. q \in Request
  BY DEF Request
<1>2. tx' = [tx EXCEPT ![x] = q] /\ UNCHANGED <<roles, shown, parent, past>>
  BY DEF Begin
<1> HIDE DEF q
<1>3. tx' \in [Desks -> Request \cup {None}]
  BY <1>1, <1>2 DEF TypeOK
<1> QED BY <1>2, <1>3 DEF TypeOK

\* The other desks keep their requests, marked as outdated.
LEMMA OutdatedTypes ==
    ASSUME TypeOK, NEW x
    PROVE  /\ Outdated(x) \in [Desks -> Request \cup {None}]
           /\ \A y \in Desks : Outdated(x)[y] # None =>
                 /\ tx[y] # None /\ tx[y] \in Request
                 /\ Outdated(x)[y] = [tx[y] EXCEPT !.stale = TRUE]
<1>1. \A y \in Desks : tx[y] \in Request => [tx[y] EXCEPT !.stale = TRUE] \in Request
  BY DEF Request
<1>2. \A y \in Desks : tx[y] \in Request \cup {None}
  BY DEF TypeOK
<1> QED BY <1>1, <1>2 DEF Outdated

\* A write that fails ends the request.
LEMMA FailTypes ==
    ASSUME TypeOK, NEW x \in Desks, Fail(x)
    PROVE  TypeOK'
BY DEF TypeOK, Fail

\* updateMany keeps the links between roles that exist.
LEMMA RehungTypes ==
    ASSUME NEW R, NEW links \in [Role -> R \cup {None}], NEW D, NEW heir \in [D -> R \cup {None}]
    PROVE  Rehung(links, heir) \in [Role -> R \cup {None}]
BY DEF Rehung

LEMMA HangTypes ==
    ASSUME TypeOK, NEW x \in Desks, tx[x] # None, MayWrite(tx[x]),
           tx[x].kind \notin {"remove", "adopt"}, Hang(tx[x])
    PROVE  /\ BuiltIn \subseteq roles' /\ roles' \subseteq Role /\ shown' \subseteq roles'
           /\ parent' \in [Role -> roles' \cup {None}]
<1> DEFINE q == tx[x]
<1>1. q \in Request /\ q.role \in Role
  BY RestingDesk DEF Request
<1>2. q.to \in roles \cup {None}
  BY DEF MayWrite
<1>3. roles' = roles \cup {q.role} /\ shown' \subseteq shown \cup {q.role}
      /\ parent' = [parent EXCEPT ![q.role] = q.to]
  BY DEF Hang
<1>4. q.kind = "move" => shown' = shown
  BY DEF Hang
<1> HIDE DEF q
<1> QED BY <1>1, <1>2, <1>3 DEF TypeOK


LEMMA TakeOffTypes ==
    ASSUME TypeOK, NEW x \in Desks, tx[x] # None, MayWrite(tx[x]),
           tx[x].kind = "remove", TakeOff(tx[x])
    PROVE  /\ BuiltIn \subseteq roles' /\ roles' \subseteq Role /\ shown' \subseteq roles'
           /\ parent' \in [Role -> roles' \cup {None}]
<1> DEFINE q == tx[x]
           heir == [r \in {q.role} |-> q.to]
           lifted == Rehung(parent, heir)
<1>1. q \in Request /\ q.role \in roles
  BY RestingDesk DEF MayWrite
<1>2. roles' = roles /\ shown' = shown \ {q.role} /\ parent' = [lifted EXCEPT ![q.role] = None]
  BY DEF TakeOff
<1>3. lifted \in [Role -> roles \cup {None}]
  <2>1. CASE q.to \in roles \cup {None}
    <3>1. heir \in [{q.role} -> roles \cup {None}]
      BY <2>1
    <3>2. parent \in [Role -> roles \cup {None}]
      BY DEF TypeOK
    <3> HIDE DEF heir, q
    <3> QED BY <3>1, <3>2, RehungTypes
  <2>2. CASE \A r \in Role : parent[r] # q.role
    <3>1. \A r \in Role : parent[r] \notin DOMAIN heir
      BY <2>2
    <3> HIDE DEF heir, q
    <3> QED BY <3>1 DEF Rehung, TypeOK
  <2> QED BY <2>1, <2>2 DEF MayWrite
<1> HIDE DEF lifted, q
<1> QED BY <1>1, <1>2, <1>3 DEF TypeOK

\* What an adoption leaves of the links, for a choice that names sources.
LEMMA Adoption ==
    ASSUME TypeOK, NEW q \in Request, \A a \in Appointed : q.choice[a] \in roles \cup {None}, Adopt(q)
    PROVE  /\ roles' = roles
           /\ Appointed \subseteq shown' /\ shown' \subseteq shown \cup Appointed
           /\ parent' \in [Role -> roles \cup {None}]
           /\ \A post \in Posts : parent'[post] = Committee
           /\ Elder \notin Replaced(q) => parent'[Committee] = Elder
           /\ parent[Elder] = None => parent'[Elder] = None
<1> DEFINE from == Replaced(q)
           heir == [r \in from |-> IF q.choice[Committee] = r THEN Committee
                                   ELSE CHOOSE a \in Posts : q.choice[a] = r]
           placed == [r \in Role |-> IF r = Committee THEN Elder
                                     ELSE IF r \in Posts THEN Committee ELSE parent[r]]
<1>1. from \subseteq Sources /\ None \notin from
  BY ChoicesNameSources DEF Request, Replaced
<1>2. from \cap Appointed = {} /\ Committee \notin from /\ Posts \cap from = {}
  BY <1>1, Apart
<1>3. heir \in [from -> roles \cup {None}]
  <2>1. Committee \in roles /\ Posts \subseteq roles
    BY Apart DEF TypeOK
  <2> SUFFICES ASSUME NEW r \in from
               PROVE  heir[r] \in roles
    OBVIOUS
  <2>2. CASE q.choice[Committee] = r
    BY <2>1, <2>2
  <2>3. CASE q.choice[Committee] # r
    <3>1. \E a \in Posts : q.choice[a] = r
      BY <2>3 DEF Appointed, Replaced
    <3> QED BY <2>1, <2>3, <3>1
  <2> QED BY <2>2, <2>3
<1>4. placed \in [Role -> roles \cup {None}]
  BY Apart DEF TypeOK
<1>5. /\ roles' = roles /\ shown' = (shown \cup Appointed) \ from
      /\ parent' = [r \in Role |-> IF r \in from THEN None ELSE Rehung(placed, heir)[r]]
  BY DEF Adopt
<1>6. Rehung(placed, heir) \in [Role -> roles \cup {None}]
  <2> HIDE DEF placed, heir, from
  <2> QED BY <1>3, <1>4, RehungTypes
<1>7. \A r \in Role : placed[r] \notin from => Rehung(placed, heir)[r] = placed[r]
  BY DEF Rehung
<1>8. Appointed \subseteq shown' /\ shown' \subseteq shown \cup Appointed
  BY <1>2, <1>5
<1>9. parent' \in [Role -> roles \cup {None}]
  <2> HIDE DEF placed, heir, from
  <2> QED BY <1>5, <1>6
<1>10. ASSUME NEW post \in Posts
       PROVE  parent'[post] = Committee
  <2>1. post \in Role /\ placed[post] = Committee /\ post \notin from
    BY <1>2, Apart
  <2> HIDE DEF placed, heir, from
  <2> QED BY <2>1, <1>2, <1>5, <1>7
<1>11. ASSUME Elder \notin Replaced(q)
       PROVE  parent'[Committee] = Elder
  <2>1. Committee \in Role /\ placed[Committee] = Elder /\ Elder \notin from
    BY <1>11, Apart
  <2> HIDE DEF placed, heir, from
  <2> QED BY <2>1, <1>2, <1>5, <1>7
<1>12. ASSUME parent[Elder] = None
       PROVE  parent'[Elder] = None
  <2>1. Elder \in Role /\ placed[Elder] = None
    BY <1>12, Apart
  <2> HIDE DEF placed, heir, from
  <2> QED BY <2>1, <1>1, <1>5, <1>7
<1> QED BY <1>5, <1>8, <1>9, <1>10, <1>11, <1>12

LEMMA DeleteTypes ==
    ASSUME TypeOK, NEW r \in Role, Delete(r)
    PROVE  TypeOK'
<1>1. r \in Services /\ r \in roles /\ \A c \in Role : parent[c] # r
  BY DEF Delete
<1>2. roles' = roles \ {r} /\ shown' = shown \ {r} /\ parent' = [parent EXCEPT ![r] = None]
      /\ tx' = Outdated(None) /\ past' = past
  BY DEF Delete
<1>3. BuiltIn \subseteq roles' /\ roles' \subseteq Role /\ shown' \subseteq roles'
  BY <1>1, <1>2, Apart DEF TypeOK
<1>4. parent' \in [Role -> roles' \cup {None}]
  BY <1>1, <1>2 DEF TypeOK
<1>5. tx' \in [Desks -> Request \cup {None}]
  BY <1>2, OutdatedTypes
<1> QED BY <1>2, <1>3, <1>4, <1>5 DEF TypeOK


LEMMA SaveTypes ==
    ASSUME TypeOK, NEW x \in Desks, Save(x)
    PROVE  TypeOK'
<1>1. tx[x] # None /\ MayWrite(tx[x]) /\ tx' = Outdated(x) /\ past' = past \cup Events(tx[x])
  BY DEF Save
<1>2. tx[x] \in Request
  BY <1>1, RestingDesk
<1>3. /\ BuiltIn \subseteq roles' /\ roles' \subseteq Role /\ shown' \subseteq roles'
      /\ parent' \in [Role -> roles' \cup {None}]
  <2>1. CASE tx[x].kind = "remove"
    <3>1. TakeOff(tx[x])
      BY <2>1 DEF Save
    <3> QED BY <1>1, <2>1, <3>1, TakeOffTypes
  <2>2. CASE tx[x].kind = "adopt"
    <3>1. Adopt(tx[x])
      BY <2>2 DEF Save
    <3>2. \A a \in Appointed : tx[x].choice[a] \in roles \cup {None}
      BY <1>1 DEF MayWrite
    <3>3. /\ roles' = roles /\ shown' \subseteq shown \cup Appointed
          /\ parent' \in [Role -> roles \cup {None}]
      BY <1>2, <3>1, <3>2, Adoption
    <3> QED BY <3>3, Apart DEF TypeOK
  <2>3. CASE tx[x].kind \notin {"remove", "adopt"}
    <3>1. Hang(tx[x])
      BY <2>3 DEF Save
    <3> QED BY <1>1, <2>3, <3>1, HangTypes
  <2> QED BY <2>1, <2>2, <2>3
<1>4. tx' \in [Desks -> Request \cup {None}]
  BY <1>1, OutdatedTypes
<1>5. past' \subseteq {"race", "offchart", "elders", "branch", "rosterless"}
  BY <1>1 DEF TypeOK, Events
<1> QED BY <1>3, <1>4, <1>5 DEF TypeOK

\* The type invariant needs no other one.
LEMMA TypeStep ==
    ASSUME TypeOK, [Next]_vars
    PROVE  TypeOK'
<1>1. ASSUME NEW x \in Desks, NEW r \in Role, NEW p \in Role \cup {None}, BeginAdd(x, r, p)
      PROVE  TypeOK'
  <2>1. Begin(x, "add", r, p, NoChoice)
    BY <1>1 DEF BeginAdd
  <2> QED BY <2>1, BeginTypes, ChoicesNameSources
<1>2. ASSUME NEW x \in Desks, NEW r \in Role, NEW p \in Role \cup {None}, BeginCreate(x, r, p)
      PROVE  TypeOK'
  <2>1. Begin(x, "create", r, p, NoChoice)
    BY <1>2 DEF BeginCreate
  <2> QED BY <2>1, BeginTypes, ChoicesNameSources
<1>3. ASSUME NEW x \in Desks, NEW r \in Role, NEW p \in Role \cup {None}, BeginMove(x, r, p)
      PROVE  TypeOK'
  <2>1. Begin(x, "move", r, p, NoChoice)
    BY <1>3 DEF BeginMove
  <2> QED BY <2>1, BeginTypes, ChoicesNameSources
<1>4. ASSUME NEW x \in Desks, NEW r \in Role, BeginRemove(x, r)
      PROVE  TypeOK'
  <2>1. Begin(x, "remove", r, parent[r], NoChoice)
    BY <1>4 DEF BeginRemove
  <2>2. parent[r] \in Role \cup {None}
    BY DEF TypeOK
  <2> QED BY <2>1, <2>2, BeginTypes, ChoicesNameSources
<1>5. ASSUME NEW x \in Desks, NEW choice \in Choice, BeginAdopt(x, choice)
      PROVE  TypeOK'
  <2>1. Begin(x, "adopt", Committee, None, choice)
    BY <1>5 DEF BeginAdopt
  <2> QED BY <2>1, BeginTypes, Apart
<1>6. ASSUME NEW x \in Desks, Save(x)
      PROVE  TypeOK'
  BY <1>6, SaveTypes
<1>7. ASSUME NEW x \in Desks, Fail(x)
      PROVE  TypeOK'
  BY <1>7, FailTypes
<1>8. ASSUME NEW r \in Role, NEW p \in Role \cup {None}, CreateOnly(r, p)
      PROVE  TypeOK'
  BY <1>8, Apart DEF TypeOK, CreateOnly
<1>9. ASSUME NEW r \in Role, Delete(r)
      PROVE  TypeOK'
  BY <1>9, DeleteTypes
<1>10. CASE UNCHANGED vars
  BY <1>10 DEF TypeOK, vars
<1> QED BY <1>1, <1>2, <1>3, <1>4, <1>5, <1>6, <1>7, <1>8, <1>9, <1>10 DEF Next

LEMMA InitTypes ==
    ASSUME Init
    PROVE  TypeOK
<1>1. DefaultParent \in [Role -> BuiltIn \cup {None}]
  BY Apart DEF DefaultParent
<1>2. tx \in [Desks -> Request \cup {None}] /\ past \subseteq {"race", "offchart", "elders", "branch", "rosterless"}
  BY DEF Init
<1>3. CASE roles = BuiltIn /\ shown = BuiltIn /\ parent = DefaultParent
  BY <1>1, <1>2, <1>3, Apart DEF TypeOK
<1>4. CASE /\ \E made \in SUBSET Services : roles = BuiltIn \cup made
           /\ shown = {} /\ parent = [r \in Role |-> None]
  BY <1>2, <1>4, Apart DEF TypeOK
<1> QED BY <1>3, <1>4 DEF Init

\* The chart keeps to the schema, and no parent is a role that was deleted,
\* whatever requests overlap (Role in schema.prisma, ON DELETE RESTRICT).
THEOREM TypeCorrect == Spec => []TypeOK
<1>1. Init => TypeOK
  BY InitTypes
<1>2. TypeOK /\ [Next]_vars => TypeOK'
  BY TypeStep
<1> QED BY <1>1, <1>2, PTL DEF Spec


-----------------------------------------------------------------------------
\* A request that begins carries what the policy accepted.
LEMMA BeginAccepted ==
    ASSUME TypeOK, RequestsAccepted, NEW x \in Desks, NEW kind, NEW r, NEW p, NEW choice,
           Begin(x, kind, r, p, choice),
           kind # "adopt" => r \notin Appointed /\ (r = Elder => p = None)
    PROVE  RequestsAccepted'
<1> DEFINE q == [ kind |-> kind, role |-> r, to |-> p, choice |-> choice, stale |-> FALSE ]
<1>1. tx' = [tx EXCEPT ![x] = q]
  BY DEF Begin
<1>2. q.kind = kind /\ q.role = r /\ q.to = p
  OBVIOUS
<1> HIDE DEF q
<1> QED BY <1>1, <1>2 DEF RequestsAccepted, TypeOK

\* Marking the requests as outdated leaves what they carry.
LEMMA OutdatedAccepted ==
    ASSUME TypeOK, RequestsAccepted, NEW x, tx' = Outdated(x)
    PROVE  RequestsAccepted'
<1> SUFFICES ASSUME NEW y \in Desks, tx'[y] # None, tx'[y].kind # "adopt"
             PROVE  /\ tx'[y].role \notin Appointed
                    /\ tx'[y].role = Elder => tx'[y].to = None
  BY DEF RequestsAccepted
<1>1. tx[y] # None /\ tx[y] \in Request /\ tx'[y] = [tx[y] EXCEPT !.stale = TRUE]
  BY OutdatedTypes
<1>2. tx'[y].kind = tx[y].kind /\ tx'[y].role = tx[y].role /\ tx'[y].to = tx[y].to
  BY <1>1 DEF Request
<1> QED BY <1>1, <1>2 DEF RequestsAccepted

\* The tables of an operation that begins, is refused or fails are as they were.
LEMMA PlaceUntouched ==
    ASSUME ElderIsRoot, CommitteeStands, UNCHANGED <<shown, parent>>, past \subseteq past'
    PROVE  ElderIsRoot' /\ CommitteeStands'
BY DEF ElderIsRoot, CommitteeStands

\* Hanging or taking off a role that is not appointed: the committee moves only
\* when the elders leave, and then to the top.
LEMMA HangKeepsPlace ==
    ASSUME PlaceInv, NEW x \in Desks, tx[x] # None, tx[x].kind \notin {"remove", "adopt"}, Hang(tx[x]),
           past \subseteq past'
    PROVE  ElderIsRoot' /\ CommitteeStands'
<1> DEFINE q == tx[x]
<1>1. q \in Request /\ q.role \in Role
  BY RestingDesk DEF PlaceInv, Request
<1>2. q.role \notin Appointed /\ (q.role = Elder => q.to = None)
  BY DEF PlaceInv, RequestsAccepted
<1>3. parent' = [parent EXCEPT ![q.role] = q.to] /\ shown \subseteq shown'
      /\ shown' \subseteq shown \cup {q.role}
  BY DEF Hang
<1>4. parent \in [Role -> roles \cup {None}]
  BY DEF PlaceInv, TypeOK
<1> HIDE DEF q
<1>5. ElderIsRoot'
  BY <1>2, <1>3, <1>4, Apart DEF PlaceInv, ElderIsRoot
<1>6. CommitteeStands'
  BY <1>1, <1>2, <1>3, <1>4, Apart DEF PlaceInv, CommitteeStands
<1> QED BY <1>5, <1>6

LEMMA TakeOffKeepsPlace ==
    ASSUME PlaceInv, NEW x \in Desks, tx[x] # None, tx[x].kind = "remove", TakeOff(tx[x]),
           past \subseteq past'
    PROVE  ElderIsRoot' /\ CommitteeStands'
<1> DEFINE q == tx[x]
           lifted == Rehung(parent, [r \in {q.role} |-> q.to])
<1>1. q \in Request /\ q.role \in Role
  BY RestingDesk DEF PlaceInv, Request
<1>2. q.role \notin Appointed /\ (q.role = Elder => q.to = None)
  BY DEF PlaceInv, RequestsAccepted
<1>3. parent' = [lifted EXCEPT ![q.role] = None] /\ shown' = shown \ {q.role}
  BY DEF TakeOff
<1>4. \A r \in Role : lifted[r] = IF parent[r] = q.role THEN q.to ELSE parent[r]
  BY DEF Rehung
<1>5. DOMAIN lifted = Role
  BY DEF Rehung
<1> HIDE DEF q, lifted
<1>6. \A r \in Role : parent'[r] = IF r = q.role THEN None ELSE lifted[r]
  BY <1>3, <1>5
<1>7. ElderIsRoot'
  BY <1>1, <1>4, <1>6, Apart DEF PlaceInv, ElderIsRoot
<1>8. ASSUME Committee \in shown', "elders" \notin past'
      PROVE  parent'[Committee] \in {Elder, None}
  <2>1. parent[Committee] \in {Elder, None} /\ Committee # q.role
    BY <1>2, <1>3, <1>8, Apart DEF PlaceInv, CommitteeStands
  <2> QED BY <1>1, <1>2, <1>4, <1>6, <2>1, Apart
<1>9. ASSUME Committee \in shown', NEW post \in Posts
      PROVE  post \in shown' /\ parent'[post] = Committee
  <2>1. post \in shown /\ parent[post] = Committee /\ post # q.role /\ Committee # q.role
    BY <1>2, <1>3, <1>9, Apart DEF PlaceInv, CommitteeStands
  <2> QED BY <1>3, <1>4, <1>6, <2>1, Apart
<1> QED BY <1>7, <1>8, <1>9 DEF CommitteeStands

LEMMA SaveKeepsPlace ==
    ASSUME PlaceInv, NEW x \in Desks, Save(x)
    PROVE  ElderIsRoot' /\ CommitteeStands'
<1>1. tx[x] # None /\ MayWrite(tx[x]) /\ past' = past \cup Events(tx[x])
  BY DEF Save
<1>2. CASE tx[x].kind = "remove"
  <2>1. TakeOff(tx[x])
    BY <1>2 DEF Save
  <2> QED BY <1>1, <1>2, <2>1, TakeOffKeepsPlace
<1>3. CASE tx[x].kind = "adopt"
  <2>1. Adopt(tx[x])
    BY <1>3 DEF Save
  <2>2. tx[x] \in Request
    BY <1>1, RestingDesk DEF PlaceInv
  <2>3. \A a \in Appointed : tx[x].choice[a] \in roles \cup {None}
    BY <1>1 DEF MayWrite
  <2>4. /\ Appointed \subseteq shown'
        /\ \A post \in Posts : parent'[post] = Committee
        /\ Elder \notin Replaced(tx[x]) => parent'[Committee] = Elder
        /\ parent[Elder] = None => parent'[Elder] = None
    BY <2>1, <2>2, <2>3, Adoption DEF PlaceInv
  <2>5. "elders" \notin past' => Elder \notin Replaced(tx[x])
    BY <1>1, <1>3 DEF Events
  <2> QED BY <2>4, <2>5, Apart DEF PlaceInv, ElderIsRoot, CommitteeStands
<1>4. CASE tx[x].kind \notin {"remove", "adopt"}
  <2>1. Hang(tx[x])
    BY <1>4 DEF Save
  <2> QED BY <1>1, <1>4, <2>1, HangKeepsPlace
<1> QED BY <1>2, <1>3, <1>4

LEMMA DeleteKeepsPlace ==
    ASSUME PlaceInv, NEW r \in Role, Delete(r)
    PROVE  ElderIsRoot' /\ CommitteeStands'
<1>1. /\ r \in Services /\ shown' = shown \ {r} /\ parent' = [parent EXCEPT ![r] = None]
      /\ past' = past
  BY DEF Delete
<1>2. r \notin BuiltIn
  BY <1>1, Apart
<1> QED BY <1>1, <1>2, Apart DEF PlaceInv, TypeOK, ElderIsRoot, CommitteeStands


LEMMA PlaceStep ==
    ASSUME PlaceInv, [Next]_vars
    PROVE  PlaceInv'
<1>1. TypeOK'
  BY TypeStep DEF PlaceInv
<1>2. TypeOK /\ ElderIsRoot /\ RequestsAccepted /\ CommitteeStands
  BY DEF PlaceInv
<1>3. ASSUME NEW x \in Desks, NEW r \in Role, NEW p \in Role \cup {None}, NEW kind,
             Begin(x, kind, r, p, NoChoice), MayHang(r, p)
      PROVE  PlaceInv'
  <2>1. r \notin Appointed /\ (r = Elder => p = None)
    BY <1>3, Apart DEF MayHang
  <2>2. RequestsAccepted'
    BY <1>2, <1>3, <2>1, BeginAccepted
  <2>3. UNCHANGED <<shown, parent, past>>
    BY <1>3 DEF Begin
  <2> QED BY <1>1, <1>2, <2>2, <2>3, PlaceUntouched DEF PlaceInv
<1>4. ASSUME NEW x \in Desks, NEW r \in Role, NEW p \in Role \cup {None},
             BeginAdd(x, r, p) \/ BeginCreate(x, r, p) \/ BeginMove(x, r, p)
      PROVE  PlaceInv'
  BY <1>3, <1>4 DEF BeginAdd, BeginCreate, BeginMove
<1>5. ASSUME NEW x \in Desks, NEW r \in Role, BeginRemove(x, r)
      PROVE  PlaceInv'
  <2>1. r \notin Appointed /\ Begin(x, "remove", r, parent[r], NoChoice)
    BY <1>5 DEF BeginRemove
  <2>2. r = Elder => parent[r] = None
    BY <1>2 DEF ElderIsRoot
  <2>3. RequestsAccepted'
    BY <1>2, <2>1, <2>2, BeginAccepted
  <2>4. UNCHANGED <<shown, parent, past>>
    BY <2>1 DEF Begin
  <2> QED BY <1>1, <1>2, <2>3, <2>4, PlaceUntouched DEF PlaceInv
<1>6. ASSUME NEW x \in Desks, NEW choice \in Choice, BeginAdopt(x, choice)
      PROVE  PlaceInv'
  <2>1. Begin(x, "adopt", Committee, None, choice)
    BY <1>6 DEF BeginAdopt
  <2>2. RequestsAccepted'
    BY <1>2, <2>1, BeginAccepted
  <2>3. UNCHANGED <<shown, parent, past>>
    BY <2>1 DEF Begin
  <2> QED BY <1>1, <1>2, <2>2, <2>3, PlaceUntouched DEF PlaceInv
<1>7. ASSUME NEW x \in Desks, Save(x)
      PROVE  PlaceInv'
  <2>1. tx' = Outdated(x)
    BY <1>7 DEF Save
  <2>2. RequestsAccepted'
    BY <1>2, <2>1, OutdatedAccepted
  <2>3. ElderIsRoot' /\ CommitteeStands'
    BY <1>7, SaveKeepsPlace
  <2> QED BY <1>1, <2>2, <2>3 DEF PlaceInv
<1>8. ASSUME NEW x \in Desks, Fail(x)
      PROVE  PlaceInv'
  <2>1. tx' = [tx EXCEPT ![x] = None] /\ UNCHANGED <<shown, parent, past>>
    BY <1>8 DEF Fail
  <2>2. RequestsAccepted'
    BY <1>2, <2>1 DEF RequestsAccepted, TypeOK
  <2> QED BY <1>1, <1>2, <2>1, <2>2, PlaceUntouched DEF PlaceInv
<1>9. ASSUME NEW r \in Role, NEW p \in Role \cup {None}, CreateOnly(r, p)
      PROVE  PlaceInv'
  <2>1. UNCHANGED <<shown, parent, tx, past>>
    BY <1>9 DEF CreateOnly
  <2>2. RequestsAccepted'
    BY <1>2, <2>1 DEF RequestsAccepted
  <2> QED BY <1>1, <1>2, <2>1, <2>2, PlaceUntouched DEF PlaceInv
<1>10. ASSUME NEW r \in Role, Delete(r)
       PROVE  PlaceInv'
  <2>1. tx' = Outdated(None)
    BY <1>10 DEF Delete
  <2>2. RequestsAccepted'
    BY <1>2, <2>1, OutdatedAccepted
  <2>3. ElderIsRoot' /\ CommitteeStands'
    BY <1>10, DeleteKeepsPlace
  <2> QED BY <1>1, <2>2, <2>3 DEF PlaceInv
<1>11. CASE UNCHANGED vars
  <2>1. UNCHANGED <<shown, parent, tx, past>>
    BY <1>11 DEF vars
  <2>2. RequestsAccepted'
    BY <1>2, <2>1 DEF RequestsAccepted
  <2> QED BY <1>1, <1>2, <2>1, <2>2, PlaceUntouched DEF PlaceInv
<1> QED BY <1>4, <1>5, <1>6, <1>7, <1>8, <1>9, <1>10, <1>11 DEF Next

LEMMA InitPlace ==
    ASSUME Init
    PROVE  PlaceInv
<1>1. TypeOK
  BY InitTypes
<1>2. RequestsAccepted
  BY DEF Init, RequestsAccepted
<1>3. CASE shown = BuiltIn /\ parent = DefaultParent
  <2>1. parent[Elder] = None /\ parent[Committee] = Elder /\ \A post \in Posts : parent[post] = Committee
    BY <1>3, Apart DEF DefaultParent
  <2> QED BY <1>1, <1>2, <1>3, <2>1, Apart DEF PlaceInv, ElderIsRoot, CommitteeStands
<1>4. CASE shown = {} /\ parent = [r \in Role |-> None]
  BY <1>1, <1>2, <1>4, Apart DEF PlaceInv, ElderIsRoot, CommitteeStands
<1> QED BY <1>3, <1>4 DEF Init

\* The posts stay in the committee through every sequence and every overlap of
\* requests, whatever the adoption replaced, and the committee stays under the
\* elders or on top, unless it was adopted in the place of the elders
\* (assertCanLeaveOrganigram, assertCanSetParent, adoptServiceCommittee).
THEOREM CommitteeKeepsItsPlace == Spec => []CommitteeStands
<1>1. Init => PlaceInv
  BY InitPlace
<1>2. PlaceInv /\ [Next]_vars => PlaceInv'
  BY PlaceStep
<1>3. PlaceInv => CommitteeStands
  BY DEF PlaceInv
<1> QED BY <1>1, <1>2, <1>3, PTL DEF Spec


-----------------------------------------------------------------------------
\* What is moved was on the chart, and is, unless another request wrote since.
MovesAreShown ==
    \A x \in Desks : tx[x] # None /\ tx[x].kind = "move" /\ ~tx[x].stale => tx[x].role \in shown

FreeInv == TypeOK /\ MovesAreShown /\ OffChartIsFree

\* A write outdates every other request.
LEMMA OutdatedMoves ==
    ASSUME TypeOK, NEW x, tx' = Outdated(x)
    PROVE  MovesAreShown'
<1> SUFFICES ASSUME NEW y \in Desks, tx'[y] # None
             PROVE  tx'[y].stale
  BY DEF MovesAreShown
<1>1. tx[y] \in Request /\ tx'[y] = [tx[y] EXCEPT !.stale = TRUE]
  BY OutdatedTypes
<1> QED BY <1>1 DEF Request

LEMMA BeginMoves ==
    ASSUME TypeOK, MovesAreShown, NEW x \in Desks, NEW kind, NEW r, NEW p, NEW choice,
           Begin(x, kind, r, p, choice), kind = "move" => r \in shown
    PROVE  MovesAreShown'
<1> DEFINE q == [ kind |-> kind, role |-> r, to |-> p, choice |-> choice, stale |-> FALSE ]
<1>1. tx' = [tx EXCEPT ![x] = q] /\ shown' = shown
  BY DEF Begin
<1>2. q.kind = kind /\ q.role = r
  OBVIOUS
<1> HIDE DEF q
<1> QED BY <1>1, <1>2 DEF MovesAreShown, TypeOK

\* Each write, decided on what it changes, leaves nobody off the chart with a parent.
LEMMA SaveKeepsFree ==
    ASSUME FreeInv, NEW x \in Desks, Save(x)
    PROVE  OffChartIsFree'
<1> DEFINE q == tx[x]
<1>1. q # None /\ q \in Request /\ q.role \in Role
  BY RestingDesk DEF Save, FreeInv, Request
<1>2. past' = past \cup Events(q)
  BY DEF Save
<1>3. parent \in [Role -> roles \cup {None}]
  BY DEF FreeInv, TypeOK
<1> SUFFICES ASSUME "race" \notin past'
             PROVE  \A r \in Role \ shown' : parent'[r] = None
  BY DEF OffChartIsFree
<1>4. ~q.stale /\ "race" \notin past
  BY <1>2 DEF Events
<1>5. \A r \in Role \ shown : parent[r] = None
  BY <1>4 DEF FreeInv, OffChartIsFree
<1>6. CASE q.kind = "remove"
  <2> DEFINE lifted == Rehung(parent, [r \in {q.role} |-> q.to])
  <2>1. parent' = [lifted EXCEPT ![q.role] = None] /\ shown' = shown \ {q.role}
    BY <1>6 DEF Save, TakeOff
  <2>2. DOMAIN lifted = Role /\ \A r \in Role : parent[r] # q.role => lifted[r] = parent[r]
    BY DEF Rehung
  <2> HIDE DEF lifted, q
  <2> QED BY <1>1, <1>5, <2>1, <2>2, Apart
<1>7. CASE q.kind = "adopt"
  <2> DEFINE from == Replaced(q)
             heir == [r \in from |-> IF q.choice[Committee] = r THEN Committee
                                     ELSE CHOOSE a \in Posts : q.choice[a] = r]
             placed == [r \in Role |-> IF r = Committee THEN Elder
                                       ELSE IF r \in Posts THEN Committee ELSE parent[r]]
  <2>1. /\ shown' = (shown \cup Appointed) \ from
        /\ parent' = [r \in Role |-> IF r \in from THEN None ELSE Rehung(placed, heir)[r]]
    BY <1>7 DEF Save, Adopt
  <2>2. \A r \in Role : placed[r] = None => Rehung(placed, heir)[r] = None
    BY DEF Rehung, Replaced
  <2>3. \A r \in Role \ (shown \cup Appointed) : placed[r] = None
    BY <1>5, Apart
  <2> HIDE DEF from, heir, placed
  <2> QED BY <2>1, <2>2, <2>3
<1>8. CASE q.kind \notin {"remove", "adopt"}
  <2>1. Hang(q)
    BY <1>8 DEF Save
  <2>2. parent' = [parent EXCEPT ![q.role] = q.to] /\ shown \subseteq shown' /\ q.role \in shown'
    <3>1. CASE q.kind = "move"
      <4>1. q.role \in shown
        BY <1>1, <1>4, <3>1 DEF FreeInv, MovesAreShown
      <4> QED BY <2>1, <3>1, <4>1 DEF Hang
    <3>2. CASE q.kind # "move"
      BY <2>1, <3>2 DEF Hang
    <3> QED BY <3>1, <3>2
  <2> HIDE DEF q
  <2> QED BY <1>3, <1>5, <2>2
<1> QED BY <1>6, <1>7, <1>8

LEMMA FreeStep ==
    ASSUME FreeInv, [Next]_vars
    PROVE  FreeInv'
<1>1. TypeOK /\ MovesAreShown /\ OffChartIsFree /\ TypeOK'
  BY TypeStep DEF FreeInv
<1>2. ASSUME NEW x \in Desks, NEW r, NEW p, NEW kind, NEW choice,
             Begin(x, kind, r, p, choice), kind = "move" => r \in shown
      PROVE  FreeInv'
  <2>1. MovesAreShown'
    BY <1>1, <1>2, BeginMoves
  <2>2. OffChartIsFree'
    BY <1>1, <1>2 DEF Begin, OffChartIsFree
  <2> QED BY <1>1, <2>1, <2>2 DEF FreeInv
<1>3. ASSUME NEW x \in Desks, NEW r \in Role, NEW p \in Role \cup {None},
             BeginAdd(x, r, p) \/ BeginCreate(x, r, p) \/ BeginMove(x, r, p)
      PROVE  FreeInv'
  BY <1>2, <1>3 DEF BeginAdd, BeginCreate, BeginMove
<1>4. ASSUME NEW x \in Desks, NEW r \in Role, BeginRemove(x, r)
      PROVE  FreeInv'
  BY <1>2, <1>4 DEF BeginRemove
<1>5. ASSUME NEW x \in Desks, NEW choice \in Choice, BeginAdopt(x, choice)
      PROVE  FreeInv'
  BY <1>2, <1>5 DEF BeginAdopt
<1>6. ASSUME NEW x \in Desks, Save(x)
      PROVE  FreeInv'
  <2>1. tx' = Outdated(x)
    BY <1>6 DEF Save
  <2>2. MovesAreShown' /\ OffChartIsFree'
    BY <1>1, <1>6, <2>1, OutdatedMoves, SaveKeepsFree
  <2> QED BY <1>1, <2>2 DEF FreeInv
<1>7. ASSUME NEW x \in Desks, Fail(x)
      PROVE  FreeInv'
  <2>1. tx' = [tx EXCEPT ![x] = None] /\ UNCHANGED <<shown, parent, past>>
    BY <1>7 DEF Fail
  <2>2. MovesAreShown'
    BY <1>1, <2>1 DEF MovesAreShown, TypeOK
  <2> QED BY <1>1, <2>1, <2>2 DEF FreeInv, OffChartIsFree
<1>8. CASE UNCHANGED <<shown, parent, tx, past>>
  BY <1>1, <1>8 DEF FreeInv, MovesAreShown, OffChartIsFree
<1>9. ASSUME NEW r \in Role, Delete(r)
      PROVE  FreeInv'
  <2>1. shown' = shown \ {r} /\ parent' = [parent EXCEPT ![r] = None] /\ past' = past
        /\ tx' = Outdated(None)
    BY <1>9 DEF Delete
  <2>2. MovesAreShown'
    BY <1>1, <2>1, OutdatedMoves
  <2>3. OffChartIsFree'
    BY <1>1, <2>1 DEF OffChartIsFree, TypeOK
  <2> QED BY <1>1, <2>2, <2>3 DEF FreeInv
<1> QED BY <1>3, <1>4, <1>5, <1>6, <1>7, <1>8, <1>9 DEF Next, CreateOnly, vars

\* A role off the chart hangs under nobody as long as every write was decided on
\* the tree it changed (setOrganigramParent, removeRoleFromOrganigram).
THEOREM WhoIsOffHangsUnderNobody == Spec => []OffChartIsFree
<1>1. Init => FreeInv
  <2> SUFFICES ASSUME Init
               PROVE  FreeInv
    OBVIOUS
  <2>1. MovesAreShown
    BY DEF Init, MovesAreShown
  <2>2. CASE shown = BuiltIn /\ parent = DefaultParent
    <3>1. \A r \in Role \ BuiltIn : parent[r] = None
      BY <2>2, Apart DEF DefaultParent
    <3> QED BY <2>1, <2>2, <3>1, InitTypes DEF FreeInv, OffChartIsFree
  <2>3. CASE parent = [r \in Role |-> None]
    BY <2>1, <2>3, InitTypes DEF FreeInv, OffChartIsFree
  <2> QED BY <2>2, <2>3 DEF Init
<1>2. FreeInv /\ [Next]_vars => FreeInv'
  BY FreeStep
<1>3. FreeInv => OffChartIsFree
  BY DEF FreeInv
<1> QED BY <1>1, <1>2, <1>3, PTL DEF Spec

-----------------------------------------------------------------------------
(* Chains.  What Upwards computes stage by stage is the least set that     *)
(* holds r and, with each role that is shown, the role above it.  The rest *)
(* of the proofs knows chains by that alone.                               *)

\* The least-number principle, as a statement about sets.
LEMMA LeastNumber ==
    ASSUME NEW S \in SUBSET Nat, S # {}
    PROVE  \E m \in S : \A k \in S : m <= k
<1> DEFINE R == {ss \in Nat \X Nat : ss[1] < ss[2]}
<1>1. IsWellFoundedOn(R, Nat)
  BY NatLessThanWellFounded DEF OpToRel
<1>2. \A k, l \in Nat : k < l => <<k, l>> \in R
  OBVIOUS
<1> HIDE DEF R
<1>3. PICK m \in S : \A k \in S : ~ (<<k, m>> \in R)
  BY <1>1, WFMin
<1>4. \A k \in S : ~ (k < m)
  BY <1>2, <1>3
<1>5. \A k \in S : k \in Nat /\ m \in Nat
  OBVIOUS
<1>6. \A k \in S : m <= k
  BY <1>4, <1>5
<1> QED
  BY <1>6

\* One stage more: the roles above those that are shown.
Grown(S, stop) == S \cup ({parent[a] : a \in (S \cap shown) \ {stop}} \ {None})

AreStages(f, k, r, stop) ==
    f = [n \in 0..k |-> IF n = 0 THEN {r} \ {None} ELSE Grown(f[n - 1], stop)]

LEMMA StagesExist ==
    ASSUME NEW r, NEW stop, NEW k \in Nat
    PROVE  \E f : AreStages(f, k, r, stop)
<1> DEFINE bad == {j \in Nat : ~\E f : AreStages(f, j, r, stop)}
<1> SUFFICES ASSUME bad # {} PROVE FALSE
  OBVIOUS
<1>1. PICK m \in bad : \A j \in bad : m <= j
  BY LeastNumber
<1>2. CASE m = 0
  <2> DEFINE f == [n \in 0..0 |-> {r} \ {None}]
  <2>1. f = [n \in 0..m |-> IF n = 0 THEN {r} \ {None} ELSE Grown(f[n - 1], stop)]
    BY <1>2
  <2>2. AreStages(f, m, r, stop)
    BY <2>1 DEF AreStages
  <2> QED
    BY <1>1, <2>2
<1>3. CASE m # 0
  <2>1. m - 1 \in Nat /\ m - 1 \notin bad
    BY <1>1, <1>3
  <2>2. PICK f : AreStages(f, m - 1, r, stop)
    BY <2>1
  <2> DEFINE g == [n \in 0..m |-> IF n < m THEN f[n] ELSE Grown(f[m - 1], stop)]
  <2>3. \A n \in 0..(m - 1) : f[n] = IF n = 0 THEN {r} \ {None} ELSE Grown(f[n - 1], stop)
    BY <2>2 DEF AreStages
  <2>4. \A n \in 0..m : g[n] = IF n = 0 THEN {r} \ {None} ELSE Grown(g[n - 1], stop)
    <3> SUFFICES ASSUME NEW n \in 0..m
                 PROVE  g[n] = IF n = 0 THEN {r} \ {None} ELSE Grown(g[n - 1], stop)
      OBVIOUS
    <3>1. CASE n = 0
      BY <1>1, <1>3, <2>3, <3>1
    <3>2. CASE n # 0
      <4>1. n - 1 \in 0..m /\ n - 1 < m /\ g[n - 1] = f[n - 1]
        BY <1>1, <3>2
      <4>2. CASE n < m
        BY <1>1, <2>3, <3>2, <4>1, <4>2
      <4>3. CASE n = m
        BY <3>2, <4>1, <4>3
      <4> QED
        BY <1>1, <4>2, <4>3
    <3> QED
      BY <3>1, <3>2
  <2>5. g = [n \in 0..m |-> IF n = 0 THEN {r} \ {None} ELSE Grown(g[n - 1], stop)]
    <3>1. DOMAIN g = 0..m
      OBVIOUS
    <3>2. g = [n \in 0..m |-> g[n]]
      OBVIOUS
    <3> HIDE DEF g
    <3> QED
      BY <2>4, <3>2
  <2>6. AreStages(g, m, r, stop)
    BY <2>5 DEF AreStages
  <2> QED
    BY <1>1, <2>6
<1> QED
  BY <1>2, <1>3

\* The recursive function of Upwards is one of these.
LEMMA UpwardsStages ==
    ASSUME NEW r, NEW stop, Cardinality(Role) \in Nat
    PROVE  \E f : AreStages(f, Cardinality(Role), r, stop) /\ Upwards(r, stop) = f[Cardinality(Role)]
<1> DEFINE N == Cardinality(Role)
           up == CHOOSE f : AreStages(f, N, r, stop)
<1>1. Upwards(r, stop) =
        (CHOOSE reach : reach = [n \in 0..Cardinality(Role) |->
            IF n = 0 THEN {r} \ {None}
            ELSE LET below == reach[n - 1]
                 IN  below \cup ({parent[a] : a \in (below \cap shown) \ {stop}} \ {None})])[Cardinality(Role)]
  BY DEF Upwards
<1>2. Upwards(r, stop) = up[N]
  BY <1>1 DEF AreStages, Grown
<1>3. \E f : AreStages(f, N, r, stop)
  BY StagesExist
<1>4. AreStages(up, N, r, stop)
  BY <1>3
<1> QED
  BY <1>2, <1>4

\* A set that holds, with each of its roles that is shown, the role above it.
Closed(links, seen, stop, T) == \A a \in (T \cap seen) \ {stop} : links[a] # None => links[a] \in T

\* The roles above r: what every closed set that holds r holds.
Above(links, seen, r, stop) ==
    {b \in Role : \A T \in SUBSET Role : (r # None => r \in T) /\ Closed(links, seen, stop, T) => b \in T}

\* A stage keeps within every closed set that holds r, and holds r.
LEMMA StagesAreBelow ==
    ASSUME TypeOK, NEW r \in Role \cup {None}, NEW stop, NEW k \in Nat, NEW f, AreStages(f, k, r, stop)
    PROVE  /\ \A n \in 0..k : f[n] = IF n = 0 THEN {r} \ {None} ELSE Grown(f[n - 1], stop)
           /\ \A n \in 0..k : f[n] \subseteq Role /\ (r # None => r \in f[n])
           /\ \A T \in SUBSET Role : (r # None => r \in T) /\ Closed(parent, shown, stop, T) =>
                 \A n \in 0..k : f[n] \subseteq T
<1>1. \A n \in 0..k : f[n] = IF n = 0 THEN {r} \ {None} ELSE Grown(f[n - 1], stop)
  BY DEF AreStages
<1>2. ASSUME NEW T \in SUBSET Role, r # None => r \in T, Closed(parent, shown, stop, T)
      PROVE  \A n \in 0..k : f[n] \subseteq T /\ (r # None => r \in f[n])
  <2> DEFINE bad == {n \in 0..k : ~(f[n] \subseteq T /\ (r # None => r \in f[n]))}
  <2> SUFFICES ASSUME bad # {} PROVE FALSE
    OBVIOUS
  <2>1. bad \in SUBSET Nat
    OBVIOUS
  <2>2. PICK m \in bad : \A j \in bad : m <= j
    BY <2>1, LeastNumber
  <2>3. CASE m = 0
    BY <1>1, <1>2, <2>2, <2>3
  <2>4. CASE m # 0
    <3>1. m - 1 \in 0..k /\ m - 1 \notin bad
      BY <2>2, <2>4
    <3>2. f[m - 1] \subseteq T /\ (r # None => r \in f[m - 1])
      BY <3>1
    <3>3. f[m] = Grown(f[m - 1], stop)
      BY <1>1, <2>2, <2>4
    <3>4. f[m] \subseteq T /\ (r # None => r \in f[m])
      BY <1>2, <3>2, <3>3 DEF Grown, Closed
    <3> QED
      BY <2>2, <3>4
  <2> QED
    BY <2>3, <2>4
<1>3. Role \in SUBSET Role /\ Closed(parent, shown, stop, Role) /\ (r # None => r \in Role)
  BY DEF Closed, TypeOK
<1>4. \A n \in 0..k : f[n] \subseteq Role /\ (r # None => r \in f[n])
  BY <1>2, <1>3
<1>5. \A T \in SUBSET Role : (r # None => r \in T) /\ Closed(parent, shown, stop, T) =>
         \A n \in 0..k : f[n] \subseteq T
  BY <1>2
<1> QED
  BY <1>1, <1>4, <1>5

\* After as many stages as there are roles nothing is left to add.
LEMMA StagesSettle ==
    ASSUME TypeOK, NEW r \in Role \cup {None}, NEW stop, NEW N \in Nat, N = Cardinality(Role),
           NEW f, AreStages(f, N, r, stop)
    PROVE  Grown(f[N], stop) = f[N]
<1>1. /\ \A n \in 0..N : f[n] = IF n = 0 THEN {r} \ {None} ELSE Grown(f[n - 1], stop)
      /\ \A n \in 0..N : f[n] \subseteq Role
  <2>1. \A n \in 0..N : f[n] = IF n = 0 THEN {r} \ {None} ELSE Grown(f[n - 1], stop)
    BY DEF AreStages
  <2>2. \A n \in 0..N : f[n] \subseteq Role /\ (r # None => r \in f[n])
    BY StagesAreBelow
  <2> QED
    BY <2>1, <2>2
<1>2. IsFiniteSet(Role)
  BY OrganigramAssumption
<1>3. \A n \in 0..N : IsFiniteSet(f[n]) /\ Cardinality(f[n]) \in Nat
  BY <1>1, <1>2, FS_Subset, FS_CardinalityType
<1>4. ASSUME NEW n \in 0..N, Grown(f[n], stop) = f[n]
      PROVE  Grown(f[N], stop) = f[N]
  <2> DEFINE bad == {m \in n..N : f[m] # f[n]}
  <2>1. ASSUME bad # {} PROVE FALSE
    <3>1. PICK m \in bad : \A j \in bad : m <= j
      <4>1. bad \in SUBSET Nat
        OBVIOUS
      <4> QED
        BY <2>1, <4>1, LeastNumber
    <3>2. m # n /\ m - 1 \in n..N /\ m - 1 \notin bad
      BY <3>1
    <3>3. f[m - 1] = f[n] /\ f[m] = Grown(f[m - 1], stop)
      BY <1>1, <3>1, <3>2
    <3> QED
      BY <1>4, <3>1, <3>3
  <2>2. f[N] = f[n]
    BY <2>1
  <2> QED
    BY <1>4, <2>2
<1>5. SUFFICES ASSUME \A n \in 0..N : Grown(f[n], stop) # f[n]
               PROVE  Grown(f[N], stop) = f[N]
  BY <1>4
<1>6. \A n \in 0..N : Cardinality(f[n]) >= n
  <2> DEFINE bad == {n \in 0..N : ~(Cardinality(f[n]) >= n)}
  <2> SUFFICES ASSUME bad # {} PROVE FALSE
    OBVIOUS
  <2>1. PICK m \in bad : \A j \in bad : m <= j
    <3>1. bad \in SUBSET Nat
      OBVIOUS
    <3> QED
      BY <3>1, LeastNumber
  <2>2. m # 0 /\ m - 1 \in 0..N /\ m - 1 \notin bad
    BY <1>3, <2>1
  <2>3. f[m] = Grown(f[m - 1], stop) /\ Grown(f[m - 1], stop) # f[m - 1]
    BY <1>1, <1>5, <2>1, <2>2
  <2>4. f[m - 1] \in SUBSET f[m] /\ f[m - 1] # f[m]
    BY <2>3 DEF Grown
  <2>5. Cardinality(f[m - 1]) <= Cardinality(f[m]) /\ Cardinality(f[m - 1]) # Cardinality(f[m])
    BY <1>3, <2>1, <2>4, FS_Subset
  <2>6. Cardinality(f[m - 1]) >= m - 1
    BY <2>2
  <2> QED
    BY <1>3, <2>1, <2>2, <2>5, <2>6
<1>7. f[N] = Role
  <2>1. f[N] \in SUBSET Role /\ Cardinality(f[N]) <= Cardinality(Role) /\ Cardinality(f[N]) >= N
        /\ Cardinality(f[N]) \in Nat
    BY <1>1, <1>2, <1>3, <1>6, FS_Subset
  <2>2. Cardinality(f[N]) = Cardinality(Role)
    BY <2>1
  <2> QED
    BY <1>2, <2>1, <2>2, FS_Subset
<1> QED
  BY <1>7 DEF Grown, TypeOK

\* What Upwards computes is the least closed set.
LEMMA UpwardsIsLeast ==
    TypeOK => \A r \in Role \cup {None}, stop \in Role \cup {None} :
                  Upwards(r, stop) = Above(parent, shown, r, stop)
<1> SUFFICES ASSUME TypeOK, NEW r \in Role \cup {None}, NEW stop \in Role \cup {None}
             PROVE  Upwards(r, stop) = Above(parent, shown, r, stop)
  OBVIOUS
<1> DEFINE N == Cardinality(Role)
<1>1. N \in Nat
  BY OrganigramAssumption, FS_CardinalityType
<1>2. PICK f : AreStages(f, N, r, stop) /\ Upwards(r, stop) = f[N]
  BY <1>1, UpwardsStages
<1>3. /\ f[N] \subseteq Role /\ (r # None => r \in f[N])
      /\ \A T \in SUBSET Role : (r # None => r \in T) /\ Closed(parent, shown, stop, T) => f[N] \subseteq T
  <2>1. N \in 0..N
    BY <1>1
  <2> HIDE DEF N
  <2> QED
    BY <1>1, <1>2, <2>1, StagesAreBelow
<1>4. Grown(f[N], stop) = f[N]
  BY <1>1, <1>2, StagesSettle
<1>5. Closed(parent, shown, stop, f[N])
  BY <1>4 DEF Grown, Closed
<1> HIDE DEF N
<1> QED
  BY <1>2, <1>3, <1>5 DEF Above

\* And so in the next state.
LEMMA UpwardsIsLeastAfter ==
    TypeOK' => \A r \in Role \cup {None}, stop \in Role \cup {None} :
                  Upwards(r, stop)' = Above(parent', shown', r, stop)
<1>1. TypeOK => \A r \in Role \cup {None}, stop \in Role \cup {None} :
                  Upwards(r, stop) = Above(parent, shown, r, stop)
  BY UpwardsIsLeast
<1>2. (TypeOK => \A r \in Role \cup {None}, stop \in Role \cup {None} :
                  Upwards(r, stop) = Above(parent, shown, r, stop))'
  BY <1>1, PTL
<1> QED
  BY <1>2 DEF Above, Closed

\* What is above r holds r, is closed, and is in every closed set that holds r.
LEMMA AboveIsLeast ==
    ASSUME NEW links \in [Role -> Role \cup {None}], NEW seen, NEW r \in Role \cup {None}, NEW stop
    PROVE  /\ Above(links, seen, r, stop) \in SUBSET Role
           /\ r # None => r \in Above(links, seen, r, stop)
           /\ Closed(links, seen, stop, Above(links, seen, r, stop))
           /\ \A T \in SUBSET Role : (r # None => r \in T) /\ Closed(links, seen, stop, T) =>
                 Above(links, seen, r, stop) \subseteq T
<1>1. None \notin Role
  BY OrganigramAssumption
<1> QED
  BY <1>1 DEF Above, Closed

\* Nothing is above nobody.
LEMMA NothingAboveNone ==
    ASSUME NEW links, NEW seen, NEW stop
    PROVE  Above(links, seen, None, stop) = {}
<1>1. {} \in SUBSET Role /\ Closed(links, seen, stop, {})
  BY DEF Closed
<1> QED
  BY <1>1 DEF Above

\* Who is above the one above r is above r.
LEMMA AboveIsTransitive ==
    ASSUME NEW links \in [Role -> Role \cup {None}], NEW seen, NEW r \in Role \cup {None}, NEW stop,
           NEW b \in Above(links, seen, r, stop)
    PROVE  Above(links, seen, b, stop) \subseteq Above(links, seen, r, stop)
<1> DEFINE T == Above(links, seen, r, stop)
<1>1. T \in SUBSET Role /\ Closed(links, seen, stop, T) /\ b \in T
  BY AboveIsLeast
<1>2. b \in Role \cup {None}
  BY <1>1
<1> HIDE DEF T
<1>3. Above(links, seen, b, stop) \subseteq T
  BY <1>1, <1>2, AboveIsLeast
<1> QED
  BY <1>3 DEF T

\* One link up: r itself, and what is above its parent.
LEMMA AboveByOne ==
    ASSUME NEW links \in [Role -> Role \cup {None}], NEW seen, NEW r \in Role, NEW stop
    PROVE  /\ r \in seen /\ r # stop =>
                 Above(links, seen, r, stop) = {r} \cup Above(links, seen, links[r], stop)
           /\ r \notin seen \/ r = stop => Above(links, seen, r, stop) = {r}
<1>0. None \notin Role
  BY OrganigramAssumption
<1>1. ASSUME r \in seen, r # stop
      PROVE  Above(links, seen, r, stop) = {r} \cup Above(links, seen, links[r], stop)
  <2> DEFINE U == Above(links, seen, r, stop)
             V == Above(links, seen, links[r], stop)
  <2>1. U \in SUBSET Role /\ r \in U /\ Closed(links, seen, stop, U)
    BY <1>0, AboveIsLeast
  <2>2. links[r] \in Role \cup {None}
    OBVIOUS
  <2>3. /\ V \in SUBSET Role /\ (links[r] # None => links[r] \in V) /\ Closed(links, seen, stop, V)
        /\ \A T \in SUBSET Role : (links[r] # None => links[r] \in T) /\ Closed(links, seen, stop, T) =>
               V \subseteq T
    BY <2>2, AboveIsLeast
  <2>4. links[r] # None => links[r] \in U
    BY <1>1, <2>1 DEF Closed
  <2>5. V \subseteq U
    BY <2>1, <2>3, <2>4
  <2>6. Closed(links, seen, stop, {r} \cup V)
    BY <2>3 DEF Closed
  <2>7. U \subseteq {r} \cup V
    <3> HIDE DEF V
    <3>1. {r} \cup V \in SUBSET Role
      BY <2>3
    <3> QED
      BY <2>6, <3>1, AboveIsLeast
  <2> HIDE DEF U, V
  <2>8. U = {r} \cup V
    BY <2>1, <2>5, <2>7
  <2> QED
    BY <2>8 DEF U, V
<1>2. ASSUME r \notin seen \/ r = stop
      PROVE  Above(links, seen, r, stop) = {r}
  <2>1. Closed(links, seen, stop, {r}) /\ {r} \in SUBSET Role
    BY <1>2 DEF Closed
  <2> QED
    BY <1>0, <2>1, AboveIsLeast
<1> QED
  BY <1>1, <1>2

\* Two charts that agree on what is above r in one of them have the same above r.
LEMMA SameAbove ==
    ASSUME NEW links \in [Role -> Role \cup {None}], NEW after \in [Role -> Role \cup {None}],
           NEW seen, NEW left, NEW r \in Role \cup {None}, NEW stop,
           \A a \in Above(links, seen, r, stop) :
               /\ a \in seen <=> a \in left
               /\ a \in seen => after[a] = links[a]
    PROVE  Above(after, left, r, stop) = Above(links, seen, r, stop)
<1> DEFINE U == Above(links, seen, r, stop)
           V == Above(after, left, r, stop)
<1>1. /\ U \in SUBSET Role /\ (r # None => r \in U) /\ Closed(links, seen, stop, U)
      /\ \A T \in SUBSET Role : (r # None => r \in T) /\ Closed(links, seen, stop, T) => U \subseteq T
  BY AboveIsLeast
<1>2. /\ V \in SUBSET Role /\ (r # None => r \in V) /\ Closed(after, left, stop, V)
      /\ \A T \in SUBSET Role : (r # None => r \in T) /\ Closed(after, left, stop, T) => V \subseteq T
  BY AboveIsLeast
<1> HIDE DEF U, V
<1>3. \A a \in U : (a \in seen <=> a \in left) /\ (a \in seen => after[a] = links[a])
  BY DEF U
<1>4. V \subseteq U
  BY <1>1, <1>2, <1>3 DEF Closed
<1>5. U \subseteq V
  BY <1>1, <1>2, <1>3, <1>4 DEF Closed
<1>6. U = V
  BY <1>4, <1>5
<1> QED
  BY <1>6 DEF U, V

-----------------------------------------------------------------------------
(* The three kinds of writes, on links and seats of their own.             *)

\* r is hung under p, which is not below it.
Hung(links, after, seen, left, r, p) ==
    /\ links \in [Role -> Role \cup {None}] /\ after \in [Role -> Role \cup {None}]
    /\ r \in Role /\ p \in Role \cup {None}
    /\ r \notin Above(links, seen, p, None) /\ after[r] = p /\ r \in left
    /\ \A a \in Role : a # r => after[a] = links[a] /\ (a \in seen <=> a \in left)

\* What was above p stays above it; who had r above has what was below r, and p's.
LEMMA HungAbove ==
    ASSUME NEW links, NEW after, NEW seen, NEW left, NEW r, NEW p,
           Hung(links, after, seen, left, r, p)
    PROVE  /\ Above(after, left, p, None) = Above(links, seen, p, None)
           /\ Above(after, left, r, None) = {r} \cup Above(links, seen, p, None)
           /\ \A a \in Role \cup {None} :
                 /\ r \in Above(after, left, a, None) <=> r \in Above(links, seen, a, None)
                 /\ r \notin Above(links, seen, a, None) =>
                       Above(after, left, a, None) = Above(links, seen, a, None)
                 /\ r \in Above(links, seen, a, None) =>
                       /\ r \in Above(links, seen, a, r)
                       /\ Above(after, left, a, None) \subseteq
                              Above(links, seen, a, r) \cup Above(links, seen, p, None)
<1> DEFINE P == Above(links, seen, p, None)
<1>0. None \notin Role
  BY OrganigramAssumption
<1> USE DEF Hung
<1>1. P \in SUBSET Role /\ (p # None => p \in P) /\ Closed(links, seen, None, P) /\ r \notin P
  BY AboveIsLeast
<1>2. ASSUME NEW a \in Role \cup {None}, r \notin Above(links, seen, a, None)
      PROVE  Above(after, left, a, None) = Above(links, seen, a, None)
  <2>1. Above(links, seen, a, None) \in SUBSET Role
    BY AboveIsLeast
  <2>2. \A b \in Above(links, seen, a, None) :
            /\ b \in seen <=> b \in left
            /\ b \in seen => after[b] = links[b]
    BY <1>2, <2>1
  <2> QED
    BY <2>2, SameAbove
<1>3. ASSUME NEW a \in Role \cup {None}, r \notin Above(after, left, a, None)
      PROVE  Above(after, left, a, None) = Above(links, seen, a, None)
  <2>1. Above(after, left, a, None) \in SUBSET Role
    BY AboveIsLeast
  <2>2. \A b \in Above(after, left, a, None) :
            /\ b \in left <=> b \in seen
            /\ b \in left => links[b] = after[b]
    BY <1>3, <2>1
  <2> QED
    BY <2>2, SameAbove
<1>4. Above(after, left, p, None) = P
  BY <1>1, <1>2
<1>5. Above(after, left, r, None) = {r} \cup P
  <2>1. r # None
    BY <1>0
  <2> HIDE DEF P
  <2> QED
    BY <1>4, <2>1, AboveByOne
<1>6. ASSUME NEW a \in Role \cup {None}, r \in Above(links, seen, a, None)
      PROVE  /\ r \in Above(links, seen, a, r)
             /\ Above(after, left, a, None) \subseteq Above(links, seen, a, r) \cup P
  <2> DEFINE V == Above(links, seen, a, r)
             T == V \cup P
  <2>1. V \in SUBSET Role /\ (a # None => a \in V) /\ Closed(links, seen, r, V)
    BY AboveIsLeast
  <2> HIDE DEF P, V
  <2>2. T \in SUBSET Role /\ (a # None => a \in T)
    BY <1>1, <2>1
  <2>3. Closed(after, left, None, T)
    <3> SUFFICES ASSUME NEW b \in (T \cap left) \ {None}, after[b] # None
                 PROVE  after[b] \in T
      BY DEF Closed
    <3>1. CASE b = r
      BY <1>1, <3>1
    <3>2. CASE b # r
      <4>1. b \in Role
        BY <2>2
      <4>2. b \in seen /\ after[b] = links[b]
        BY <3>2, <4>1
      <4> QED
        BY <1>0, <1>1, <2>1, <3>2, <4>1, <4>2 DEF Closed
    <3> QED
      BY <3>1, <3>2
  <2>4. Above(after, left, a, None) \subseteq T
    BY <2>2, <2>3, AboveIsLeast
  <2>5. r \in Above(after, left, a, None)
    BY <1>3, <1>6
  <2>6. r \in V
    BY <1>1, <2>4, <2>5
  <2> QED
    BY <2>4, <2>6 DEF V
<1>7. \A a \in Role \cup {None} :
          r \in Above(after, left, a, None) <=> r \in Above(links, seen, a, None)
  BY <1>2, <1>3
<1> QED
  BY <1>2, <1>4, <1>5, <1>6, <1>7

\* r is taken off, and what hangs under it goes to its parent.
LEMMA TakenAbove ==
    ASSUME NEW links \in [Role -> Role \cup {None}], NEW after \in [Role -> Role \cup {None}],
           NEW seen, NEW left, NEW r \in Role, links[r] # r, r \notin seen => links[r] = None,
           left = seen \ {r},
           \A a \in Role : a # r => after[a] = IF links[a] = r THEN links[r] ELSE links[a],
           NEW a \in Role \cup {None}, a # r
    PROVE  Above(after, left, a, None) = Above(links, seen, a, None) \ {r}
<1> DEFINE U == Above(links, seen, a, None)
           V == Above(after, left, a, None)
<1>0. None \notin Role
  BY OrganigramAssumption
<1>1. /\ U \in SUBSET Role /\ (a # None => a \in U) /\ Closed(links, seen, None, U)
      /\ \A T \in SUBSET Role : (a # None => a \in T) /\ Closed(links, seen, None, T) => U \subseteq T
  BY AboveIsLeast
<1>2. /\ V \in SUBSET Role /\ (a # None => a \in V) /\ Closed(after, left, None, V)
      /\ \A T \in SUBSET Role : (a # None => a \in T) /\ Closed(after, left, None, T) => V \subseteq T
  BY AboveIsLeast
<1> HIDE DEF U, V
<1>3. Closed(after, left, None, U \ {r})
  <2> SUFFICES ASSUME NEW b \in ((U \ {r}) \cap left) \ {None}, after[b] # None
               PROVE  after[b] \in U \ {r}
    BY DEF Closed
  <2>1. b \in Role /\ b \in U /\ b \in seen /\ b # r
    BY <1>1
  <2>2. links[b] # None => links[b] \in U
    BY <1>0, <1>1, <2>1 DEF Closed
  <2>3. CASE links[b] = r
    <3>1. after[b] = links[r] /\ r \in seen /\ r \in U
      BY <1>0, <2>1, <2>2, <2>3
    <3>2. links[r] \in U
      BY <1>0, <1>1, <3>1 DEF Closed
    <3> QED
      BY <3>1, <3>2
  <2>4. CASE links[b] # r
    BY <2>1, <2>2, <2>4
  <2> QED
    BY <2>3, <2>4
<1>4. V \subseteq U \ {r}
  BY <1>1, <1>2, <1>3
<1>5. ASSUME NEW b \in V, b \in seen, links[b] # None, links[b] # r
      PROVE  links[b] \in V
  <2>1. b \in Role /\ b # r /\ b \in left /\ b # None
    BY <1>0, <1>2, <1>4, <1>5
  <2>2. after[b] = links[b]
    BY <1>5, <2>1
  <2> QED
    BY <1>2, <1>5, <2>1, <2>2 DEF Closed
<1>6. ASSUME NEW b \in V, b \in seen, links[b] = r
      PROVE  links[r] # None => links[r] \in V
  <2>1. b \in Role /\ b # r /\ b \in left /\ b # None
    BY <1>0, <1>2, <1>4, <1>6
  <2>2. after[b] = links[r]
    BY <1>6, <2>1
  <2> QED
    BY <1>2, <2>1, <2>2 DEF Closed
<1>7. U \subseteq V \cup {r}
  <2>1. CASE \E b \in V : b \in seen /\ links[b] = r
    <3>1. links[r] # None => links[r] \in V
      BY <1>6, <2>1
    <3>2. Closed(links, seen, None, V \cup {r})
      BY <1>5, <3>1 DEF Closed
    <3>3. V \cup {r} \in SUBSET Role /\ (a # None => a \in V \cup {r})
      BY <1>2
    <3> QED
      BY <1>1, <3>2, <3>3
  <2>2. CASE ~\E b \in V : b \in seen /\ links[b] = r
    <3>1. Closed(links, seen, None, V)
      BY <1>5, <2>2 DEF Closed
    <3> QED
      BY <1>1, <1>2, <3>1
  <2> QED
    BY <2>1, <2>2
<1>8. V = U \ {r}
  BY <1>4, <1>7
<1> QED
  BY <1>8 DEF U, V

\* An adoption: whoever is outside K and not removed keeps its link or goes to K.
LEMMA AdoptedAbove ==
    ASSUME NEW links \in [Role -> Role \cup {None}], NEW after \in [Role -> Role \cup {None}],
           NEW seen, NEW left, NEW K \in SUBSET Role, left \subseteq seen \cup K,
           Closed(after, left, None, K),
           \A a \in Role : a \notin K /\ a \in left => after[a] \in {None, links[a]} \cup K,
           NEW b \in Role \cup {None}
    PROVE  Above(after, left, b, None) \subseteq Above(links, seen, b, None) \cup K
<1> DEFINE U == Above(links, seen, b, None)
<1>0. None \notin Role
  BY OrganigramAssumption
<1>1. U \in SUBSET Role /\ (b # None => b \in U) /\ Closed(links, seen, None, U)
  BY AboveIsLeast
<1> HIDE DEF U
<1>2. U \cup K \in SUBSET Role /\ (b # None => b \in U \cup K)
  BY <1>1
<1>3. Closed(after, left, None, U \cup K)
  <2> SUFFICES ASSUME NEW a \in ((U \cup K) \cap left) \ {None}, after[a] # None
               PROVE  after[a] \in U \cup K
    BY DEF Closed
  <2>1. CASE a \in K
    BY <2>1 DEF Closed
  <2>2. CASE a \notin K
    <3>1. a \in U /\ a \in seen /\ a \in Role
      BY <1>1, <2>2
    <3>2. links[a] # None => links[a] \in U
      BY <1>1, <3>1 DEF Closed
    <3> QED
      BY <2>2, <3>1, <3>2
  <2> QED
    BY <2>1, <2>2
<1>4. Above(after, left, b, None) \subseteq U \cup K
  BY <1>2, <1>3, AboveIsLeast
<1> QED
  BY <1>4 DEF U

-----------------------------------------------------------------------------
(* The writes of the desks.                                                *)

\* A chain is what is above a role on the chart as it is.
LEMMA ChainsAreAbove ==
    ASSUME TypeOK
    PROVE  /\ parent \in [Role -> Role \cup {None}]
           /\ \A r \in Role \cup {None} : Chain(r) = Above(parent, shown, r, None)
           /\ \A r \in Role \cup {None}, stop \in Role \cup {None} :
                 Upwards(r, stop) = Above(parent, shown, r, stop)
<1>1. \A r \in Role \cup {None}, stop \in Role \cup {None} :
                 Upwards(r, stop) = Above(parent, shown, r, stop)
  BY UpwardsIsLeast
<1>2. parent \in [Role -> Role \cup {None}]
  BY DEF TypeOK
<1> QED
  BY <1>1, <1>2 DEF Chain

LEMMA ChainsAreAboveAfter ==
    ASSUME TypeOK'
    PROVE  /\ parent' \in [Role -> Role \cup {None}]
           /\ \A r \in Role \cup {None} : Chain(r)' = Above(parent', shown', r, None)
<1>1. \A r \in Role \cup {None}, stop \in Role \cup {None} :
                 Upwards(r, stop)' = Above(parent', shown', r, stop)
  BY UpwardsIsLeastAfter
<1>2. parent' \in [Role -> Role \cup {None}]
  BY DEF TypeOK
<1> QED
  BY <1>1, <1>2 DEF Chain

\* Who may hang where, as the policy decides it now.
Hangable == {h \in Role \X (Role \cup {None}) : MayHang(h[1], h[2])}

\* What a request was decided on still holds as long as nobody wrote since.
StillRight ==
    \A x \in Desks : tx[x] # None /\ ~tx[x].stale =>
        /\ tx[x].kind \in {"add", "create", "move"} => <<tx[x].role, tx[x].to>> \in Hangable
        /\ tx[x].kind = "remove" =>
              /\ tx[x].role \in roles \ Appointed /\ tx[x].to = parent[tx[x].role]
              /\ tx[x].choice = NoChoice
        /\ tx[x].kind = "adopt" => Committee \notin shown

\* A role that the policy lets move is not above itself, whoever was replaced.
NoServiceCycle == "race" \notin past => \A r \in shown \ Appointed : r \notin Chain(parent[r])

ChartInv == PlaceInv /\ FreeInv /\ StillRight /\ NoServiceCycle

\* Who hangs a role changes its link and nobody else's.
LEMMA HangShape ==
    ASSUME TypeOK, MovesAreShown, NEW x \in Desks, tx[x] # None, ~tx[x].stale,
           tx[x].kind \notin {"remove", "adopt"}, Hang(tx[x])
    PROVE  /\ tx[x].role \in Role /\ tx[x].to \in Role \cup {None}
           /\ tx[x].kind \in {"add", "create", "move"}
           /\ roles' = roles \cup {tx[x].role}
           /\ parent'[tx[x].role] = tx[x].to /\ tx[x].role \in shown'
           /\ \A a \in Role : a # tx[x].role =>
                 parent'[a] = parent[a] /\ (a \in shown <=> a \in shown')
<1> DEFINE q == tx[x]
<1>1. q \in Request /\ q.role \in Role /\ q.to \in Role \cup {None} /\ q.kind \in {"add", "create", "move"}
  BY RestingDesk DEF Request
<1>2. q.kind = "move" => q.role \in shown
  BY DEF MovesAreShown
<1>3. /\ roles' = roles \cup {q.role}
      /\ shown' = IF q.kind = "move" THEN shown ELSE shown \cup {q.role}
      /\ parent' = [parent EXCEPT ![q.role] = q.to]
  BY DEF Hang
<1>4. DOMAIN parent = Role
  BY DEF TypeOK
<1> HIDE DEF q
<1>5. parent'[q.role] = q.to /\ \A a \in Role : a # q.role => parent'[a] = parent[a]
  BY <1>1, <1>3, <1>4
<1>6. q.role \in shown' /\ \A a \in Role : a # q.role => (a \in shown <=> a \in shown')
  BY <1>2, <1>3
<1> QED
  BY <1>1, <1>3, <1>5, <1>6 DEF q

\* Who takes a role off the chart lifts its children to its parent.
LEMMA TakeOffShape ==
    ASSUME TypeOK, OffChartIsFree, NoServiceCycle, "race" \notin past, StillRight,
           NEW x \in Desks, tx[x] # None, ~tx[x].stale, tx[x].kind = "remove", TakeOff(tx[x])
    PROVE  /\ tx[x].role \in Role /\ tx[x].role \in roles /\ tx[x].role \notin Appointed
           /\ tx[x].to = parent[tx[x].role] /\ parent[tx[x].role] # tx[x].role
           /\ tx[x].role \notin shown => parent[tx[x].role] = None
           /\ roles' = roles /\ shown' = shown \ {tx[x].role}
           /\ parent'[tx[x].role] = None
           /\ \A a \in Role : a # tx[x].role =>
                 parent'[a] = IF parent[a] = tx[x].role THEN parent[tx[x].role] ELSE parent[a]
<1> DEFINE q == tx[x]
           lifted == Rehung(parent, [r \in {q.role} |-> q.to])
<1>1. q.role \in roles \ Appointed /\ q.to = parent[q.role]
  BY DEF StillRight
<1>2. q.role \in Role
  BY <1>1 DEF TypeOK
<1>3. q.role \notin shown => parent[q.role] = None
  BY <1>2 DEF OffChartIsFree
<1>4. parent[q.role] # q.role
  <2>1. CASE q.role \in shown
    <3>1. q.role \notin Chain(parent[q.role])
      BY <1>1, <2>1 DEF NoServiceCycle
    <3>2. q.role # None /\ (q.role \in Role \cup {None})
      BY <1>2, OrganigramAssumption
    <3>3. q.role \in Chain(q.role)
      <4>1. Chain(q.role) = Above(parent, shown, q.role, None) /\ parent \in [Role -> Role \cup {None}]
        BY <3>2, ChainsAreAbove
      <4> HIDE DEF q
      <4> QED
        BY <3>2, <4>1, AboveIsLeast
    <3> QED
      BY <3>1, <3>3
  <2>2. CASE q.role \notin shown
    BY <1>2, <1>3, <2>2, OrganigramAssumption
  <2> QED
    BY <2>1, <2>2
<1>5. roles' = roles /\ shown' = shown \ {q.role} /\ parent' = [lifted EXCEPT ![q.role] = None]
  BY DEF TakeOff
<1>6. DOMAIN lifted = Role /\ \A r \in Role : lifted[r] = IF parent[r] = q.role THEN q.to ELSE parent[r]
  BY DEF Rehung
<1> HIDE DEF lifted, q
<1>7. parent'[q.role] = None /\ \A r \in Role : r # q.role => parent'[r] = lifted[r]
  BY <1>2, <1>5, <1>6
<1>8. \A r \in Role : r # q.role =>
          parent'[r] = IF parent[r] = q.role THEN parent[q.role] ELSE parent[r]
  BY <1>1, <1>6, <1>7
<1> QED
  BY <1>1, <1>2, <1>3, <1>4, <1>5, <1>7, <1>8 DEF q

\* An adoption puts what is appointed in its place; who hung under a role that
\* was replaced goes to what is appointed, and nobody else moves.
LEMMA AdoptShape ==
    ASSUME TypeOK, ElderIsRoot,
           NEW x \in Desks, tx[x] # None, MayWrite(tx[x]), tx[x].kind = "adopt", Adopt(tx[x])
    PROVE  \E from \in SUBSET Role :
              /\ from = Replaced(tx[x]) /\ from \cap Appointed = {}
              /\ roles' = roles /\ shown' = (shown \cup Appointed) \ from
              /\ parent'[Elder] = None
              /\ parent'[Committee] \in {Elder} \cup Appointed
              /\ Elder \notin from => parent'[Committee] = Elder
              /\ \A post \in Posts : parent'[post] = Committee
              /\ \A a \in from : parent'[a] = None
              /\ \A a \in (Role \ Appointed) \ from :
                    /\ parent[a] \notin from => parent'[a] = parent[a]
                    /\ parent[a] \in from => parent'[a] \in Appointed
<1> DEFINE q == tx[x]
           from == Replaced(q)
           heir == [r \in from |-> IF q.choice[Committee] = r THEN Committee
                                   ELSE CHOOSE a \in Posts : q.choice[a] = r]
           placed == [r \in Role |-> IF r = Committee THEN Elder
                                     ELSE IF r \in Posts THEN Committee ELSE parent[r]]
<1>1. q \in Request
  BY RestingDesk
<1>2. from \subseteq Sources /\ None \notin from
  BY <1>1, ChoicesNameSources DEF Request, Replaced
<1>3. from \in SUBSET Role /\ from \cap Appointed = {} /\ Committee \notin from /\ Posts \cap from = {}
  BY <1>2, Apart
<1>4. \A r \in from : heir[r] \in Appointed
  <2> SUFFICES ASSUME NEW r \in from
               PROVE  heir[r] \in Appointed
    OBVIOUS
  <2>1. CASE q.choice[Committee] = r
    BY <2>1, Apart
  <2>2. CASE q.choice[Committee] # r
    <3>1. \E a \in Posts : q.choice[a] = r
      BY <2>2 DEF Appointed, Replaced
    <3> QED BY <2>2, <3>1, Apart
  <2> QED BY <2>1, <2>2
<1>5. /\ roles' = roles /\ shown' = (shown \cup Appointed) \ from
      /\ parent' = [r \in Role |-> IF r \in from THEN None ELSE Rehung(placed, heir)[r]]
  BY DEF Adopt
<1>6. DOMAIN heir = from
  OBVIOUS
<1>8. /\ placed[Elder] = None /\ placed[Committee] = Elder /\ \A post \in Posts : placed[post] = Committee
      /\ \A a \in Role \ Appointed : placed[a] = parent[a]
  BY Apart DEF ElderIsRoot
<1> HIDE DEF placed, heir, from
<1>9. \A r \in Role : /\ placed[r] \notin from => Rehung(placed, heir)[r] = placed[r]
                      /\ placed[r] \in from => Rehung(placed, heir)[r] \in Appointed
  BY <1>4, <1>6 DEF Rehung
<1>10. \A r \in Role : r \notin from =>
          /\ placed[r] \notin from => parent'[r] = placed[r]
          /\ placed[r] \in from => parent'[r] \in Appointed
  BY <1>5, <1>9
<1>11. /\ \A post \in Posts : parent'[post] = Committee
       /\ parent'[Committee] \in {Elder} \cup Appointed
       /\ Elder \notin from => parent'[Committee] = Elder
  BY <1>2, <1>3, <1>8, <1>10, Apart
<1>16. parent'[Elder] = None
  BY <1>2, <1>5, <1>8, <1>10, Apart
<1>12. \A a \in from : parent'[a] = None
  BY <1>3, <1>5
<1>13. \A a \in (Role \ Appointed) \ from :
          /\ parent[a] \notin from => parent'[a] = parent[a]
          /\ parent[a] \in from => parent'[a] \in Appointed
  BY <1>8, <1>10
<1> HIDE DEF q
<1>14. from = Replaced(q) /\ from \cap Appointed = {}
  BY <1>3 DEF from
<1>15. roles' = roles /\ shown' = (shown \cup Appointed) \ from
  BY <1>5
<1> QED
  BY <1>3, <1>11, <1>12, <1>13, <1>14, <1>15, <1>16 DEF q

\* The policy decides alike as long as nobody writes.
LEMMA SameVerdict ==
    ASSUME UNCHANGED <<shown, parent>>
    PROVE  Hangable' = Hangable
BY DEF Hangable, MayHang, Height, Chain, Upwards

LEMMA SameChains ==
    ASSUME UNCHANGED <<shown, parent>>, NEW r
    PROVE  Chain(r)' = Chain(r)
BY DEF Chain, Upwards

\* A write outdates every request that is left.
LEMMA OutdatedRight ==
    ASSUME TypeOK, NEW x, tx' = Outdated(x)
    PROVE  StillRight'
<1> SUFFICES ASSUME NEW y \in Desks, tx'[y] # None
             PROVE  tx'[y].stale
  BY DEF StillRight
<1>1. tx[y] \in Request /\ tx'[y] = [tx[y] EXCEPT !.stale = TRUE]
  BY OutdatedTypes
<1> QED BY <1>1 DEF Request

\* While nobody writes, the requests that were right still are.
LEMMA UnwrittenRight ==
    ASSUME StillRight, UNCHANGED <<shown, parent>>, roles \subseteq roles',
           \A x \in Desks : tx'[x] = tx[x] \/ tx'[x] = None
    PROVE  StillRight'
<1> SUFFICES ASSUME NEW x \in Desks, tx'[x] # None, ~tx'[x].stale
             PROVE  /\ tx'[x].kind \in {"add", "create", "move"} => <<tx'[x].role, tx'[x].to>> \in Hangable'
                    /\ tx'[x].kind = "remove" =>
                          /\ tx'[x].role \in roles' \ Appointed /\ tx'[x].to = parent'[tx'[x].role]
                          /\ tx'[x].choice = NoChoice
                    /\ tx'[x].kind = "adopt" => Committee \notin shown'
  BY DEF StillRight
<1>1. tx'[x] = tx[x] /\ tx[x] # None /\ ~tx[x].stale
  OBVIOUS
<1>2. Hangable' = Hangable
  BY SameVerdict
<1> QED
  BY <1>1, <1>2 DEF StillRight

LEMMA BeginRight ==
    ASSUME TypeOK, StillRight, NEW x \in Desks, NEW kind, NEW r, NEW p, NEW choice,
           Begin(x, kind, r, p, choice),
           kind \in {"add", "create", "move"} => <<r, p>> \in Hangable,
           kind = "remove" => r \in roles \ Appointed /\ p = parent[r] /\ choice = NoChoice,
           kind = "adopt" => Committee \notin shown
    PROVE  StillRight'
<1> DEFINE q == [ kind |-> kind, role |-> r, to |-> p, choice |-> choice, stale |-> FALSE ]
<1>1. tx' = [tx EXCEPT ![x] = q] /\ UNCHANGED <<roles, shown, parent>>
  BY DEF Begin
<1>2. q.kind = kind /\ q.role = r /\ q.to = p /\ q.choice = choice
  OBVIOUS
<1> HIDE DEF q
<1>3. Hangable' = Hangable
  BY <1>1, SameVerdict
<1>4. \A y \in Desks : tx'[y] = IF y = x THEN q ELSE tx[y]
  BY <1>1 DEF TypeOK
<1> SUFFICES ASSUME NEW y \in Desks, tx'[y] # None, ~tx'[y].stale
             PROVE  /\ tx'[y].kind \in {"add", "create", "move"} => <<tx'[y].role, tx'[y].to>> \in Hangable'
                    /\ tx'[y].kind = "remove" =>
                          /\ tx'[y].role \in roles' \ Appointed /\ tx'[y].to = parent'[tx'[y].role]
                          /\ tx'[y].choice = NoChoice
                    /\ tx'[y].kind = "adopt" => Committee \notin shown'
  BY DEF StillRight
<1>5. CASE y = x
  BY <1>1, <1>2, <1>3, <1>4, <1>5
<1>6. CASE y # x
  BY <1>1, <1>3, <1>4, <1>6 DEF StillRight
<1> QED
  BY <1>5, <1>6

\* What a desk writes once it was decided on the chart it writes to.
LEMMA SaveShape ==
    ASSUME TypeOK, NEW x \in Desks, Save(x)
    PROVE  /\ tx[x] # None /\ tx[x] \in Request /\ MayWrite(tx[x]) /\ tx' = Outdated(x)
           /\ past \subseteq past' /\ ("race" \notin past' => ~tx[x].stale)
           /\ "offchart" \notin past' /\ tx[x].kind \notin {"remove", "adopt"} =>
                 tx[x].to \in shown \cup {None}
           /\ "elders" \notin past' /\ tx[x].kind = "adopt" => Elder \notin Replaced(tx[x])
           /\ "branch" \notin past' /\ tx[x].kind = "adopt" =>
                 \A r \in shown : parent[r] \notin Replaced(tx[x]) \cup Appointed
           /\ "rosterless" \notin past' =>
                 /\ ~(tx[x].kind = "remove" /\ tx[x].role \in Rosters)
                 /\ tx[x].kind = "adopt" => Elder \in shown /\ Elder \notin Replaced(tx[x])
           /\ tx[x].kind = "remove" => TakeOff(tx[x])
           /\ tx[x].kind = "adopt" => Adopt(tx[x])
           /\ tx[x].kind \notin {"remove", "adopt"} => Hang(tx[x])
<1>1. /\ tx[x] # None /\ tx[x] \in Request /\ past' = past \cup Events(tx[x])
      /\ tx[x].kind \in {"add", "create", "move", "remove", "adopt"}
  BY RestingDesk DEF Save, Request
<1>2. past \subseteq past' /\ ("race" \notin past' => ~tx[x].stale)
  BY <1>1 DEF Events
<1>3. "offchart" \notin past' /\ tx[x].kind \notin {"remove", "adopt"} => tx[x].to \in shown \cup {None}
  BY <1>1 DEF Events
<1>4. "elders" \notin past' /\ tx[x].kind = "adopt" => Elder \notin Replaced(tx[x])
  BY <1>1 DEF Events
<1>5. "branch" \notin past' /\ tx[x].kind = "adopt" =>
          \A r \in shown : parent[r] \notin Replaced(tx[x]) \cup Appointed
  BY <1>1 DEF Events
<1>6. "rosterless" \notin past' =>
          /\ ~(tx[x].kind = "remove" /\ tx[x].role \in Rosters)
          /\ tx[x].kind = "adopt" => Elder \in shown /\ Elder \notin Replaced(tx[x])
  BY <1>1 DEF Events
<1> QED
  BY <1>1, <1>2, <1>3, <1>4, <1>5, <1>6 DEF Save

-----------------------------------------------------------------------------
(* No cycles.                                                              *)

ForestInv == ChartInv /\ Acyclic

\* The chain of a parent, whichever the parent is by then.
LEMMA ParentsChains == TypeOK => \A a \in Role : Chain(parent[a]) = Above(parent, shown, parent[a], None)
<1> SUFFICES ASSUME TypeOK, NEW a \in Role
             PROVE  Chain(parent[a]) = Above(parent, shown, parent[a], None)
  OBVIOUS
<1>1. parent[a] \in Role \cup {None}
  BY DEF TypeOK
<1> QED
  BY <1>1, ChainsAreAbove

LEMMA ParentsChainsAfter ==
    TypeOK' => \A a \in Role : Chain(parent[a])' = Above(parent', shown', parent'[a], None)
<1>1. TypeOK => \A a \in Role : Chain(parent[a]) = Above(parent, shown, parent[a], None)
  BY ParentsChains
<1>2. (TypeOK => \A a \in Role : Chain(parent[a]) = Above(parent, shown, parent[a], None))'
  BY <1>1, PTL
<1> QED
  BY <1>2 DEF Above, Closed

\* Hanging a role under one that is not below it closes no cycle.
LEMMA HangKeepsAcyclic ==
    ASSUME ChartInv, TypeOK', "race" \notin past', NEW x \in Desks, Save(x),
           tx[x].kind \notin {"remove", "adopt"}, NEW r, r = tx[x].role, NEW p, p = tx[x].to,
           NEW a \in shown', a \in shown => a \notin Chain(parent[a])
    PROVE  a \notin Chain(parent[a])'
<1>1. /\ tx[x] # None /\ ~tx[x].stale /\ Hang(tx[x]) /\ "race" \notin past
      /\ TypeOK /\ MovesAreShown /\ StillRight
  BY SaveShape DEF ChartInv, PlaceInv, FreeInv
<1>2. /\ r \in Role /\ p \in Role \cup {None} /\ tx[x].kind \in {"add", "create", "move"}
      /\ parent'[r] = p /\ r \in shown'
      /\ \A b \in Role : b # r => parent'[b] = parent[b] /\ (b \in shown <=> b \in shown')
  BY <1>1, HangShape
<1>3. r \notin Chain(p)
  BY <1>1, <1>2 DEF StillRight, Hangable, MayHang
<1>4. /\ parent \in [Role -> Role \cup {None}] /\ parent' \in [Role -> Role \cup {None}]
      /\ \A b \in Role \cup {None} : Chain(b) = Above(parent, shown, b, None)
      /\ \A b \in Role \cup {None} : Chain(b)' = Above(parent', shown', b, None)
  BY <1>1, ChainsAreAbove, ChainsAreAboveAfter
<1>5. r \notin Above(parent, shown, p, None)
  BY <1>2, <1>3, <1>4
<1>6. /\ Above(parent', shown', p, None) = Above(parent, shown, p, None)
      /\ \A b \in Role \cup {None} :
            /\ r \notin Above(parent, shown, b, None) =>
                  Above(parent', shown', b, None) = Above(parent, shown, b, None)
            /\ r \in Above(parent, shown, b, None) =>
                  Above(parent', shown', b, None) \subseteq
                      Above(parent, shown, b, r) \cup Above(parent, shown, p, None)
  <2>1. Hung(parent, parent', shown, shown', r, p)
    BY <1>2, <1>4, <1>5 DEF Hung
  <2> QED
    BY <2>1, HungAbove
<1>7. \A b \in Role \cup {None} : Above(parent, shown, b, r) \subseteq Above(parent, shown, b, None)
  <2> SUFFICES ASSUME NEW b \in Role \cup {None}
               PROVE  Above(parent, shown, b, r) \subseteq Above(parent, shown, b, None)
    OBVIOUS
  <2> DEFINE U == Above(parent, shown, b, None)
  <2>1. U \in SUBSET Role /\ (b # None => b \in U) /\ Closed(parent, shown, None, U)
    BY <1>4, AboveIsLeast
  <2> HIDE DEF U
  <2>2. Closed(parent, shown, r, U)
    BY <2>1, OrganigramAssumption DEF Closed
  <2>3. Above(parent, shown, b, r) \subseteq U
    BY <1>4, <2>1, <2>2, AboveIsLeast
  <2> QED
    BY <2>3 DEF U
<1>8. shown \subseteq Role /\ shown' \subseteq Role
  BY <1>1 DEF TypeOK
<1> SUFFICES a \notin Above(parent', shown', parent'[a], None)
  BY <1>8, ParentsChainsAfter
<1>9. CASE a = r
  BY <1>2, <1>5, <1>6, <1>9
<1>10. CASE a # r
  <2> DEFINE b == parent[a]
  <2>1. a \in Role /\ a \in shown /\ parent'[a] = b /\ b \in Role \cup {None}
    BY <1>2, <1>4, <1>8, <1>10
  <2>2. a \notin Above(parent, shown, b, None)
    BY <1>1, <1>4, <2>1
  <2>3. CASE r \notin Above(parent, shown, b, None)
    BY <1>6, <2>1, <2>2, <2>3
  <2>4. CASE r \in Above(parent, shown, b, None)
    <3>1. SUFFICES ASSUME a \in Above(parent, shown, p, None)
                   PROVE  FALSE
      BY <1>6, <1>7, <2>1, <2>2, <2>4
    <3>2. Above(parent, shown, a, None) \subseteq Above(parent, shown, p, None)
      BY <1>2, <1>4, <3>1, AboveIsTransitive
    <3>3. Above(parent, shown, a, None) = {a} \cup Above(parent, shown, b, None)
      <4>1. a # None
        BY <2>1, OrganigramAssumption
      <4> QED
        BY <1>4, <2>1, <4>1, AboveByOne
    <3> QED
      BY <1>5, <2>4, <3>2, <3>3
  <2> QED
    BY <2>3, <2>4
<1> QED
  BY <1>9, <1>10

\* The chains of those that stay lose the one that is taken off, and nothing else.
LEMMA TakeOffChains ==
    ASSUME ChartInv, TypeOK', "race" \notin past', NEW x \in Desks, Save(x), tx[x].kind = "remove",
           NEW r, r = tx[x].role
    PROVE  /\ shown' = shown \ {r} /\ r \in Role /\ r \in roles /\ roles' = roles
           /\ \A a \in Role \cup {None} : a # r => Chain(a)' = Chain(a) \ {r}
           /\ \A a \in shown' : Chain(parent[a])' = Chain(parent[a]) \ {r}
           /\ Chain(r)' = {r}
<1>1. /\ tx[x] # None /\ ~tx[x].stale /\ TakeOff(tx[x]) /\ "race" \notin past
      /\ TypeOK /\ OffChartIsFree /\ NoServiceCycle /\ StillRight
  BY SaveShape DEF ChartInv, PlaceInv, FreeInv
<1>2. /\ r \in Role /\ r \in roles /\ parent[r] # r /\ (r \notin shown => parent[r] = None)
      /\ roles' = roles /\ shown' = shown \ {r} /\ parent'[r] = None
      /\ \A a \in Role : a # r => parent'[a] = IF parent[a] = r THEN parent[r] ELSE parent[a]
  BY <1>1, TakeOffShape
<1>3. /\ parent \in [Role -> Role \cup {None}] /\ parent' \in [Role -> Role \cup {None}]
      /\ \A a \in Role \cup {None} : Chain(a) = Above(parent, shown, a, None)
      /\ \A a \in Role \cup {None} : Chain(a)' = Above(parent', shown', a, None)
  BY <1>1, ChainsAreAbove, ChainsAreAboveAfter
<1>4. \A a \in Role \cup {None} : a # r =>
          Above(parent', shown', a, None) = Above(parent, shown, a, None) \ {r}
  BY <1>2, <1>3, TakenAbove
<1>5. \A a \in Role \cup {None} : a # r => Chain(a)' = Chain(a) \ {r}
  BY <1>3, <1>4
<1>6. Chain(r)' = {r}
  <2>1. Above(parent', shown', r, None) = {r}
    BY <1>2, <1>3, AboveByOne
  <2> QED
    BY <1>2, <1>3, <2>1
<1>7. ASSUME NEW a \in shown'
      PROVE  Chain(parent[a])' = Chain(parent[a]) \ {r}
  <2>1. a \in Role /\ a # r /\ parent[a] \in Role \cup {None} /\ parent[r] \in Role \cup {None}
    BY <1>1, <1>2, <1>3 DEF TypeOK
  <2>2. Chain(parent[a])' = Above(parent', shown', parent'[a], None)
    BY <2>1, ParentsChainsAfter
  <2>3. CASE parent[a] # r
    <3>1. parent'[a] = parent[a]
      BY <1>2, <2>1, <2>3
    <3>2. Above(parent', shown', parent[a], None) = Above(parent, shown, parent[a], None) \ {r}
      BY <1>4, <2>1, <2>3
    <3>3. Chain(parent[a]) = Above(parent, shown, parent[a], None)
      BY <1>3, <2>1
    <3> QED
      BY <2>2, <3>1, <3>2, <3>3
  <2>4. CASE parent[a] = r
    <3>1. Above(parent', shown', parent'[a], None) = Above(parent, shown, parent[r], None) \ {r}
      BY <1>2, <1>4, <2>1, <2>4
    <3>2. Above(parent, shown, r, None) \ {r} = Above(parent, shown, parent[r], None) \ {r}
      <4>1. r # None
        BY <1>2, OrganigramAssumption
      <4>2. CASE r \in shown
        <5>1. Above(parent, shown, r, None) = {r} \cup Above(parent, shown, parent[r], None)
          BY <1>2, <1>3, <4>1, <4>2, AboveByOne
        <5> QED
          BY <5>1
      <4>3. CASE r \notin shown
        <5>1. Above(parent, shown, r, None) = {r} /\ Above(parent, shown, parent[r], None) = {}
          BY <1>2, <1>3, <4>3, AboveByOne, NothingAboveNone
        <5> QED
          BY <5>1
      <4> QED
        BY <4>2, <4>3
    <3>3. Chain(parent[a]) = Above(parent, shown, r, None)
      BY <1>2, <1>3, <2>4
    <3> QED
      BY <2>2, <3>1, <3>2, <3>3
  <2> QED
    BY <2>3, <2>4
<1> QED
  BY <1>2, <1>5, <1>6, <1>7

\* Whoever is handed to what is appointed ends there, and the committee goes under
\* the elders, who hang under nobody, if they are not replaced.
LEMMA AdoptKeepsAcyclic ==
    ASSUME ChartInv, TypeOK', NEW x \in Desks, Save(x), tx[x].kind = "adopt",
           NEW a \in shown', a \in shown => a \notin Chain(parent[a]),
           a \in Appointed => Elder \notin Replaced(tx[x])
    PROVE  a \notin Chain(parent[a])'
<1> DEFINE K == Appointed \cup {Elder}
<1>1. /\ tx[x] # None /\ Adopt(tx[x]) /\ MayWrite(tx[x]) /\ TypeOK /\ ElderIsRoot
  BY SaveShape DEF ChartInv, PlaceInv, FreeInv
<1>2. PICK from \in SUBSET Role :
              /\ from = Replaced(tx[x]) /\ from \cap Appointed = {}
              /\ roles' = roles /\ shown' = (shown \cup Appointed) \ from
              /\ parent'[Elder] = None
              /\ parent'[Committee] \in {Elder} \cup Appointed
              /\ Elder \notin from => parent'[Committee] = Elder
              /\ \A post \in Posts : parent'[post] = Committee
              /\ \A b \in from : parent'[b] = None
              /\ \A b \in (Role \ Appointed) \ from :
                    /\ parent[b] \notin from => parent'[b] = parent[b]
                    /\ parent[b] \in from => parent'[b] \in Appointed
  BY <1>1, AdoptShape
<1>3. /\ parent \in [Role -> Role \cup {None}] /\ parent' \in [Role -> Role \cup {None}]
      /\ \A b \in Role \cup {None} : Chain(b) = Above(parent, shown, b, None)
      /\ shown \subseteq Role /\ shown' \subseteq Role
  BY <1>1, ChainsAreAbove, ChainsAreAboveAfter DEF TypeOK
<1>4. K \in SUBSET Role /\ Elder # Committee /\ Elder \notin Posts /\ Committee \notin Posts
      /\ Committee \in Role /\ Posts \subseteq Role /\ Elder \in Role /\ None \notin Role
      /\ K = {Committee, Elder} \cup Posts
  BY Apart DEF Appointed
<1>5. Closed(parent', shown', None, K)
  BY <1>2, <1>4 DEF Closed
<1>6. shown' \subseteq shown \cup K /\ \A b \in Role : b \notin K /\ b \in shown' => parent'[b] \in {None, parent[b]} \cup K
  BY <1>2
<1>7. \A b \in Role \cup {None} :
          Above(parent', shown', b, None) \subseteq Above(parent, shown, b, None) \cup K
  <2> HIDE DEF K
  <2>1. K \in SUBSET Role /\ shown' \subseteq shown \cup K /\ Closed(parent', shown', None, K)
    BY <1>4, <1>5, <1>6
  <2>2. \A b \in Role : b \notin K /\ b \in shown' => parent'[b] \in {None, parent[b]} \cup K
    BY <1>6
  <2>3. parent \in [Role -> Role \cup {None}] /\ parent' \in [Role -> Role \cup {None}]
    BY <1>3
  <2> QED
    BY <2>1, <2>2, <2>3, AdoptedAbove
<1> SUFFICES a \notin Above(parent', shown', parent'[a], None)
  BY <1>3, ParentsChainsAfter
<1>8. CASE a = Elder
  <2>1. Above(parent', shown', None, None) = {}
    BY NothingAboveNone
  <2> QED
    BY <1>2, <1>8, <2>1
<1>9. CASE a \in Appointed
  <2>1. parent'[Committee] = Elder
    BY <1>2, <1>9
  <2>2. Above(parent', shown', Elder, None) \subseteq {Elder}
    <3>1. Closed(parent', shown', None, {Elder}) /\ {Elder} \in SUBSET Role
      BY <1>2, <1>4 DEF Closed
    <3> QED
      BY <1>3, <1>4, <3>1, AboveIsLeast
  <2>3. Above(parent', shown', Committee, None) \subseteq {Committee, Elder}
    <3>1. Closed(parent', shown', None, {Committee, Elder}) /\ {Committee, Elder} \in SUBSET Role
      BY <1>2, <1>4, <2>1 DEF Closed
    <3> QED
      BY <1>3, <1>4, <3>1, AboveIsLeast
  <2>4. CASE a = Committee
    BY <1>4, <2>1, <2>2, <2>4
  <2>5. CASE a \in Posts
    BY <1>2, <1>4, <2>3, <2>5
  <2> QED
    BY <1>9, <2>4, <2>5 DEF Appointed
<1>10. CASE a \notin K
  <2>1. a \in Role /\ a \in shown /\ a \notin from /\ a \notin Appointed
    BY <1>2, <1>3, <1>6, <1>10
  <2>2. CASE parent[a] \in from
    <3>1. parent'[a] \in K
      BY <1>2, <2>1, <2>2
    <3>2. Above(parent', shown', parent'[a], None) \subseteq K
      <4> HIDE DEF K
      <4> QED
        BY <1>3, <1>4, <1>5, <3>1, AboveIsLeast
    <3> QED
      BY <1>10, <3>2
  <2>3. CASE parent[a] \notin from
    <3>1. parent'[a] = parent[a] /\ parent[a] \in Role \cup {None}
      BY <1>2, <1>3, <2>1, <2>3
    <3>2. a \notin Above(parent, shown, parent[a], None)
      BY <1>3, <2>1, <3>1
    <3>3. Above(parent', shown', parent[a], None) \subseteq Above(parent, shown, parent[a], None) \cup K
      BY <1>7, <3>1
    <3> QED
      BY <1>10, <3>1, <3>2, <3>3
  <2> QED
    BY <2>2, <2>3
<1> QED
  BY <1>8, <1>9, <1>10

\* A role is deleted when nobody hangs under it: no other chain knows of it.
LEMMA DeleteChains ==
    ASSUME TypeOK, TypeOK', NEW r \in Role, Delete(r)
    PROVE  /\ shown' = shown \ {r} /\ roles' = roles \ {r} /\ r \notin Rosters
           /\ \A a \in Role \cup {None} : a # r => Chain(a)' = Chain(a) /\ r \notin Chain(a)
           /\ \A a \in shown' : Chain(parent[a])' = Chain(parent[a])
<1>1. /\ r \in Services /\ \A c \in Role : parent[c] # r
      /\ roles' = roles \ {r} /\ shown' = shown \ {r} /\ parent' = [parent EXCEPT ![r] = None]
  BY DEF Delete
<1>2. /\ parent \in [Role -> Role \cup {None}] /\ parent' \in [Role -> Role \cup {None}]
      /\ \A a \in Role \cup {None} : Chain(a) = Above(parent, shown, a, None)
      /\ \A a \in Role \cup {None} : Chain(a)' = Above(parent', shown', a, None)
      /\ shown \subseteq Role
  BY ChainsAreAbove, ChainsAreAboveAfter DEF TypeOK
<1>3. r \notin Rosters
  BY <1>1, Apart DEF BuiltIn
<1>4. Closed(parent, shown, None, Role \ {r})
  BY <1>1, <1>2 DEF Closed
<1>5. ASSUME NEW a \in Role \cup {None}, a # r
      PROVE  /\ Above(parent', shown', a, None) = Above(parent, shown, a, None)
             /\ r \notin Above(parent, shown, a, None)
  <2>1. Above(parent, shown, a, None) \subseteq Role \ {r}
    <3>1. Role \ {r} \in SUBSET Role /\ (a # None => a \in Role \ {r})
      BY <1>5
    <3> QED
      BY <1>2, <1>4, <3>1, AboveIsLeast
  <2>2. \A b \in Above(parent, shown, a, None) :
            /\ b \in shown <=> b \in shown'
            /\ b \in shown => parent'[b] = parent[b]
    BY <1>1, <1>2, <2>1
  <2> QED
    BY <1>2, <2>1, <2>2, SameAbove
<1>6. ASSUME NEW a \in shown'
      PROVE  Chain(parent[a])' = Chain(parent[a])
  <2>1. a \in Role /\ a # r /\ parent'[a] = parent[a] /\ parent[a] \in Role \cup {None} /\ parent[a] # r
    BY <1>1, <1>2
  <2>2. Chain(parent[a])' = Above(parent', shown', parent'[a], None)
    BY <2>1, ParentsChainsAfter
  <2> QED
    BY <1>2, <1>5, <2>1, <2>2
<1>7. \A a \in Role \cup {None} : a # r => Chain(a)' = Chain(a) /\ r \notin Chain(a)
  BY <1>2, <1>5
<1> QED
  BY <1>1, <1>3, <1>6, <1>7

\* No write closes a cycle, but one that adopts the committee in the place of the
\* elders, and then of what is appointed only.
LEMMA SaveKeepsOutOfCycles ==
    ASSUME ChartInv, TypeOK', "race" \notin past', NEW x \in Desks, Save(x),
           NEW a \in shown', a \in shown => a \notin Chain(parent[a]),
           a \in Appointed /\ tx[x].kind = "adopt" => Elder \notin Replaced(tx[x])
    PROVE  a \notin Chain(parent[a])'
<1>1. CASE tx[x].kind = "remove"
  <2>1. shown' \subseteq shown /\ Chain(parent[a])' \subseteq Chain(parent[a])
    BY <1>1, TakeOffChains
  <2> QED
    BY <2>1
<1>2. CASE tx[x].kind = "adopt"
  BY <1>2, AdoptKeepsAcyclic
<1>3. CASE tx[x].kind \notin {"remove", "adopt"}
  BY <1>3, HangKeepsAcyclic
<1> QED
  BY <1>1, <1>2, <1>3

LEMMA SaveKeepsServices ==
    ASSUME ChartInv, TypeOK', NEW x \in Desks, Save(x)
    PROVE  NoServiceCycle'
<1> SUFFICES ASSUME "race" \notin past', NEW a \in shown' \ Appointed
             PROVE  a \notin Chain(parent[a])'
  BY DEF NoServiceCycle
<1>1. "race" \notin past
  BY SaveShape DEF ChartInv, PlaceInv
<1>2. a \in shown => a \notin Chain(parent[a])
  BY <1>1 DEF ChartInv, NoServiceCycle
<1> QED
  BY <1>2, SaveKeepsOutOfCycles

LEMMA SaveKeepsAcyclic ==
    ASSUME ForestInv, TypeOK', NEW x \in Desks, Save(x)
    PROVE  Acyclic'
<1> SUFFICES ASSUME {"race", "elders"} \cap past' = {}, NEW a \in shown'
             PROVE  a \notin Chain(parent[a])'
  BY DEF Acyclic
<1>1. {"race", "elders"} \cap past = {} /\ (tx[x].kind = "adopt" => Elder \notin Replaced(tx[x]))
  BY SaveShape DEF ForestInv, ChartInv, PlaceInv
<1>2. a \in shown => a \notin Chain(parent[a])
  BY <1>1 DEF ForestInv, Acyclic
<1> QED
  BY <1>1, <1>2, SaveKeepsOutOfCycles DEF ForestInv

LEMMA SameParentsChains ==
    ASSUME UNCHANGED <<shown, parent>>
    PROVE  /\ \A r : Chain(r)' = Chain(r)
           /\ \A a : Chain(parent[a])' = Chain(parent[a])
BY DEF Chain, Upwards

\* The inductive step of the chart.
LEMMA ChartStep ==
    ASSUME ChartInv, [Next]_vars
    PROVE  ChartInv'
<1>1. PlaceInv' /\ FreeInv' /\ TypeOK' /\ TypeOK /\ StillRight /\ NoServiceCycle
  BY PlaceStep, FreeStep DEF ChartInv, PlaceInv
<1>2. ASSUME UNCHANGED <<shown, parent, past>>
      PROVE  NoServiceCycle'
  BY <1>1, <1>2, SameParentsChains DEF NoServiceCycle
<1>3. ASSUME NEW x \in Desks, NEW r, NEW p, NEW kind, NEW choice, Begin(x, kind, r, p, choice),
             kind \in {"add", "create", "move"} => <<r, p>> \in Hangable,
             kind = "remove" => r \in roles \ Appointed /\ p = parent[r] /\ choice = NoChoice,
             kind = "adopt" => Committee \notin shown
      PROVE  ChartInv'
  <2>1. StillRight'
    BY <1>1, <1>3, BeginRight
  <2>2. UNCHANGED <<shown, parent, past>>
    BY <1>3 DEF Begin
  <2> QED
    BY <1>1, <1>2, <2>1, <2>2 DEF ChartInv
<1>4. ASSUME NEW x \in Desks, NEW r \in Role, NEW p \in Role \cup {None},
             BeginAdd(x, r, p) \/ BeginCreate(x, r, p) \/ BeginMove(x, r, p)
      PROVE  ChartInv'
  <2>1. MayHang(r, p)
    BY <1>4 DEF BeginAdd, BeginCreate, BeginMove
  <2>2. <<r, p>> \in Hangable
    BY <2>1 DEF Hangable
  <2> QED
    BY <1>3, <1>4, <2>2 DEF BeginAdd, BeginCreate, BeginMove
<1>5. ASSUME NEW x \in Desks, NEW r \in Role, BeginRemove(x, r)
      PROVE  ChartInv'
  BY <1>3, <1>5 DEF BeginRemove
<1>6. ASSUME NEW x \in Desks, NEW choice \in Choice, BeginAdopt(x, choice)
      PROVE  ChartInv'
  BY <1>3, <1>6 DEF BeginAdopt
<1>7. ASSUME NEW x \in Desks, Save(x)
      PROVE  ChartInv'
  <2>1. StillRight'
    BY <1>1, <1>7, SaveShape, OutdatedRight
  <2>2. NoServiceCycle'
    BY <1>1, <1>7, SaveKeepsServices
  <2> QED
    BY <1>1, <2>1, <2>2 DEF ChartInv
<1>8. ASSUME UNCHANGED <<shown, parent, past>>, roles \subseteq roles',
             \A x \in Desks : tx'[x] = tx[x] \/ tx'[x] = None
      PROVE  ChartInv'
  <2>1. StillRight'
    BY <1>1, <1>8, UnwrittenRight
  <2> QED
    BY <1>1, <1>2, <1>8, <2>1 DEF ChartInv
<1>9. ASSUME NEW x \in Desks, Fail(x)
      PROVE  ChartInv'
  <2>1. UNCHANGED <<shown, parent, past, roles>> /\ \A y \in Desks : tx'[y] = tx[y] \/ tx'[y] = None
    BY <1>1, <1>9 DEF Fail, TypeOK
  <2> QED
    BY <1>8, <2>1
<1>10. ASSUME NEW r \in Role, NEW p \in Role \cup {None}, CreateOnly(r, p)
       PROVE  ChartInv'
  <2>1. UNCHANGED <<shown, parent, past, tx>> /\ roles \subseteq roles'
    BY <1>10 DEF CreateOnly
  <2> QED
    BY <1>8, <2>1
<1>11. ASSUME NEW r \in Role, Delete(r)
       PROVE  ChartInv'
  <2>1. StillRight'
    BY <1>1, <1>11, OutdatedRight DEF Delete
  <2>2. past' = past
    BY <1>11 DEF Delete
  <2>3. shown' \subseteq shown /\ \A a \in shown' : Chain(parent[a])' = Chain(parent[a])
    BY <1>1, <1>11, DeleteChains
  <2>4. NoServiceCycle'
    BY <1>1, <2>2, <2>3 DEF NoServiceCycle
  <2> QED
    BY <1>1, <2>1, <2>4 DEF ChartInv
<1>12. CASE UNCHANGED vars
  <2>1. UNCHANGED <<shown, parent, past, tx, roles>>
    BY <1>12 DEF vars
  <2> QED
    BY <1>8, <2>1
<1> QED
  BY <1>4, <1>5, <1>6, <1>7, <1>9, <1>10, <1>11, <1>12 DEF Next

\* What a step may do to the chart: only writes and deletions touch it.
LEMMA WhoWrites ==
    ASSUME [Next]_vars
    PROVE  \/ UNCHANGED <<shown, parent, past>>
           \/ \E x \in Desks : Save(x)
           \/ \E r \in Role : Delete(r)
BY DEF Next, vars, BeginAdd, BeginCreate, BeginMove, BeginRemove, BeginAdopt, Begin, Fail, CreateOnly

\* The inductive step of the forest.
LEMMA ForestStep ==
    ASSUME ForestInv, [Next]_vars
    PROVE  ForestInv'
<1>1. ChartInv' /\ TypeOK' /\ TypeOK /\ Acyclic
  BY ChartStep DEF ForestInv, ChartInv, PlaceInv
<1>2. ASSUME NEW x \in Desks, Save(x)
      PROVE  Acyclic'
  BY <1>1, <1>2, SaveKeepsAcyclic
<1>3. ASSUME NEW r \in Role, Delete(r)
      PROVE  Acyclic'
  <2>1. past' = past
    BY <1>3 DEF Delete
  <2>2. shown' \subseteq shown /\ \A a \in shown' : Chain(parent[a])' = Chain(parent[a])
    BY <1>1, <1>3, DeleteChains
  <2> QED
    BY <1>1, <2>1, <2>2 DEF Acyclic
<1>4. ASSUME UNCHANGED <<shown, parent, past>>
      PROVE  Acyclic'
  BY <1>1, <1>4, SameParentsChains DEF Acyclic
<1> QED
  BY <1>1, <1>2, <1>3, <1>4, WhoWrites DEF ForestInv

\* The default chart is three levels deep, and an empty one has no links.
LEMMA InitChains ==
    ASSUME Init
    PROVE  /\ shown \subseteq BuiltIn
           /\ \A a \in shown : a \notin Chain(parent[a])
           /\ \A a \in shown : a \notin Rosters => Elder \in Chain(a) /\ Elder \in shown
           /\ \A a \in Role : Chain(a) \subseteq {a, Committee, Elder}
<1>1. TypeOK
  BY InitTypes
<1>2. /\ parent \in [Role -> Role \cup {None}]
      /\ \A r \in Role \cup {None} : Chain(r) = Above(parent, shown, r, None)
  BY <1>1, ChainsAreAbove
<1>3. Chain(None) = {}
  BY <1>2, NothingAboveNone
<1>4. CASE shown = BuiltIn /\ parent = DefaultParent
  <2>1. /\ parent[Committee] = Elder /\ \A post \in Posts : parent[post] = Committee
        /\ \A a \in Role : a # Committee /\ a \notin Posts => parent[a] = None
    BY <1>4, Apart DEF DefaultParent
  <2>2. /\ Elder # Committee /\ Elder \notin Posts /\ Committee \notin Posts /\ Committee \in Role
        /\ Posts \subseteq Role /\ Elder \in Role /\ None \notin Role
        /\ BuiltIn = Rosters \cup {Committee} \cup Posts /\ BuiltIn \subseteq Role
        /\ Elder \in BuiltIn /\ Committee \in BuiltIn
    BY Apart DEF BuiltIn, Appointed
  <2>3. Chain(Elder) \subseteq {Elder}
    <3>1. Closed(parent, shown, None, {Elder}) /\ {Elder} \in SUBSET Role
      BY <2>1, <2>2 DEF Closed
    <3> QED
      BY <1>2, <2>2, <3>1, AboveIsLeast
  <2>4. \A a \in Role : Chain(a) \subseteq {a, Committee, Elder}
    <3> SUFFICES ASSUME NEW a \in Role
                 PROVE  Chain(a) \subseteq {a, Committee, Elder}
      OBVIOUS
    <3>1. Closed(parent, shown, None, {a, Committee, Elder}) /\ {a, Committee, Elder} \in SUBSET Role
      BY <2>1, <2>2 DEF Closed
    <3> QED
      BY <1>2, <2>2, <3>1, AboveIsLeast
  <2>5. \A a \in shown : a \notin Chain(parent[a])
    <3> SUFFICES ASSUME NEW a \in shown
                 PROVE  a \notin Chain(parent[a])
      OBVIOUS
    <3>1. CASE a = Committee
      BY <2>1, <2>2, <2>3, <3>1
    <3>2. CASE a \in Posts
      BY <2>1, <2>2, <2>4, <3>2
    <3>3. CASE a # Committee /\ a \notin Posts
      BY <1>3, <1>4, <2>1, <2>2, <3>3
    <3> QED
      BY <3>1, <3>2, <3>3
  <2>6. \A a \in shown : a \notin Rosters => Elder \in Chain(a)
    <3>1. Chain(Committee) = {Committee} \cup Chain(Elder) /\ Elder \in Chain(Elder)
      <4>1. Committee \in shown /\ Committee # None /\ Elder # None
        BY <1>4, <2>2
      <4>2. Above(parent, shown, Committee, None) = {Committee} \cup Above(parent, shown, parent[Committee], None)
        BY <1>2, <2>2, <4>1, AboveByOne
      <4>3. Elder \in Above(parent, shown, Elder, None)
        BY <1>2, <2>2, <4>1, AboveIsLeast
      <4> QED
        BY <1>2, <2>1, <2>2, <4>2, <4>3
    <3>2. ASSUME NEW post \in Posts
          PROVE  Chain(post) = {post} \cup Chain(Committee)
      <4>1. post \in shown /\ post # None /\ post \in Role
        BY <1>4, <2>2
      <4>2. Above(parent, shown, post, None) = {post} \cup Above(parent, shown, parent[post], None)
        BY <1>2, <4>1, AboveByOne
      <4> QED
        BY <1>2, <2>1, <2>2, <4>1, <4>2
    <3> QED
      BY <1>4, <2>2, <3>1, <3>2
  <2> QED
    BY <1>4, <2>2, <2>4, <2>5, <2>6
<1>5. CASE shown = {} /\ parent = [r \in Role |-> None]
  <2>1. \A a \in Role : Above(parent, shown, a, None) = {a}
    BY <1>2, <1>5, AboveByOne
  <2> QED
    BY <1>2, <1>5, <2>1
<1> QED
  BY <1>4, <1>5 DEF Init

\* The first chart is in order.
LEMMA InitChart ==
    ASSUME Init
    PROVE  ForestInv
<1>1. PlaceInv
  BY InitPlace
<1>2. MovesAreShown /\ StillRight
  BY DEF Init, MovesAreShown, StillRight
<1>3. OffChartIsFree
  <2>1. CASE shown = BuiltIn /\ parent = DefaultParent
    BY <2>1, Apart DEF DefaultParent, OffChartIsFree
  <2>2. CASE parent = [r \in Role |-> None]
    BY <2>2 DEF OffChartIsFree
  <2> QED BY <2>1, <2>2 DEF Init
<1>4. Acyclic
  BY InitChains DEF Acyclic
<1>5. NoServiceCycle
  BY InitChains DEF NoServiceCycle
<1> QED
  BY <1>1, <1>2, <1>3, <1>4, <1>5 DEF ForestInv, ChartInv, FreeInv, PlaceInv

\* The chart stays a forest as long as every write was decided on the tree it
\* changed and the committee was not adopted in the place of the elders, whatever
\* other roster is replaced and wherever a role is hung (assertCanSetParent,
\* removeRoleFromOrganigram, adoptServiceCommittee).
THEOREM AlwaysAForest == Spec => []Acyclic
<1>1. Init => ForestInv
  BY InitChart
<1>2. ForestInv /\ [Next]_vars => ForestInv'
  BY ForestStep
<1>3. ForestInv => Acyclic
  BY DEF ForestInv
<1> QED BY <1>1, <1>2, <1>3, PTL DEF Spec

-----------------------------------------------------------------------------
(* Removals.                                                               *)

\* A removal that was decided on the chart as it is does not fail.
LEMMA RemovalsMayWrite ==
    ASSUME ChartInv, NEW x \in Desks, tx[x] # None, tx[x].kind = "remove", ~tx[x].stale
    PROVE  MayWrite(tx[x])
<1>1. /\ tx[x].role \in roles /\ tx[x].to = parent[tx[x].role] /\ tx[x].choice = NoChoice
      /\ roles \subseteq Role /\ parent \in [Role -> roles \cup {None}]
  BY DEF ChartInv, StillRight, PlaceInv, TypeOK
<1>2. tx[x].to \in roles \cup {None}
  BY <1>1
<1> QED
  BY <1>1, <1>2 DEF MayWrite, NoChoice

\* A request ends when its own desk writes it, or cannot.
LEMMA WhoEndsRequests ==
    ASSUME TypeOK, [Next]_vars, NEW x \in Desks, tx[x] # None, tx'[x] = None
    PROVE  Save(x) \/ Fail(x)
<1>1. ASSUME NEW y \in Desks, NEW kind, NEW r, NEW p, NEW choice, Begin(y, kind, r, p, choice)
      PROVE  FALSE
  BY <1>1 DEF Begin, TypeOK
<1>2. ASSUME NEW y, y # x, tx' = Outdated(y)
      PROVE  FALSE
  <2>1. tx[x] \in Request
    BY RestingDesk
  <2>2. [tx[x] EXCEPT !.stale = TRUE] \in Request
    BY <2>1 DEF Request
  <2>3. tx'[x] = [tx[x] EXCEPT !.stale = TRUE]
    BY <1>2 DEF Outdated
  <2> QED
    BY <2>2, <2>3, RequestAssumption
<1>3. ASSUME NEW y \in Desks, NEW r \in Role, NEW p \in Role \cup {None},
             BeginAdd(y, r, p) \/ BeginCreate(y, r, p) \/ BeginMove(y, r, p)
      PROVE  FALSE
  BY <1>1, <1>3 DEF BeginAdd, BeginCreate, BeginMove
<1>4. ASSUME NEW y \in Desks, NEW r \in Role, BeginRemove(y, r)
      PROVE  FALSE
  BY <1>1, <1>4 DEF BeginRemove
<1>5. ASSUME NEW y \in Desks, NEW choice \in Choice, BeginAdopt(y, choice)
      PROVE  FALSE
  BY <1>1, <1>5 DEF BeginAdopt
<1>6. ASSUME NEW y \in Desks, Save(y)
      PROVE  Save(x)
  BY <1>2, <1>6, SaveShape
<1>7. ASSUME NEW y \in Desks, Fail(y)
      PROVE  Fail(x)
  <2>1. y = x
    BY <1>7 DEF Fail, TypeOK
  <2> QED
    BY <1>7, <2>1
<1>8. ASSUME NEW r \in Role, Delete(r)
      PROVE  FALSE
  BY <1>2, <1>8, RequestAssumption DEF Delete
<1>9. ASSUME UNCHANGED tx
      PROVE  FALSE
  BY <1>9
<1> QED
  BY <1>3, <1>4, <1>5, <1>6, <1>7, <1>8, <1>9 DEF Next, CreateOnly, vars

\* Who leaves the chart closes the gap, as long as the removal was decided on the
\* tree it changes: whoever was above whom still is (removeRoleFromOrganigram).
THEOREM RemovalsCloseTheGap == Spec => RemovalKeepsTheOrder
<1>1. Init => ChartInv
  BY InitChart DEF ForestInv
<1>2. ChartInv /\ [Next]_vars => ChartInv'
  BY ChartStep
<1>3. ASSUME ChartInv, ChartInv', [Next]_vars
      PROVE  [\A x \in Desks :
                 LET q == tx[x] IN
                 q # None /\ tx'[x] = None /\ q.kind = "remove" /\ ~q.stale /\ "race" \notin past' =>
                     \A r \in shown' : Chain(parent[r])' = Chain(parent[r]) \ {q.role}]_vars
  <2> SUFFICES ASSUME NEW x \in Desks, tx[x] # None, tx'[x] = None, tx[x].kind = "remove",
                      ~tx[x].stale, "race" \notin past'
               PROVE  \A r \in shown' : Chain(parent[r])' = Chain(parent[r]) \ {tx[x].role}
    OBVIOUS
  <2>1. TypeOK /\ TypeOK'
    BY <1>3 DEF ChartInv, PlaceInv
  <2>2. ~Fail(x)
    BY <1>3, RemovalsMayWrite DEF Fail
  <2>3. Save(x)
    BY <1>3, <2>1, <2>2, WhoEndsRequests
  <2> QED
    BY <1>3, <2>1, <2>3, TakeOffChains
<1> QED
  BY <1>1, <1>2, <1>3, PTL DEF Spec, RemovalKeepsTheOrder

-----------------------------------------------------------------------------
(* Whom services answer to.                                                *)

AnswerInv == ChartInv /\ ServicesAnswer

\* Who is hung is a roster, or hangs under one that answers to a roster.
LEMMA HangKeepsAnswers ==
    ASSUME AnswerInv, TypeOK', {"race", "offchart", "rosterless"} \cap past' = {}, NEW x \in Desks, Save(x),
           tx[x].kind \notin {"remove", "adopt"}, NEW r, r = tx[x].role, NEW p, p = tx[x].to
    PROVE  \A a \in shown' : Chain(a)' \cap shown' \cap Rosters # {}
<1>1. /\ tx[x] # None /\ ~tx[x].stale /\ Hang(tx[x]) /\ TypeOK /\ MovesAreShown /\ StillRight
      /\ \A a \in shown : Chain(a) \cap shown \cap Rosters # {}
  BY SaveShape DEF AnswerInv, ChartInv, PlaceInv, FreeInv, ServicesAnswer
<1>2. /\ r \in Role /\ p \in Role \cup {None} /\ tx[x].kind \in {"add", "create", "move"}
      /\ parent'[r] = p /\ r \in shown'
      /\ \A a \in Role : a # r => parent'[a] = parent[a] /\ (a \in shown <=> a \in shown')
  BY <1>1, HangShape
<1>3. r \notin Chain(p) /\ (r \in Rosters <=> p = None) /\ p \in shown \cup {None}
  <2>1. "offchart" \notin past' => p \in shown \cup {None}
    BY <1>1, SaveShape
  <2> QED
    BY <1>1, <1>2, <2>1 DEF StillRight, Hangable, MayHang
<1>4. /\ parent \in [Role -> Role \cup {None}] /\ parent' \in [Role -> Role \cup {None}]
      /\ \A a \in Role \cup {None} : Chain(a) = Above(parent, shown, a, None)
      /\ \A a \in Role \cup {None} : Chain(a)' = Above(parent', shown', a, None)
  BY <1>1, ChainsAreAbove, ChainsAreAboveAfter
<1>5. Hung(parent, parent', shown, shown', r, p)
  BY <1>2, <1>3, <1>4 DEF Hung
<1>6. /\ Above(parent', shown', r, None) = {r} \cup Above(parent, shown, p, None)
      /\ \A a \in Role \cup {None} :
            /\ r \in Above(parent', shown', a, None) <=> r \in Above(parent, shown, a, None)
            /\ r \notin Above(parent, shown, a, None) =>
                  Above(parent', shown', a, None) = Above(parent, shown, a, None)
  BY <1>5, HungAbove
<1>7. shown \subseteq Role /\ shown' \subseteq Role /\ None \notin Role
  BY <1>1, OrganigramAssumption DEF TypeOK
<1>8. shown \subseteq shown'
  BY <1>2, <1>7
<1> SUFFICES ASSUME NEW a \in shown'
             PROVE  Above(parent', shown', a, None) \cap shown' \cap Rosters # {}
  BY <1>4, <1>7
<1>9. CASE r \notin Above(parent', shown', a, None)
  <2>1. a \in Role /\ a # None /\ Above(parent', shown', a, None) = Above(parent, shown, a, None)
    BY <1>6, <1>7, <1>9
  <2>2. a # r
    BY <1>4, <1>9, <2>1, AboveIsLeast
  <2>3. a \in shown /\ Chain(a) = Above(parent, shown, a, None)
    BY <1>2, <1>4, <2>1, <2>2
  <2>4. Chain(a) \cap shown \cap Rosters # {}
    BY <1>1, <2>3
  <2> QED
    BY <1>8, <2>1, <2>3, <2>4
<1>10. CASE r \in Above(parent', shown', a, None)
  <2>1. Above(parent', shown', r, None) \subseteq Above(parent', shown', a, None)
    BY <1>4, <1>7, <1>10, AboveIsTransitive
  <2>2. CASE r \in Rosters
    BY <1>2, <1>10, <2>2
  <2>3. CASE r \notin Rosters
    <3>1. p \in shown
      BY <1>3, <2>3
    <3>2. Above(parent, shown, p, None) \cap shown \cap Rosters # {}
      BY <1>1, <1>2, <1>4, <3>1
    <3> QED
      BY <1>6, <1>8, <2>1, <3>2
  <2> QED
    BY <2>2, <2>3
<1> QED
  BY <1>9, <1>10

\* Who was handed to what is appointed answers to the elders; the chains of the
\* others end where they did.
LEMMA AdoptKeepsAnswers ==
    ASSUME AnswerInv, TypeOK', {"race", "offchart", "rosterless"} \cap past' = {},
           NEW x \in Desks, Save(x), tx[x].kind = "adopt"
    PROVE  \A a \in shown' : Chain(a)' \cap shown' \cap Rosters # {}
<1>1. /\ tx[x] # None /\ Adopt(tx[x]) /\ MayWrite(tx[x]) /\ TypeOK /\ ElderIsRoot
      /\ Elder \in shown /\ Elder \notin Replaced(tx[x])
      /\ \A a \in shown : Chain(a) \cap shown \cap Rosters # {}
  BY SaveShape DEF AnswerInv, ChartInv, PlaceInv, FreeInv, ServicesAnswer
<1>2. PICK from \in SUBSET Role :
              /\ Elder \notin from /\ from \cap Appointed = {}
              /\ roles' = roles /\ shown' = (shown \cup Appointed) \ from
              /\ parent'[Elder] = None /\ parent'[Committee] = Elder
              /\ \A post \in Posts : parent'[post] = Committee
              /\ \A a \in from : parent'[a] = None
              /\ \A a \in (Role \ Appointed) \ from :
                    /\ parent[a] \notin from => parent'[a] = parent[a]
                    /\ parent[a] \in from => parent'[a] \in Appointed
  BY <1>1, AdoptShape
<1>3. /\ parent \in [Role -> Role \cup {None}] /\ parent' \in [Role -> Role \cup {None}]
      /\ \A a \in Role \cup {None} : Chain(a) = Above(parent, shown, a, None)
      /\ \A a \in Role \cup {None} : Chain(a)' = Above(parent', shown', a, None)
      /\ shown \subseteq Role /\ shown' \subseteq Role
  BY <1>1, ChainsAreAbove, ChainsAreAboveAfter DEF TypeOK
<1>4. /\ Committee \in Role /\ Posts \subseteq Role /\ Elder \in Role /\ None \notin Role
      /\ Appointed = {Committee} \cup Posts /\ Elder \in Rosters
  BY Apart DEF Appointed
<1>5. Elder \in shown' /\ Appointed \subseteq shown'
  BY <1>1, <1>2, <1>4
<1> SUFFICES ASSUME NEW a \in shown'
             PROVE  Above(parent', shown', a, None) \cap shown' \cap Rosters # {}
  BY <1>3
<1> DEFINE V == Above(parent', shown', a, None)
<1>6. /\ V \in SUBSET Role /\ a \in V /\ Closed(parent', shown', None, V) /\ a \in Role
      /\ \A T \in SUBSET Role : a \in T /\ Closed(parent', shown', None, T) => V \subseteq T
  <2>1. a \in Role /\ a # None
    BY <1>3, <1>4
  <2> QED
    BY <1>3, <2>1, AboveIsLeast
<1> HIDE DEF V
<1>7. CASE V \cap Appointed # {}
  <2>1. Committee \in V
    BY <1>2, <1>4, <1>5, <1>6, <1>7 DEF Closed
  <2>2. Elder \in V
    BY <1>2, <1>4, <1>5, <1>6, <2>1 DEF Closed
  <2> QED
    BY <1>4, <1>5, <2>2 DEF V
<1>8. CASE V \cap Appointed = {}
  <2>1. a \notin Appointed /\ a \in shown /\ a \notin from
    BY <1>2, <1>6, <1>8
  <2>2. Closed(parent', shown', None, Role \ from)
    <3> SUFFICES ASSUME NEW b \in ((Role \ from) \cap shown') \ {None}, parent'[b] # None
                 PROVE  parent'[b] \in Role \ from
      BY DEF Closed
    <3>1. CASE b \in Appointed
      BY <1>2, <1>4, <3>1
    <3>2. CASE b \notin Appointed
      BY <1>2, <1>3, <1>4, <3>2
    <3> QED
      BY <3>1, <3>2
  <2>3. V \cap from = {}
    <3>1. Role \ from \in SUBSET Role /\ a \in Role \ from
      BY <1>6, <2>1
    <3> QED
      BY <1>6, <2>2, <3>1
  <2>4. Closed(parent, shown, None, V)
    <3> SUFFICES ASSUME NEW b \in (V \cap shown) \ {None}, parent[b] # None
                 PROVE  parent[b] \in V
      BY DEF Closed
    <3>1. b \in Role /\ b \notin Appointed /\ b \notin from /\ b \in shown'
      BY <1>2, <1>6, <1>8, <2>3
    <3>2. parent'[b] # None => parent'[b] \in V
      BY <1>6, <3>1 DEF Closed
    <3>3. parent[b] \notin from
      <4>1. parent[b] \in from => parent'[b] \in Appointed /\ parent'[b] # None
        BY <1>2, <1>4, <3>1
      <4> QED
        BY <1>8, <3>2, <4>1
    <3> QED
      BY <1>2, <3>1, <3>2, <3>3
  <2>5. Above(parent, shown, a, None) \subseteq V
    BY <1>3, <1>6, <2>4, AboveIsLeast
  <2>6. Above(parent, shown, a, None) \cap shown \cap Rosters # {}
    BY <1>1, <1>3, <1>6, <2>1
  <2> QED
    BY <1>2, <2>3, <2>5, <2>6 DEF V
<1> QED
  BY <1>7, <1>8

\* No write takes the last roster from a chain.
LEMMA SaveKeepsAnswers ==
    ASSUME AnswerInv, TypeOK', NEW x \in Desks, Save(x)
    PROVE  ServicesAnswer'
<1> SUFFICES ASSUME {"race", "offchart", "rosterless"} \cap past' = {}
             PROVE  \A a \in shown' : Chain(a)' \cap shown' \cap Rosters # {}
  BY DEF ServicesAnswer
<1>1. CASE tx[x].kind = "remove"
  <2>1. PICK r : r = tx[x].role
    OBVIOUS
  <2>2. /\ shown' = shown \ {r} /\ \A a \in Role \cup {None} : a # r => Chain(a)' = Chain(a) \ {r}
    BY <1>1, <2>1, TakeOffChains DEF AnswerInv
  <2>3. r \notin Rosters /\ {"race", "offchart", "rosterless"} \cap past = {} /\ shown \subseteq Role
    BY <1>1, <2>1, SaveShape DEF AnswerInv, ChartInv, PlaceInv, TypeOK
  <2>4. \A a \in shown : Chain(a) \cap shown \cap Rosters # {}
    BY <2>3 DEF AnswerInv, ServicesAnswer
  <2> SUFFICES ASSUME NEW a \in shown'
               PROVE  Chain(a)' \cap shown' \cap Rosters # {}
    OBVIOUS
  <2>5. a \in shown /\ a \in Role /\ Chain(a)' = Chain(a) \ {r}
    BY <2>2, <2>3
  <2> QED
    BY <2>2, <2>3, <2>4, <2>5
<1>2. CASE tx[x].kind = "adopt"
  BY <1>2, AdoptKeepsAnswers
<1>3. CASE tx[x].kind \notin {"remove", "adopt"}
  BY <1>3, HangKeepsAnswers
<1> QED
  BY <1>1, <1>2, <1>3

\* The inductive step: only writes and deletions touch the chart.
LEMMA AnswerStep ==
    ASSUME AnswerInv, [Next]_vars
    PROVE  AnswerInv'
<1>1. ChartInv' /\ TypeOK' /\ TypeOK /\ ServicesAnswer
  BY ChartStep DEF AnswerInv, ChartInv, PlaceInv
<1>2. ASSUME NEW x \in Desks, Save(x)
      PROVE  ServicesAnswer'
  BY <1>1, <1>2, SaveKeepsAnswers
<1>3. ASSUME NEW r \in Role, Delete(r)
      PROVE  ServicesAnswer'
  <2>1. /\ shown' = shown \ {r} /\ r \notin Rosters /\ shown \subseteq Role
        /\ \A a \in Role \cup {None} : a # r => Chain(a)' = Chain(a)
    BY <1>1, <1>3, DeleteChains DEF TypeOK
  <2>2. past' = past
    BY <1>3 DEF Delete
  <2>3. \A a \in shown' : a \in shown /\ Chain(a)' = Chain(a)
    BY <2>1
  <2>4. \A a \in shown' : Chain(a)' \cap shown' \cap Rosters = Chain(a) \cap shown \cap Rosters
    BY <2>1, <2>3
  <2> QED
    BY <1>1, <2>2, <2>3, <2>4 DEF ServicesAnswer
<1>4. ASSUME UNCHANGED <<shown, parent, past>>
      PROVE  ServicesAnswer'
  <2>1. \A r : Chain(r)' = Chain(r)
    BY <1>4, SameParentsChains
  <2> QED
    BY <1>1, <1>4, <2>1 DEF ServicesAnswer
<1>5. \/ UNCHANGED <<shown, parent, past>>
      \/ \E x \in Desks : Save(x)
      \/ \E r \in Role : Delete(r)
  BY WhoWrites
<1>6. ServicesAnswer'
  BY <1>2, <1>3, <1>4, <1>5
<1> QED
  BY <1>1, <1>6 DEF AnswerInv

\* Every role on the chart answers to a roster that is on it, whatever was
\* removed, moved or replaced above it, as long as every write was decided on the
\* tree it changed, nothing was hung under a role that is off the chart, no roster
\* was taken off it, and the elders were there for the committee and not replaced
\* by it (assertCanSetParent, removeRoleFromOrganigram, adoptServiceCommittee).
THEOREM EveryServiceAnswers == Spec => []ServicesAnswer
<1>1. ASSUME Init
      PROVE  AnswerInv
  <2>1. ChartInv /\ TypeOK
    BY <1>1, InitChart, InitTypes DEF ForestInv
  <2>2. /\ \A r \in Role \cup {None} : Chain(r) = Above(parent, shown, r, None)
        /\ parent \in [Role -> Role \cup {None}] /\ shown \subseteq Role /\ None \notin Role
    BY <2>1, ChainsAreAbove, OrganigramAssumption DEF TypeOK
  <2>3. \A a \in shown : a \in Chain(a)
    BY <2>2, AboveIsLeast
  <2>4. \A a \in shown : a \notin Rosters => Elder \in Chain(a) /\ Elder \in shown
    BY <1>1, InitChains
  <2>5. \A a \in shown : Chain(a) \cap shown \cap Rosters # {}
    BY <2>3, <2>4, OrganigramAssumption
  <2> QED
    BY <2>1, <2>5 DEF AnswerInv, ServicesAnswer
<1>2. AnswerInv /\ [Next]_vars => AnswerInv'
  BY AnswerStep
<1>3. AnswerInv => ServicesAnswer
  BY DEF AnswerInv
<1> QED BY <1>1, <1>2, <1>3, PTL DEF Spec

-----------------------------------------------------------------------------
(* Depth.                                                                  *)

\* A finite set of numbers that holds 0 has a largest one.
LEMMA LargestNumber ==
    ASSUME NEW S \in SUBSET Nat, 0 \in S, NEW bound \in Nat, \A k \in S : k <= bound
    PROVE  Max(S) \in S /\ \A k \in S : k <= Max(S)
<1> DEFINE above == {n \in Nat : \A k \in S : k <= n}
<1>1. PICK m \in above : \A n \in above : m <= n
  <2>1. above \in SUBSET Nat /\ bound \in above
    OBVIOUS
  <2> HIDE DEF above
  <2> QED
    BY <2>1, LeastNumber
<1>2. m \in Nat /\ \A k \in S : k <= m
  BY <1>1
<1>3. m \in S
  <2> SUFFICES ASSUME m \notin S PROVE FALSE
    OBVIOUS
  <2>1. m # 0 /\ m - 1 \in Nat /\ \A k \in S : k <= m - 1
    BY <1>2
  <2>2. m - 1 \in above
    BY <2>1
  <2> QED
    BY <1>1, <2>1, <2>2
<1>4. \E y \in S : \A k \in S : y >= k
  BY <1>2, <1>3
<1> QED
  BY <1>4 DEF Max

\* No role hangs lower under r than its height.
LEMMA HeightBounds ==
    ASSUME TypeOK, NEW r \in Role
    PROVE  /\ Height(r) \in Nat
           /\ \A d \in shown : r \in Above(parent, shown, d, r) =>
                 Cardinality(Above(parent, shown, d, r)) - 1 <= Height(r)
<1> DEFINE below == {d \in shown : r \in Upwards(d, r)}
           S == {0} \cup {Cardinality(Upwards(d, r)) - 1 : d \in below}
           N == Cardinality(Role)
<1>1. /\ parent \in [Role -> Role \cup {None}] /\ shown \subseteq Role
      /\ \A d \in Role : Upwards(d, r) = Above(parent, shown, d, r)
  BY ChainsAreAbove DEF TypeOK
<1>2. IsFiniteSet(Role) /\ N \in Nat
  BY OrganigramAssumption, FS_CardinalityType
<1>3. ASSUME NEW d \in below
      PROVE  Cardinality(Upwards(d, r)) - 1 \in Nat /\ Cardinality(Upwards(d, r)) - 1 <= N
  <2>1. Upwards(d, r) \in SUBSET Role /\ r \in Upwards(d, r)
    BY <1>1, AboveIsLeast
  <2>2. IsFiniteSet(Upwards(d, r)) /\ Cardinality(Upwards(d, r)) <= N
        /\ Cardinality(Upwards(d, r)) \in Nat
    BY <1>2, <2>1, FS_Subset, FS_CardinalityType
  <2>3. Cardinality(Upwards(d, r)) # 0
    BY <2>1, <2>2, FS_EmptySet
  <2> HIDE DEF N
  <2> QED
    BY <1>2, <2>2, <2>3
<1>4. S \in SUBSET Nat /\ 0 \in S /\ \A k \in S : k <= N
  <2> HIDE DEF N, below
  <2> QED
    BY <1>2, <1>3
<1>5. Height(r) = Max(S)
  BY DEF Height
<1>6. Max(S) \in S /\ \A k \in S : k <= Max(S)
  <2> HIDE DEF S, N
  <2> QED
    BY <1>2, <1>4, LargestNumber
<1>7. \A d \in shown : r \in Above(parent, shown, d, r) =>
          Cardinality(Above(parent, shown, d, r)) - 1 \in S
  BY <1>1
<1> HIDE DEF S
<1> QED
  BY <1>4, <1>5, <1>6, <1>7

DepthInv == ChartInv /\ DepthBounded

\* One element more counts at most one more.
LEMMA OneMore ==
    ASSUME NEW S, NEW a, IsFiniteSet(S)
    PROVE  /\ IsFiniteSet(S \cup {a}) /\ Cardinality(S) \in Nat /\ Cardinality(S \cup {a}) \in Nat
           /\ Cardinality(S \cup {a}) <= Cardinality(S) + 1
<1>1. IsFiniteSet(S \cup {a})
  BY FS_AddElement
<1>2. Cardinality(S) \in Nat /\ Cardinality(S \cup {a}) \in Nat
  BY <1>1, FS_CardinalityType
<1>3. Cardinality(S \cup {a}) = Cardinality(S) \/ Cardinality(S \cup {a}) = Cardinality(S) + 1
  BY FS_AddElement
<1> QED
  BY <1>1, <1>2, <1>3

LEMMA SmallSets ==
    ASSUME NEW S, NEW a, NEW b, NEW c, S \subseteq {a, b, c}
    PROVE  Cardinality(S) \in Nat /\ Cardinality(S) <= 3
<1> DEFINE A == {a}
           B == A \cup {b}
           C == B \cup {c}
<1>1. IsFiniteSet(A) /\ Cardinality(A) = 1
  BY FS_Singleton
<1>2. S \in SUBSET C
  OBVIOUS
<1> HIDE DEF A
<1>3. IsFiniteSet(B) /\ Cardinality(B) <= 2 /\ Cardinality(B) \in Nat
  <2>1. Cardinality(B) <= Cardinality(A) + 1 /\ IsFiniteSet(B) /\ Cardinality(B) \in Nat
    BY <1>1, OneMore
  <2> HIDE DEF B
  <2> QED
    BY <1>1, <2>1
<1> HIDE DEF B
<1>4. IsFiniteSet(C) /\ Cardinality(C) <= 3 /\ Cardinality(C) \in Nat
  <2>1. Cardinality(C) <= Cardinality(B) + 1 /\ IsFiniteSet(C) /\ Cardinality(C) \in Nat
    BY <1>3, OneMore
  <2> HIDE DEF C
  <2> QED
    BY <1>3, <2>1
<1> HIDE DEF C
<1>5. IsFiniteSet(S) /\ Cardinality(S) <= Cardinality(C)
  BY <1>2, <1>4, FS_Subset
<1>6. Cardinality(S) \in Nat
  BY <1>5, FS_CardinalityType
<1> QED
  BY <1>4, <1>5, <1>6

\* A branch that is hung, or moved, is counted from its top down and from its
\* new parent up.
LEMMA HangKeepsDepth ==
    ASSUME DepthInv, TypeOK', {"race", "branch"} \cap past' = {}, NEW x \in Desks, Save(x),
           tx[x].kind \notin {"remove", "adopt"}, NEW r, r = tx[x].role, NEW p, p = tx[x].to
    PROVE  \A a \in roles' : Cardinality(Chain(a)') <= MaxDepth
<1>1. /\ tx[x] # None /\ ~tx[x].stale /\ Hang(tx[x]) /\ TypeOK /\ MovesAreShown /\ StillRight
      /\ \A a \in roles : Cardinality(Chain(a)) <= MaxDepth
  BY SaveShape DEF DepthInv, ChartInv, PlaceInv, FreeInv, DepthBounded
<1>2. /\ r \in Role /\ p \in Role \cup {None} /\ tx[x].kind \in {"add", "create", "move"}
      /\ parent'[r] = p /\ r \in shown' /\ roles' = roles \cup {r}
      /\ \A a \in Role : a # r => parent'[a] = parent[a] /\ (a \in shown <=> a \in shown')
  BY <1>1, HangShape
<1>3. r \notin Chain(p) /\ Cardinality(Chain(p)) + 1 + Height(r) <= MaxDepth
  BY <1>1, <1>2 DEF StillRight, Hangable, MayHang
<1>4. /\ parent \in [Role -> Role \cup {None}] /\ parent' \in [Role -> Role \cup {None}]
      /\ \A a \in Role \cup {None} : Chain(a) = Above(parent, shown, a, None)
      /\ \A a \in Role \cup {None} : Chain(a)' = Above(parent', shown', a, None)
      /\ roles' \subseteq Role /\ shown \subseteq Role
  BY <1>1, ChainsAreAbove, ChainsAreAboveAfter DEF TypeOK
<1>5. Hung(parent, parent', shown, shown', r, p)
  BY <1>2, <1>3, <1>4 DEF Hung
<1>6. IsFiniteSet(Role) /\ None \notin Role /\ MaxDepth \in Nat
  BY OrganigramAssumption
<1> SUFFICES ASSUME NEW a \in roles'
             PROVE  Cardinality(Above(parent', shown', a, None)) <= MaxDepth
  BY <1>4
<1>7. a \in Role
  BY <1>4
<1>8. CASE r \notin Above(parent, shown, a, None)
  <2>1. Above(parent', shown', a, None) = Above(parent, shown, a, None)
    BY <1>5, <1>7, <1>8, HungAbove
  <2>2. a # r
    BY <1>4, <1>6, <1>7, <1>8, AboveIsLeast
  <2>3. a \in roles /\ Chain(a) = Above(parent, shown, a, None)
    BY <1>2, <1>4, <1>7, <2>2
  <2> QED
    BY <1>1, <2>1, <2>3
<1>9. CASE r \in Above(parent, shown, a, None)
  <2> DEFINE U == Above(parent, shown, a, r)
             P == Above(parent, shown, p, None)
             V == Above(parent', shown', a, None)
  <2>1. r \in U /\ V \subseteq U \cup P
    BY <1>5, <1>7, <1>9, HungAbove
  <2>2. U \in SUBSET Role /\ P \in SUBSET Role
    BY DEF Above
  <2>3. Height(r) \in Nat /\ Cardinality(P) + 1 + Height(r) <= MaxDepth
    BY <1>1, <1>2, <1>3, <1>4, HeightBounds
  <2>4. /\ IsFiniteSet(U) /\ Cardinality(U) \in Nat /\ IsFiniteSet(P) /\ Cardinality(P) \in Nat
    BY <1>6, <2>2, FS_Subset, FS_CardinalityType
  <2>5. Cardinality(U) - 1 <= Height(r)
    <3>1. CASE a \in shown
      BY <1>1, <1>2, <2>1, <3>1, HeightBounds
    <3>2. CASE a \notin shown
      <4>1. Above(parent, shown, a, None) = {a}
        BY <1>4, <1>7, <3>2, AboveByOne
      <4>2. U = {a}
        BY <1>4, <1>7, <3>2, AboveByOne
      <4>3. Cardinality(U) = 1
        BY <4>2, FS_Singleton
      <4> HIDE DEF U, P
      <4> QED
        BY <2>3, <4>3
    <3> QED
      BY <3>1, <3>2
  <2> HIDE DEF U, P, V
  <2>6. IsFiniteSet(U \cup P) /\ Cardinality(U \cup P) <= Cardinality(U) + Cardinality(P)
        /\ Cardinality(U \cup P) \in Nat
    <3>1. IsFiniteSet(U \cap P) /\ Cardinality(U \cap P) \in Nat
      BY <2>4, FS_Subset, FS_CardinalityType
    <3>2. IsFiniteSet(U \cup P) /\ Cardinality(U \cup P) = Cardinality(U) + Cardinality(P) - Cardinality(U \cap P)
      BY <2>4, FS_Union
    <3> QED
      BY <2>4, <3>1, <3>2, FS_CardinalityType
  <2>7. Cardinality(V) <= Cardinality(U \cup P) /\ Cardinality(V) \in Nat
    BY <2>1, <2>6, FS_Subset, FS_CardinalityType
  <2>8. Cardinality(V) <= MaxDepth
    BY <1>6, <2>3, <2>4, <2>5, <2>6, <2>7
  <2> QED
    BY <2>8 DEF V
<1> QED
  BY <1>8, <1>9

\* Whoever stays is at most as deep as it was.
LEMMA TakeOffKeepsDepth ==
    ASSUME DepthInv, TypeOK', {"race", "branch"} \cap past' = {}, NEW x \in Desks, Save(x),
           tx[x].kind = "remove", MaxDepth >= 3
    PROVE  \A a \in roles' : Cardinality(Chain(a)') <= MaxDepth
<1>1. PICK r : r = tx[x].role
  OBVIOUS
<1>2. /\ roles' = roles /\ r \in Role
      /\ \A a \in Role \cup {None} : a # r => Chain(a)' = Chain(a) \ {r}
      /\ Chain(r)' = {r}
  BY <1>1, TakeOffChains DEF DepthInv
<1>3. TypeOK /\ \A a \in roles : Cardinality(Chain(a)) <= MaxDepth
  BY SaveShape DEF DepthInv, ChartInv, PlaceInv, DepthBounded
<1>4. /\ parent \in [Role -> Role \cup {None}] /\ roles \subseteq Role
      /\ \A a \in Role \cup {None} : Chain(a) = Above(parent, shown, a, None)
  BY <1>3, ChainsAreAbove DEF TypeOK
<1>5. IsFiniteSet(Role) /\ MaxDepth \in Nat
  BY OrganigramAssumption
<1> SUFFICES ASSUME NEW a \in roles
             PROVE  Cardinality(Chain(a)') <= MaxDepth
  BY <1>2
<1>6. CASE a = r
  <2>1. Cardinality({r}) = 1
    BY FS_Singleton
  <2> QED
    BY <1>2, <1>5, <1>6, <2>1
<1>7. CASE a # r
  <2>1. Chain(a)' = Chain(a) \ {r} /\ a \in Role
    BY <1>2, <1>4, <1>7
  <2>2. IsFiniteSet(Chain(a)) /\ Cardinality(Chain(a)) \in Nat
    <3>1. Chain(a) \in SUBSET Role
      BY <1>4, <2>1, AboveIsLeast
    <3> QED
      BY <1>5, <3>1, FS_Subset, FS_CardinalityType
  <2>3. Cardinality(Chain(a) \ {r}) <= Cardinality(Chain(a)) /\ Cardinality(Chain(a) \ {r}) \in Nat
    BY <2>2, FS_Subset, FS_CardinalityType
  <2>4. Cardinality(Chain(a)) <= MaxDepth
    BY <1>3
  <2> QED
    BY <1>5, <2>1, <2>2, <2>3, <2>4
<1> QED
  BY <1>6, <1>7

\* The committee comes on top of nobody that is on the chart; its own posts are
\* three levels deep, even when it was adopted in the place of the elders.
LEMMA AdoptKeepsDepth ==
    ASSUME DepthInv, TypeOK', {"race", "branch"} \cap past' = {},
           NEW x \in Desks, Save(x), tx[x].kind = "adopt", MaxDepth >= 3
    PROVE  \A a \in roles' : Cardinality(Chain(a)') <= MaxDepth
<1>1. /\ tx[x] # None /\ Adopt(tx[x]) /\ MayWrite(tx[x]) /\ TypeOK /\ ElderIsRoot
      /\ \A b \in shown : parent[b] \notin Replaced(tx[x]) \cup Appointed
      /\ \A a \in roles : Cardinality(Chain(a)) <= MaxDepth
  BY SaveShape DEF DepthInv, ChartInv, PlaceInv, FreeInv, DepthBounded
<1>2. PICK from \in SUBSET Role :
        /\ from = Replaced(tx[x]) /\ from \cap Appointed = {}
        /\ roles' = roles /\ shown' = (shown \cup Appointed) \ from
        /\ parent'[Elder] = None /\ parent'[Committee] \in {Elder} \cup Appointed
        /\ \A post \in Posts : parent'[post] = Committee
        /\ \A a \in (Role \ Appointed) \ from : parent[a] \notin from => parent'[a] = parent[a]
  BY <1>1, AdoptShape
<1>3. /\ parent \in [Role -> Role \cup {None}] /\ parent' \in [Role -> Role \cup {None}]
      /\ \A a \in Role \cup {None} : Chain(a) = Above(parent, shown, a, None)
      /\ \A a \in Role \cup {None} : Chain(a)' = Above(parent', shown', a, None)
      /\ shown \subseteq Role /\ roles \subseteq Role
  BY <1>1, ChainsAreAbove, ChainsAreAboveAfter DEF TypeOK
<1>4. /\ Committee \in Role /\ Posts \subseteq Role /\ Elder \in Role /\ None \notin Role
      /\ Appointed = {Committee} \cup Posts /\ Elder \notin Appointed /\ MaxDepth \in Nat
      /\ Committee \notin Posts
  BY Apart, OrganigramAssumption DEF Appointed
<1> SUFFICES ASSUME NEW a \in roles
             PROVE  Cardinality(Above(parent', shown', a, None)) <= MaxDepth
  BY <1>2, <1>3
<1>5. a \in Role
  BY <1>3
<1>6. CASE a \in Appointed
  <2> DEFINE top == parent'[Committee]
             T == {a, Committee, top}
  <2>1. top \in Role /\ (top = Elder \/ top \in Appointed)
    BY <1>2, <1>4
  <2>2. T \in SUBSET Role /\ a \in T
    BY <1>4, <1>5, <2>1
  <2>3. \A b \in T : parent'[b] = None \/ parent'[b] \in T
    BY <1>2, <1>4, <1>6, <2>1
  <2> HIDE DEF T, top
  <2>4. Closed(parent', shown', None, T)
    BY <2>3 DEF Closed
  <2>5. Above(parent', shown', a, None) \subseteq T
    BY <1>3, <1>5, <2>2, <2>4, AboveIsLeast
  <2>6. Above(parent', shown', a, None) \subseteq {a, Committee, top}
    BY <2>5 DEF T
  <2> QED
    BY <1>4, <2>6, SmallSets
<1>7. CASE a \notin Appointed /\ a \in shown /\ a \notin from
  <2> DEFINE T == (Role \ Appointed) \ from
  <2>1. Closed(parent, shown, None, T)
    BY <1>1, <1>2, <1>3 DEF Closed
  <2>2. T \in SUBSET Role /\ a \in T
    BY <1>5, <1>7
  <2>3. \A b \in T : /\ b \in shown <=> b \in shown'
                     /\ b \in shown => parent'[b] = parent[b]
    BY <1>1, <1>2
  <2> HIDE DEF T
  <2>4. Above(parent, shown, a, None) \subseteq T
    BY <1>3, <1>5, <2>1, <2>2, AboveIsLeast
  <2>5. Above(parent', shown', a, None) = Above(parent, shown, a, None)
    BY <1>3, <1>5, <2>3, <2>4, SameAbove
  <2> QED
    BY <1>1, <1>3, <1>5, <2>5
<1>8. CASE a \notin Appointed /\ (a \notin shown \/ a \in from)
  <2>0. a \notin shown' /\ parent' \in [Role -> Role \cup {None}]
    BY <1>2, <1>3, <1>8
  <2>1. Above(parent', shown', a, None) = {a}
    BY <1>5, <2>0, AboveByOne
  <2>2. Cardinality({a}) = 1
    BY FS_Singleton
  <2> QED
    BY <1>4, <2>1, <2>2
<1> QED
  BY <1>6, <1>7, <1>8

\* The inductive step; a role that is created off the chart is a chain of one.
LEMMA DepthStep ==
    ASSUME DepthInv, [Next]_vars, MaxDepth >= 3
    PROVE  DepthInv'
<1>1. ChartInv' /\ TypeOK' /\ TypeOK /\ DepthBounded /\ ChartInv
  BY ChartStep DEF DepthInv, ChartInv, PlaceInv
<1>2. ASSUME NEW x \in Desks, Save(x)
      PROVE  DepthBounded'
  <2> SUFFICES ASSUME {"race", "branch"} \cap past' = {}
               PROVE  \A a \in roles' : Cardinality(Chain(a)') <= MaxDepth
    BY DEF DepthBounded
  <2>2. CASE tx[x].kind = "remove"
    BY <1>1, <1>2, <2>2, TakeOffKeepsDepth
  <2>3. CASE tx[x].kind = "adopt"
    BY <1>1, <1>2, <2>3, AdoptKeepsDepth
  <2>4. CASE tx[x].kind \notin {"remove", "adopt"}
    BY <1>1, <1>2, <2>4, HangKeepsDepth
  <2> QED
    BY <2>2, <2>3, <2>4
<1>3. ASSUME NEW r \in Role, Delete(r)
      PROVE  DepthBounded'
  <2>1. /\ shown' = shown \ {r} /\ roles' = roles \ {r} /\ roles \subseteq Role
        /\ \A a \in Role \cup {None} : a # r => Chain(a)' = Chain(a)
    BY <1>1, <1>3, DeleteChains DEF TypeOK
  <2>2. past' = past
    BY <1>3 DEF Delete
  <2>5. \A a \in roles' : a \in roles /\ Chain(a)' = Chain(a)
    BY <2>1
  <2>6. DepthBounded'
    BY <1>1, <2>2, <2>5 DEF DepthBounded
  <2> QED
    BY <2>6
<1>4. ASSUME UNCHANGED <<shown, parent, past>>,
             \A r \in roles' : r \in roles \/ (r \in Role \ roles)
      PROVE  DepthBounded'
  <2>1. \A r : Chain(r)' = Chain(r)
    BY <1>4, SameParentsChains
  <2>2. \A r \in Role \ roles : Cardinality(Chain(r)) <= MaxDepth
    <3> SUFFICES ASSUME NEW r \in Role \ roles
                 PROVE  Cardinality(Chain(r)) <= MaxDepth
      OBVIOUS
    <3>1. r \notin shown /\ parent \in [Role -> Role \cup {None}]
          /\ Chain(r) = Above(parent, shown, r, None)
      BY <1>1, ChainsAreAbove DEF TypeOK
    <3>2. Chain(r) = {r}
      BY <3>1, AboveByOne
    <3>3. Cardinality(Chain(r)) = 1
      BY <3>2, FS_Singleton
    <3> QED
      BY <3>3, OrganigramAssumption
  <2> SUFFICES ASSUME {"race", "branch"} \cap past = {}, NEW r \in roles'
               PROVE  Cardinality(Chain(r)) <= MaxDepth
    BY <1>4, <2>1 DEF DepthBounded
  <2> QED
    BY <1>1, <1>4, <2>2 DEF DepthBounded
<1>5. \/ UNCHANGED <<shown, parent, past>>
      \/ \E x \in Desks : Save(x)
      \/ \E r \in Role : Delete(r)
  BY WhoWrites
<1>6. \A r \in roles' : r \in roles \/ (r \in Role \ roles)
  BY <1>1 DEF TypeOK
<1>7. DepthBounded'
  BY <1>2, <1>3, <1>4, <1>5, <1>6
<1> QED
  BY <1>1, <1>7 DEF DepthInv

\* No chain is longer than the limit, whole branches moved, attached or lifted, as
\* long as every write was decided on the tree it changed and no adoption took a
\* branch along; the default chart takes three levels (assertCanSetParent).
THEOREM NoChainTooLong ==
    ASSUME MaxDepth >= 3
    PROVE  Spec => []DepthBounded
<1>1. ASSUME Init
      PROVE  DepthInv
  <2>1. ChartInv /\ TypeOK
    BY <1>1, InitChart, InitTypes DEF ForestInv
  <2>2. \A a \in Role : Cardinality(Chain(a)) <= MaxDepth
    <3> SUFFICES ASSUME NEW a \in Role
                 PROVE  Cardinality(Chain(a)) <= MaxDepth
      OBVIOUS
    <3>1. Chain(a) \subseteq {a, Committee, Elder}
      BY <1>1, InitChains
    <3> HIDE DEF Chain
    <3>2. Cardinality(Chain(a)) \in Nat /\ Cardinality(Chain(a)) <= 3
      BY <3>1, SmallSets
    <3> QED
      BY <3>2, OrganigramAssumption
  <2>3. DepthBounded
    BY <2>1, <2>2 DEF DepthBounded, TypeOK
  <2> QED
    BY <2>1, <2>3 DEF DepthInv
<1>2. DepthInv /\ [Next]_vars => DepthInv'
  BY DepthStep
<1>3. DepthInv => DepthBounded
  BY DEF DepthInv
<1> QED BY <1>1, <1>2, <1>3, PTL DEF Spec
=============================================================================
