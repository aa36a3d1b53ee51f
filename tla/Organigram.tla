----------------------------- MODULE Organigram -----------------------------
(***************************************************************************)
(* The organisation chart of a congregation: which roles are on it and     *)
(* which role each one hangs under.                                        *)
(*                                                                         *)
(* A request is a transaction under READ COMMITTED that reads the tree and *)
(* is accepted or refused (Begin...), then writes (Save): nothing locks    *)
(* the tree in between, so another request may change it.  A refusal       *)
(* changes nothing, but for a service that was created to be attached.     *)
(* The order of siblings and the members of the roles are left out.        *)
(***************************************************************************)
EXTENDS Integers, FiniteSets, FiniteSetsExt

CONSTANTS
    Desks,          \* connections that edit the chart
    Elder,          \* the roster of the elders
    Rosters,        \* the rosters that may sit on the chart
    Committee,      \* the service committee
    Posts,          \* its posts
    Services,       \* the roles a congregation makes itself
    Sources,        \* the roles the adoption may be told to replace, rosters included
    MaxDepth,       \* MAX_ORGANIGRAM_DEPTH
    None

Appointed == {Committee} \cup Posts
BuiltIn == Rosters \cup Appointed
Role == BuiltIn \cup Services

ASSUME OrganigramAssumption ==
    /\ Elder \in Rosters /\ Committee \notin Posts
    /\ Rosters \cap Appointed = {} /\ Services \cap BuiltIn = {}
    /\ IsFiniteSet(Role) /\ None \notin Role
    /\ Sources \subseteq Role \ Appointed
    /\ MaxDepth \in Nat

VARIABLES
    roles,      \* the roles that exist
    shown,      \* those on the chart (showInOrganigram)
    parent,     \* parent[r]: the role r hangs under (parentRoleId)
    tx,         \* tx[x]: the request of desk x, or None
    past        \* history: what happened that the promises of the chart depend on

vars == <<roles, shown, parent, tx, past>>

Choice == [Appointed -> Sources \cup {None}]

Request ==
    [ kind : {"add", "create", "move", "remove", "adopt"},
      role : Role,
      to : Role \cup {None},    \* the parent asked for, or the one found
      choice : Choice,          \* which role each post replaces
      stale : BOOLEAN ]         \* history: another request wrote since it was decided

\* None is neither a request nor a desk.
ASSUME RequestAssumption == None \notin Request /\ None \notin Desks

NoChoice == [a \in Appointed |-> None]

-----------------------------------------------------------------------------
\* The roles from r upwards, r included, until `stop`, or until one that is not
\* on the chart: the readers see the links of the roles that are shown.
Upwards(r, stop) ==
    LET reach[n \in 0..Cardinality(Role)] ==
            IF n = 0 THEN {r} \ {None}
            ELSE LET below == reach[n - 1]
                 IN  below \cup ({parent[a] : a \in (below \cap shown) \ {stop}} \ {None})
    IN  reach[Cardinality(Role)]

Chain(r) == Upwards(r, None)

\* Mutant: only the role itself is counted.
HeightIgnored(r) == 0

\* The levels below r.
Height(r) ==
    Max({0} \cup {Cardinality(Upwards(d, r)) - 1 : d \in {d \in shown : r \in Upwards(d, r)}})

\* Mutant: no look for a cycle.
MayHangAnywhere(r, p) ==
    /\ r \in Rosters <=> p = None
    /\ r \notin Appointed
    /\ Cardinality(Chain(p)) + 1 + Height(r) <= MaxDepth

\* Mutant: a service may be a root.
MayHangOnTop(r, p) ==
    /\ r \in Rosters => p = None
    /\ r \notin Appointed
    /\ r \notin Chain(p)
    /\ Cardinality(Chain(p)) + 1 + Height(r) <= MaxDepth

\* assertCanSetParent: the rosters are the roots and only they are, what is
\* appointed stays, and neither a cycle nor too deep a chain is made.
MayHang(r, p) ==
    /\ r \in Rosters <=> p = None
    /\ r \notin Appointed
    /\ r \notin Chain(p)
    /\ Cardinality(Chain(p)) + 1 + Height(r) <= MaxDepth

Begin(x, kind, r, p, choice) ==
    /\ tx[x] = None
    /\ tx' = [tx EXCEPT ![x] =
                [ kind |-> kind, role |-> r, to |-> p, choice |-> choice, stale |-> FALSE ]]
    /\ UNCHANGED <<roles, shown, parent, past>>

\* An existing role is put on the chart.
BeginAdd(x, r, p) ==
    /\ Begin(x, "add", r, p, NoChoice)
    /\ r \in roles /\ p \in roles \cup {None}
    /\ MayHang(r, p)

\* A service is created on the chart.
BeginCreate(x, r, p) ==
    /\ Begin(x, "create", r, p, NoChoice)
    /\ r \in Services \ roles /\ p \in roles \cup {None}
    /\ MayHang(r, p)

\* The refusal is shown as a message, and the transaction commits the creation.
CreateOnly(r, p) ==
    /\ r \in Services \ roles /\ p \in roles \cup {None}
    /\ ~MayHang(r, p)
    /\ roles' = roles \cup {r}
    /\ UNCHANGED <<shown, parent, tx, past>>

\* Mutant: what is off the chart moves too.
BeginMoveAny(x, r, p) ==
    /\ Begin(x, "move", r, p, NoChoice)
    /\ r \in roles /\ p \in roles \cup {None}
    /\ MayHang(r, p)

BeginMove(x, r, p) ==
    /\ Begin(x, "move", r, p, NoChoice)
    /\ r \in shown /\ p \in roles \cup {None}
    /\ MayHang(r, p)

\* Mutant: whoever may leave.
BeginRemoveAny(x, r) ==
    /\ r \in roles
    /\ Begin(x, "remove", r, parent[r], NoChoice)

\* The parent of the role is read: its children go there.
BeginRemove(x, r) ==
    /\ r \in roles \ Appointed
    /\ Begin(x, "remove", r, parent[r], NoChoice)

\* The committee is adopted once, and may replace roles made by hand.
BeginAdopt(x, choice) ==
    /\ Committee \notin shown
    /\ \A a \in Appointed : choice[a] \in roles \cup {None}
    /\ Begin(x, "adopt", Committee, None, choice)

-----------------------------------------------------------------------------
\* The rows and the keys the write needs are still there, or it fails.
MayWrite(q) ==
    /\ IF q.kind = "create" THEN q.role \notin roles ELSE q.role \in roles
    /\ \/ q.to \in roles \cup {None}
       \/ q.kind = "remove" /\ \A r \in Role : parent[r] # q.role
    /\ \A a \in Appointed : q.choice[a] \in roles \cup {None}

\* updateMany: everything under a role of DOMAIN heir goes to its heir.
Rehung(links, heir) ==
    [r \in Role |-> IF links[r] \in DOMAIN heir THEN heir[links[r]] ELSE links[r]]

Hang(q) ==
    /\ roles' = roles \cup {q.role}
    /\ shown' = IF q.kind = "move" THEN shown ELSE shown \cup {q.role}
    /\ parent' = [parent EXCEPT ![q.role] = q.to]

\* Mutant: the role leaves first, so its children go where it is by then.
TakeOffFirst(q) ==
    /\ shown' = shown \ {q.role}
    /\ parent' = [Rehung(parent, [r \in {q.role} |-> None]) EXCEPT ![q.role] = None]
    /\ UNCHANGED roles

\* Taken off the chart, its children lifted.
TakeOff(q) ==
    /\ shown' = shown \ {q.role}
    /\ parent' = [Rehung(parent, [r \in {q.role} |-> q.to]) EXCEPT ![q.role] = None]
    /\ UNCHANGED roles

\* The roles an adoption takes the place of.
Replaced(q) == {q.choice[a] : a \in Appointed} \ {None}

\* The committee goes under the elders and its posts under it; then each role
\* that is replaced hands its children over and leaves, the committee's first.
Adopt(q) ==
    LET from == Replaced(q)
        heir == [r \in from |-> IF q.choice[Committee] = r THEN Committee
                                ELSE CHOOSE a \in Posts : q.choice[a] = r]
        placed == [r \in Role |-> IF r = Committee THEN Elder
                                  ELSE IF r \in Posts THEN Committee ELSE parent[r]]
    IN  /\ shown' = (shown \cup Appointed) \ from
        /\ parent' = [r \in Role |-> IF r \in from THEN None ELSE Rehung(placed, heir)[r]]
        /\ UNCHANGED roles

\* What the write brings about that a promise of the chart depends on: it was
\* decided on a chart that changed ("race"); it hangs a role under one that is off
\* the chart ("offchart"); the committee is adopted in the place of the elders
\* ("elders"), or with a branch that hung under what it replaces or under itself
\* ("branch"); and it leaves what is under a roster without that roster
\* ("rosterless").
Events(q) ==
    (IF q.stale THEN {"race"} ELSE {})
    \cup (IF q.kind \in {"add", "create", "move"} /\ q.to \notin shown \cup {None}
          THEN {"offchart"} ELSE {})
    \cup (IF q.kind = "adopt" /\ Elder \in Replaced(q) THEN {"elders"} ELSE {})
    \cup (IF q.kind = "adopt" /\ \E r \in shown : parent[r] \in Replaced(q) \cup Appointed
          THEN {"branch"} ELSE {})
    \cup (IF \/ q.kind = "remove" /\ q.role \in Rosters
             \/ q.kind = "adopt" /\ (Elder \notin shown \/ Elder \in Replaced(q))
          THEN {"rosterless"} ELSE {})

Outdated(x) ==
    [y \in Desks |-> IF y = x THEN None
                     ELSE IF tx[y] = None THEN None ELSE [tx[y] EXCEPT !.stale = TRUE]]

Save(x) ==
    /\ tx[x] # None /\ MayWrite(tx[x])
    /\ CASE tx[x].kind = "remove" -> TakeOff(tx[x])
         [] tx[x].kind = "adopt" -> Adopt(tx[x])
         [] OTHER -> Hang(tx[x])
    /\ tx' = Outdated(x)
    /\ past' = past \cup Events(tx[x])

Fail(x) ==
    /\ tx[x] # None /\ ~MayWrite(tx[x])
    /\ tx' = [tx EXCEPT ![x] = None]
    /\ UNCHANGED <<roles, shown, parent, past>>

\* A role is deleted when nothing hangs under it: the foreign key refuses it too.
Delete(r) ==
    /\ r \in roles \cap Services
    /\ \A c \in Role : parent[c] # r
    /\ roles' = roles \ {r}
    /\ shown' = shown \ {r}
    /\ parent' = [parent EXCEPT ![r] = None]
    /\ tx' = Outdated(None)
    /\ UNCHANGED past

-----------------------------------------------------------------------------
\* A new congregation gets the default chart; one from before it has an empty
\* chart, and services of its own.
DefaultParent ==
    [r \in Role |-> IF r = Committee THEN Elder ELSE IF r \in Posts THEN Committee ELSE None]

Init ==
    /\ \/ /\ roles = BuiltIn /\ shown = BuiltIn /\ parent = DefaultParent
       \/ /\ \E made \in SUBSET Services : roles = BuiltIn \cup made
          /\ shown = {} /\ parent = [r \in Role |-> None]
    /\ tx = [x \in Desks |-> None]
    /\ past = {}

Next ==
    \/ \E x \in Desks :
          \/ \E r \in Role, p \in Role \cup {None} :
                BeginAdd(x, r, p) \/ BeginCreate(x, r, p) \/ BeginMove(x, r, p)
          \/ \E r \in Role : BeginRemove(x, r)
          \/ \E choice \in Choice : BeginAdopt(x, choice)
          \/ Save(x) \/ Fail(x)
    \/ \E r \in Role, p \in Role \cup {None} : CreateOnly(r, p)
    \/ \E r \in Role : Delete(r)

Spec == Init /\ [][Next]_vars

-----------------------------------------------------------------------------
\* The type, with what the foreign key holds: a parent exists.
TypeOK ==
    /\ BuiltIn \subseteq roles /\ roles \subseteq Role /\ shown \subseteq roles
    /\ parent \in [Role -> roles \cup {None}]
    /\ tx \in [Desks -> Request \cup {None}]
    /\ past \subseteq {"race", "offchart", "elders", "branch", "rosterless"}

\* No role is above itself, unless a write was decided on a chart that had changed
\* or the committee was adopted in the place of the elders, under whom it goes
\* (assertCanSetParent; adoptServiceCommittee re-hangs the committee too).
Acyclic ==
    {"race", "elders"} \cap past = {} => \A r \in shown : r \notin Chain(parent[r])

\* No chain is longer than the limit, whole branches moved, attached or lifted,
\* unless a write was decided on a chart that had changed or an adoption took a
\* branch below the elders (assertCanSetParent is not asked by adoptServiceCommittee).
DepthBounded ==
    {"race", "branch"} \cap past = {} => \A r \in roles : Cardinality(Chain(r)) <= MaxDepth

\* A role off the chart hangs under nobody ("invisible on the page, yet enough to
\* block deleting its parent later"), unless a write was decided on a chart that had
\* changed: setOrganigramParent asks whether the role is shown, the others show it.
OffChartIsFree == "race" \notin past => \A r \in Role \ shown : parent[r] = None

\* Every role on the chart has a roster that is on it above itself, whatever was
\* removed, moved or replaced in between, unless a write was decided on a chart that
\* had changed, a role was hung under one that is off the chart (the policy does not
\* ask), or the roster itself left or was missing when the committee came.
ServicesAnswer ==
    {"race", "offchart", "rosterless"} \cap past = {} =>
        \A r \in shown : Chain(r) \cap shown \cap Rosters # {}

\* The committee and its posts keep their places for good, races included: the
\* posts in the committee, the committee under the elders or, without them, on top,
\* unless it was adopted in their place (assertCanSetParent, assertCanLeaveOrganigram).
CommitteeStands ==
    Committee \in shown =>
        /\ "elders" \notin past => parent[Committee] \in {Elder, None}
        /\ \A post \in Posts : post \in shown /\ parent[post] = Committee

\* Who takes a role off the chart closes the gap: whoever was above whom still is,
\* unless a write was decided on a chart that had changed (removeRoleFromOrganigram
\* lifts the children to the parent it read).
RemovalKeepsTheOrder ==
    [][\A x \in Desks :
          LET q == tx[x] IN
          q # None /\ tx'[x] = None /\ q.kind = "remove" /\ ~q.stale /\ "race" \notin past' =>
              \A r \in shown' : Chain(parent[r])' = Chain(parent[r]) \ {q.role}]_vars
=============================================================================
