---------------------------- MODULE PioneerStints ----------------------------
(***************************************************************************)
(* One member: the stints as a pioneer, the flags of the Member row, and   *)
(* the identity roles that are stored for both.                            *)
(*                                                                         *)
(* A request is a transaction under READ COMMITTED: it decides (the checks *)
(* it makes before it writes), writes (and holds what it wrote locked),    *)
(* derives the roles the member should have, compares them with the stored *)
(* ones, and is saved.  Between any two of these another request may be    *)
(* saved.                                                                  *)
(***************************************************************************)
EXTENDS Integers

CONSTANTS
    Desks,        \* connections that work on the member
    Stints,       \* identities of PioneerEnrolment rows
    LastMonth,    \* bound: the calendar, in months
    MaxOverlaps,  \* bound: requests saved beside others before all desks rest again
    None

Months == 0..LastMonth
Types == {"auxiliary", "regular"}    \* regular stands for the special ones and missionaries
Fields == {"left", "publisher", "baptized"}
IdentityRoles == {"member", "ministry-school-student", "publisher", "baptized", "pioneer"}

Kinds == {"enrol", "close", "remove", "member"}
Steps == {"decided", "written", "compared"}

\* An ongoing stint has no end.
Stint == [type : Types, start : Months, end : Months \cup {None}]
Flags == [Fields -> BOOLEAN]

ASSUME StintsAssumption ==
    /\ LastMonth \in Nat /\ MaxOverlaps \in Nat
    /\ None \notin Months \cup Stint \cup Flags \cup BOOLEAN \cup Kinds \cup Steps

VARIABLES
    stint,      \* stint[s]: a row, None where there is none
    member,     \* the flags of the Member row
    roles,      \* the MemberRoleAssignment rows
    tx,         \* tx[x]: the request of desk x
    excused,    \* history: stints inserted beside one that was, or closed a second time
    drift,      \* history: the roles were derived, or skipped, before another request was saved
    overlaps    \* requests saved beside others since all desks were at rest

vars == <<stint, member, roles, tx, excused, drift, overlaps>>

Keep == [f \in Fields |-> None]

Request ==
    [ kind : Kinds \cup {None}, step : Steps \cup {None},
      ids : SUBSET Stints,                  \* the rows it inserts, closes or deletes
      row : Stint \cup {None}, end : Months \cup {None},
      flags : [Fields -> BOOLEAN \cup {None}],    \* None: the column is left alone
      before : Flags \cup {None},            \* the flags that an edit of the identity has read
      syncs : BOOLEAN, wanted : SUBSET IdentityRoles,
      added : SUBSET IdentityRoles, removed : SUBSET IdentityRoles,
      missed : SUBSET Kinds,    \* history: what was saved since it decided
      late : BOOLEAN ]          \* history: something was saved since it derived the roles

Rest == [ kind |-> None, step |-> None, ids |-> {}, row |-> None, end |-> None, flags |-> Keep,
          before |-> None, syncs |-> TRUE, wanted |-> {}, added |-> {}, removed |-> {}, missed |-> {}, late |-> FALSE ]

-----------------------------------------------------------------------------
IsOngoing(r) == r.end = None

\* Mutant: two stints may share their month at the boundary.
enrolmentsOverlapInside(a, b) ==
    /\ IsOngoing(b) \/ a.start < b.end
    /\ IsOngoing(a) \/ b.start < a.end

\* Two inclusive ranges of months; an ongoing one never ends.
enrolmentsOverlap(a, b) ==
    /\ IsOngoing(b) \/ a.start <= b.end
    /\ IsOngoing(a) \/ b.start <= a.end

\* coversMonth, by which the reports find their stint.
coversMonth(r, month) == r.start <= month /\ (IsOngoing(r) \/ month <= r.end)

NoOverlap(r) == \A s \in Stints : stint[s] # None => ~enrolmentsOverlap(r, stint[s])

\* BUILT_IN_ROLE_PREDICATES; the other roles follow from flags in the same way.
Desired(f, rows) ==
    IF f["left"] THEN {}
    ELSE {"member"}
         \cup (IF f["publisher"] THEN {"publisher"} ELSE {"ministry-school-student"})
         \cup (IF f["publisher"] /\ f["baptized"] THEN {"baptized"} ELSE {})
         \cup (IF f["publisher"] /\ f["baptized"]
                     /\ \E s \in Stints : rows[s] # None /\ IsOngoing(rows[s])
               THEN {"pioneer"} ELSE {})

-----------------------------------------------------------------------------
(* What a request changes.                                                 *)

RowsAfter(q) ==
    [ s \in Stints |->
        IF s \notin q.ids THEN stint[s]
        ELSE IF q.kind = "enrol" THEN q.row
        ELSE IF q.kind = "remove" \/ stint[s] = None THEN None
        ELSE [stint[s] EXCEPT !.end = q.end] ]

FlagsAfter(q) == [f \in Fields |-> IF q.flags[f] = None THEN member[f] ELSE q.flags[f]]

Alone(x) == \A z \in Desks \ {x} : tx[z] = Rest

MayOverlap == overlaps < MaxOverlaps \/ \A x \in Desks : tx[x] = Rest

Init ==
    /\ stint = [s \in Stints |-> None]
    /\ member \in { f \in Flags : f["publisher"] /\ ~f["left"] }
    /\ roles = Desired(member, stint)
    /\ tx = [x \in Desks |-> Rest]
    /\ excused = {} /\ drift = FALSE /\ overlaps = 0

\* The request q has passed its checks.
Begin(x, q) ==
    /\ tx[x] = Rest /\ MayOverlap
    /\ tx' = [tx EXCEPT ![x] = [q EXCEPT !.step = "decided"]]
    /\ UNCHANGED <<stint, member, roles, excused, drift, overlaps>>

\* enrolPioneer; the database gives an identity to one row only.
Enrol(x, s, r) ==
    /\ stint[s] = None /\ \A z \in Desks : s \notin tx[z].ids
    /\ NoOverlap(r)
    /\ Begin(x, [Rest EXCEPT !.kind = "enrol", !.ids = {s}, !.row = r])

\* The forms offer an appointment that runs until it is closed, and one month.
EnrolStanding(x, s, type, month) == Enrol(x, s, [type |-> type, start |-> month, end |-> None])
EnrolMonthly(x, s, month) == Enrol(x, s, [type |-> "auxiliary", start |-> month, end |-> month])

\* endPioneerEnrolment: the end is compared with the start, and with no other stint.
Close(x, s, month) ==
    /\ stint[s] # None /\ stint[s].start <= month
    /\ Begin(x, [Rest EXCEPT !.kind = "close", !.ids = {s}, !.end = month])

\* endOngoingEnrolmentsOfType, when the settings turn the profile off.
CloseAuxiliaries(x, month) ==
    LET ongoing == { s \in Stints : /\ stint[s] # None /\ stint[s].type = "auxiliary"
                                    /\ IsOngoing(stint[s]) /\ stint[s].start <= month }
    IN  /\ ongoing # {}
        /\ Begin(x, [Rest EXCEPT !.kind = "close", !.ids = ongoing, !.end = month])

Remove(x, s) ==
    /\ stint[s] # None
    /\ Begin(x, [Rest EXCEPT !.kind = "remove", !.ids = {s}])

\* An update of the Member row.
Change(x, flags) == Begin(x, [Rest EXCEPT !.kind = "member", !.flags = flags])

\* setLifecycle: nothing to do is no request.
MarkLeft(x) == ~member["left"] /\ Change(x, [Keep EXCEPT !["left"] = TRUE])
MarkReturned(x) == member["left"] /\ Change(x, [Keep EXCEPT !["left"] = FALSE])

\* togglePublisher syncs whatever the flag was.
TogglePublisher(x, to) == Change(x, [Keep EXCEPT !["publisher"] = to])

\* updateIdentity reads the row first.
UpdateIdentity(x, to) ==
    Begin(x, [Rest EXCEPT !.kind = "member", !.flags = [Keep EXCEPT !["baptized"] = to],
                          !.before = member])

\* haveIdentityFlagsChanged: the row it read, and the row that its update returns, which
\* holds what others have saved meanwhile.  Every other request syncs.
Syncs(q) == q.before # FlagsAfter(q)

\* Rows that another request has written and not committed.
Locked(x, q) ==
    \E z \in Desks \ {x} :
        /\ tx[z].step \in {"written", "compared"}
        /\ (tx[z].kind = "member" /\ q.kind = "member") \/ tx[z].ids \cap q.ids # {}

\* The write, which waits for a lock and fails on a row that is gone, and the read
\* of the flags and of `rows`, the stints.
WriteAndRead(x, rows) ==
    LET q == tx[x]
    IN  /\ q.step = "decided" /\ ~Locked(x, q)
        /\ q.kind \in {"close", "remove"} => \A s \in q.ids : stint[s] # None
        /\ tx' = [tx EXCEPT ![x].step = IF Syncs(q) THEN "written" ELSE "compared",
                            ![x].before = None, ![x].syncs = Syncs(q),
                            ![x].wanted = IF Syncs(q) THEN Desired(FlagsAfter(q), rows) ELSE {}]
        /\ UNCHANGED <<stint, member, roles, excused, drift, overlaps>>

\* Mutant: the sync derives the roles from the stints as they were before the change.
WriteEarly(x) == WriteAndRead(x, stint)

\* A request sees its own change.
Write(x) == WriteAndRead(x, RowsAfter(tx[x]))

\* diffBuiltInAssignments against the stored roles.
Compare(x) ==
    /\ tx[x].step = "written"
    /\ tx' = [tx EXCEPT ![x].step = "compared", ![x].wanted = {},
                        ![x].added = tx[x].wanted \ roles, ![x].removed = roles \ tx[x].wanted]
    /\ UNCHANGED <<stint, member, roles, excused, drift, overlaps>>

\* A request is saved that has derived the roles before another one was saved, or that
\* has skipped them although it puts back a flag which another one has changed.
Drifts(q) == IF q.syncs THEN q.late ELSE drift \/ FlagsAfter(q) # member

\* The roles are written and the transaction commits.  A role that has come
\* meanwhile violates the key of its row.
Save(x) ==
    LET q == tx[x]
    IN  /\ q.step = "compared" /\ q.added \cap roles = {}
        /\ overlaps' = IF Alone(x) THEN 0 ELSE overlaps + 1
        /\ overlaps' <= MaxOverlaps
        /\ stint' = RowsAfter(q) /\ member' = FlagsAfter(q)
        /\ roles' = (roles \cup q.added) \ q.removed
        /\ excused' = { s \in excused : RowsAfter(q)[s] # None } \cup
                      { s \in q.ids : \/ q.kind = "enrol" /\ q.missed \cap {"enrol", "close"} # {}
                                      \/ q.kind = "close" /\ ~IsOngoing(stint[s]) }
        /\ drift' = Drifts(q)
        /\ tx' = [z \in Desks |->
                     IF z = x \/ tx[z] = Rest THEN Rest
                     ELSE [tx[z] EXCEPT !.missed = @ \cup {q.kind}, !.late = tx[z].step # "decided"]]

\* A rollback: a row that is gone, a key that is taken, a deadlock, a lost connection.
Fail(x) ==
    /\ tx[x] # Rest
    /\ tx' = [tx EXCEPT ![x] = Rest]
    /\ overlaps' = IF Alone(x) THEN 0 ELSE overlaps
    /\ UNCHANGED <<stint, member, roles, excused, drift>>

Next ==
    \E x \in Desks :
        \/ \E s \in Stints, type \in Types, month \in Months : EnrolStanding(x, s, type, month)
        \/ \E s \in Stints, month \in Months : EnrolMonthly(x, s, month) \/ Close(x, s, month)
        \/ \E month \in Months : CloseAuxiliaries(x, month)
        \/ \E s \in Stints : Remove(x, s)
        \/ MarkLeft(x) \/ MarkReturned(x)
        \/ \E to \in BOOLEAN : TogglePublisher(x, to) \/ UpdateIdentity(x, to)
        \/ Write(x) \/ Compare(x) \/ Save(x) \/ Fail(x)

Spec == Init /\ [][Next]_vars

-----------------------------------------------------------------------------
\* The rows keep to the schema, and no stint ends before it begins.
TypeOK ==
    /\ stint \in [Stints -> Stint \cup {None}] /\ member \in Flags
    /\ \A s \in Stints : stint[s] # None /\ ~IsOngoing(stint[s]) => stint[s].start <= stint[s].end
    /\ roles \subseteq IdentityRoles /\ tx \in [Desks -> Request]
    /\ excused \subseteq Stints /\ drift \in BOOLEAN /\ overlaps \in 0..MaxOverlaps

\* "No two of a member's stints share a month" (pioneer-enrolment.aggregate.ts): over
\* any sequence of enrolments, closures and removals, when no other stint was saved
\* between the check and the insert, and no stint was closed a second time.
NoSharedMonth ==
    \A s, t \in Stints \ excused, month \in Months :
        s # t /\ stint[s] # None /\ stint[t] # None
            => ~(coversMonth(stint[s], month) /\ coversMonth(stint[t], month))

\* The stored roles are those the flags and the stints imply, whatever requests have
\* run one after the other or beside each other, unless the last one that derived the
\* roles (syncBuiltInRoleAssignments) did so before another one was saved, or an edit
\* of the identity has skipped them and put back a flag that was changed meanwhile.
RolesFollow == ~drift => roles = Desired(member, stint)
=============================================================================
