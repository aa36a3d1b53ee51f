----------------------------- MODULE MCRecords -----------------------------
(***************************************************************************)
(* An instance for TLC of PioneerStints, InactiveStreak, StintBackfill and *)
(* BoardFiles, which have no variable in common: a behaviour is about one  *)
(* of them, while the others are as they begin.                            *)
(***************************************************************************)
EXTENDS PioneerStints, InactiveStreak, StintBackfill, MCBoardFiles

VARIABLE subject    \* what the behaviour is about

recordVars == <<vars, reportVars, activity, boardVars, subject>>

\* The others begin in one way only.
RecordsInit ==
    /\ subject \in {"stints", "reports", "import", "board"}
    /\ Init /\ ReportsInit /\ BackfillInit /\ BoardInit
    /\ subject # "stints" => member["baptized"]
    /\ subject # "board" => \A d \in Documents : doc[d] = Absent

\* Bound: the flags are edited beside another request while at most one stint is stored.
FewRows ==
    \A x, y \in Desks : x # y /\ tx[x].kind = "member" /\ tx[y] # Rest => \E s \in Stints : stint[s] = None

\* Bounds: the file of the document that is there at first is uploaded by nobody, and
\* what happens to one that is not there at first happens one request after the other.
Overlapping == \E x, y \in Connections : x # y /\ Idle \notin {work[x], work[y]}
FewFiles == f1 \in uploaded \/ (f1 \notin uploaded' /\ ~Overlapping')

RecordsNext ==
    /\ UNCHANGED subject
    /\ \/ subject = "stints" /\ Next /\ FewRows' /\ UNCHANGED <<reportVars, activity, boardVars>>
       \/ subject = "reports" /\ ReportsNext /\ UNCHANGED <<vars, activity, boardVars>>
       \/ subject = "import" /\ BackfillNext /\ UNCHANGED <<vars, reportVars, boardVars>>
       \/ subject = "board" /\ BoardNext /\ FewFiles /\ UNCHANGED <<vars, reportVars, activity>>

RecordsSpec == RecordsInit /\ [][RecordsNext]_recordVars

\* Connections, identities and the files that come later are interchangeable.
Alike ==
    Permutations(Desks \cup Connections) \cup Permutations(Stints \cup Jobs)
        \cup Permutations(Pdfs \ {f1})
=============================================================================
