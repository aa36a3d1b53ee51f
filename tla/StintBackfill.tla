---------------------------- MODULE StintBackfill ----------------------------
(***************************************************************************)
(* The stints an import derives for a member from the type his monthly     *)
(* reports bear: a run of reports of one standing type is one stint, an    *)
(* auxiliary month is a stint of its own.  They are inserted through the   *)
(* check of PioneerStints, which refuses two that share a month.           *)
(***************************************************************************)
EXTENDS PioneerStints, Sequences, FiniteSetsExt

CONSTANTS
    LastReport,     \* bound: the months that are reported
    MaxActivities   \* bound: rows on file

\* regular and special are two of the types that stand until they are closed.
PublisherTypes == {"normal", "auxiliary", "regular", "special"}
ActivityType == [month : 0..LastReport, type : PublisherTypes]

ASSUME BackfillAssumption ==
    LastReport \in Nat /\ MaxActivities \in Nat /\ None \notin 0..LastReport

VARIABLE activity    \* the PublisherActivity rows, in the order of their identities

isPioneerType(type) == type # "normal"
isAuxiliaryType(type) == type = "auxiliary"

MonthsFiled == { activity[i].month : i \in 1..Len(activity) }

\* The type of each month that was reported: of its latest row.
dedupeLatestPerMonth ==
    [m \in MonthsFiled |-> activity[Max({ i \in 1..Len(activity) : activity[i].month = m })].type]

\* Mutant: every month of a type is of one run.
groupByType(served) ==
    { { n \in DOMAIN served : served[n] = served[m] } : m \in DOMAIN served }

\* Maximal runs of one type: a month without a row does not break a run.
groupRuns(served) ==
    { { n \in DOMAIN served :
          \A k \in DOMAIN served : (m <= k /\ k <= n) \/ (n <= k /\ k <= m) => served[k] = served[m] }
        : m \in DOMAIN served }

singleMonthStint(m, type) == [type |-> type, start |-> m, end |-> m]
annualStint(run, type, ongoing) ==
    [type |-> type, start |-> Min(run), end |-> IF ongoing THEN None ELSE Max(run)]

\* The last run stays ongoing unless its reports are no longer a pioneer's.
Ongoing(served, run) == Max(run) = Max(DOMAIN served) /\ isPioneerType(served[Max(DOMAIN served)])

StintsOf(served, run) ==
    LET type == served[Min(run)]
    IN  IF ~isPioneerType(type) THEN {}
        ELSE IF isAuxiliaryType(type) THEN { singleMonthStint(m, type) : m \in run }
        ELSE { annualStint(run, type, Ongoing(served, run)) }

deriveStintsFromActivity ==
    LET served == dedupeLatestPerMonth
    IN  UNION { StintsOf(served, run) : run \in groupRuns(served) }

-----------------------------------------------------------------------------
\* A report of any month is filed, or filed again.
FileActivity(row) ==
    /\ Len(activity) < MaxActivities
    /\ activity' = Append(activity, row)

BackfillInit == activity = <<>>
BackfillNext == \E row \in ActivityType : FileActivity(row)

BackfillSpec == BackfillInit /\ [][BackfillNext]_activity

-----------------------------------------------------------------------------
IsLatest(i) == \A j \in i + 1..Len(activity) : activity[j].month # activity[i].month

\* The import of a member never fails on stints that share a month; its stints say of
\* every month that was reported what the last report of it says, and let him stand as
\* a pioneer today exactly when his last month does.
BackfillTellsTheReports ==
    activity # <<>> =>
        LET stints == deriveStintsFromActivity
        IN  /\ \A a, b \in stints : a # b => ~enrolmentsOverlap(a, b)
            /\ \A i \in 1..Len(activity) : IsLatest(i) =>
                  /\ { s.type : s \in { s \in stints : coversMonth(s, activity[i].month) } }
                         = {activity[i].type} \ {"normal"}
                  /\ activity[i].month = Max(MonthsFiled) =>
                         ((\E s \in stints : IsOngoing(s)) <=> activity[i].type \in {"regular", "special"})
=============================================================================
