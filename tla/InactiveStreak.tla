--------------------------- MODULE InactiveStreak ---------------------------
(***************************************************************************)
(* When a publisher becomes inactive: his monthly reports, the walk over   *)
(* them that every write of a report starts, and the flag it may set or    *)
(* clear.  Months are numbered.  Two reports may stand for one month, in   *)
(* either order of the query.  One request at a time.                      *)
(***************************************************************************)
EXTENDS Integers, Sequences, FiniteSets, FiniteSetsExt

Seqs == INSTANCE SequencesExt

CONSTANTS
    Horizon,      \* bound: the last month
    MaxReports,   \* bound: reports on file
    Threshold,    \* INACTIVE_STREAK_THRESHOLD, 6 in the code
    Never         \* no onset

\* missed: neither a publisher nor hours; preached: without hours.
ReportKinds == {"missed", "preached", "hours"}
Report == [month : 0..Horizon, kind : ReportKinds]

ASSUME StreakAssumption ==
    Horizon \in Nat /\ MaxReports \in Nat /\ Threshold \in Nat \ {0} /\ Never \notin Int

VARIABLES
    filed,      \* the PublisherActivity rows, newest month first
    inactive,   \* the month from which he is inactive, or Never
    present,    \* he is a publisher and has not left
    reprieved   \* history: cleared, or changed while absent, and not evaluated since

reportVars == <<filed, inactive, present, reprieved>>

-----------------------------------------------------------------------------
isMissedPreachReport(row) == row.kind = "missed"

\* indexActivities: a later row of a month replaces an earlier one.
RowsOf(rows, m) == { i \in 1..Len(rows) : rows[i].month = m }
byMonth(rows, m) == rows[Max(RowsOf(rows, m))]
Misses(rows) == { i \in 1..Len(rows) : isMissedPreachReport(rows[i]) }
oldestMissed(rows) == Min({ rows[i].month : i \in Misses(rows) })

shouldIncludeMonth(rows, m) ==
    IF RowsOf(rows, m) # {} THEN isMissedPreachReport(byMonth(rows, m))
    ELSE m > oldestMissed(rows)

\* The number of months the walk collects, from the newest report backwards.
walkStreak(rows) ==
    LET walk[m \in -1..Horizon] == IF m >= 0 /\ shouldIncludeMonth(rows, m) THEN 1 + walk[m-1] ELSE 0
    IN  walk[rows[1].month]

\* The month after the one that completes the streak.
computeStreakOnset(rows) ==
    IF rows = <<>> \/ ~isMissedPreachReport(rows[1]) THEN Never
    ELSE IF walkStreak(rows) < Threshold THEN Never
    ELSE rows[1].month - (walkStreak(rows) - Threshold) + 1

-----------------------------------------------------------------------------
(* The writes of a report.                                                 *)

\* A report that is written takes its place among the months.
Placed(rows, row) ==
    { Seqs!InsertAt(rows, i, row) : i \in { i \in 1..Len(rows) + 1 :
        /\ \A j \in 1..i - 1 : rows[j].month >= row.month
        /\ \A j \in i..Len(rows) : rows[j].month <= row.month } }

\* evaluateInactiveStatus, once the table is `rows`; `hours` says that a report with
\* hours has just been written.
Evaluate(rows, hours) ==
    /\ filed' = rows
    /\ inactive' = IF ~present THEN inactive
                   ELSE IF inactive # Never THEN IF hours THEN Never ELSE inactive
                   ELSE computeStreakOnset(rows)
    /\ reprieved' = (~present \/ (inactive # Never /\ hours))
    /\ UNCHANGED present

CreateReport(row) ==
    /\ Len(filed) < MaxReports
    /\ \E rows \in Placed(filed, row) : Evaluate(rows, row.kind = "hours")

\* Mutant: a correction clears the flag when any report on file has hours.
UpdateReportAnyHours(i, kind) ==
    \E rows \in Placed(Seqs!RemoveAt(filed, i), [filed[i] EXCEPT !.kind = kind]) :
        Evaluate(rows, \E j \in 1..Len(rows) : rows[j].kind = "hours")

UpdateReport(i, kind) ==
    \E rows \in Placed(Seqs!RemoveAt(filed, i), [filed[i] EXCEPT !.kind = kind]) :
        Evaluate(rows, kind = "hours")

\* Mutant: a report is deleted and nothing is looked at.
DeleteReportOnly(i) ==
    /\ filed' = Seqs!RemoveAt(filed, i)
    /\ UNCHANGED <<inactive, present, reprieved>>

DeleteReport(i) == Evaluate(Seqs!RemoveAt(filed, i), FALSE)

\* By hand: the month is that of the day.  What is so already is left alone.
MarkInactive(month) ==
    /\ inactive = Never
    /\ inactive' = month
    /\ UNCHANGED <<filed, present, reprieved>>

MarkActive ==
    /\ inactive # Never
    /\ inactive' = Never /\ reprieved' = TRUE
    /\ UNCHANGED <<filed, present>>

\* He leaves or returns, or becomes a student or a publisher: the flag is left alone.
TogglePresence ==
    /\ present' = ~present
    /\ UNCHANGED <<filed, inactive, reprieved>>

ReportsInit == filed = <<>> /\ inactive = Never /\ present = TRUE /\ reprieved = FALSE

ReportsNext ==
    \/ \E row \in Report : CreateReport(row)
    \/ \E i \in 1..Len(filed) : DeleteReport(i) \/ \E kind \in ReportKinds : UpdateReport(i, kind)
    \/ \E month \in 0..Horizon : MarkInactive(month)
    \/ MarkActive \/ TogglePresence

ReportsSpec == ReportsInit /\ [][ReportsNext]_reportVars

-----------------------------------------------------------------------------
\* Months on which nothing says that he preached.
Silent(rows, m) == RowsOf(rows, m) = {} \/ isMissedPreachReport(byMonth(rows, m))

\* The rule as the comment of evaluateInactiveStatus puts it, by which a month without a
\* report counts when a missed one is older: he is inactive from month o when the newest
\* report is a missed one, the Threshold months before o and all since are silent, and
\* they begin where the silence does: after the last month he preached, and never before
\* the first missed one.
IsOnset(rows, o) ==
    /\ rows # <<>> /\ isMissedPreachReport(rows[1])
    /\ o - 1 <= rows[1].month
    /\ \A m \in (o - Threshold)..rows[1].month : Silent(rows, m)
    /\ o - Threshold >= oldestMissed(rows)
    /\ o - Threshold = oldestMissed(rows) \/ ~Silent(rows, o - Threshold - 1)

\* From month m to the newest report, every report says that he did not preach, and
\* they are the reports of at least Threshold months.
MissedSince(rows, m) ==
    LET since == { i \in 1..Len(rows) : rows[i].month \in m..rows[1].month }
    IN  /\ \A i \in since : isMissedPreachReport(rows[i])
        /\ Cardinality({ rows[i].month : i \in since }) >= Threshold

\* The table after a report with hours has been added, or a report corrected to hours.
BringsHours(rows, after) ==
    \/ \E row \in Report : row.kind = "hours" /\ after \in Placed(rows, row)
    \/ \E i \in 1..Len(rows) : after \in Placed(Seqs!RemoveAt(rows, i), [rows[i] EXCEPT !.kind = "hours"])

\* Whose newest reports, of Threshold months, all say that he did not preach is flagged
\* (publishers.md, and evaluateInactiveStatus), after any writes, corrections and
\* deletions of reports, absences and pauses by hand; unless the last thing that
\* happened is that the flag was cleared, or that he was absent when a report was
\* written.  Months without a report between them neither help nor harm.
NobodyIsOverlooked ==
    present /\ inactive = Never /\ ~reprieved /\ filed # <<>> =>
        ~\E m \in 0..Horizon : MissedSince(filed, m)

\* A write of a report flags nobody but by the rule of the code's comment and from its
\* month, and clears a flag only when the very report that is written or corrected has
\* hours: a deletion never does, nor does a correction beside older hours.
ReportsFlagByTheRule ==
    [][filed' # filed /\ inactive' # inactive =>
          IF inactive' = Never THEN BringsHours(filed, filed') ELSE IsOnset(filed', inactive')]_reportVars

\* "A missing monthly report does not count toward the streak - only an explicit 'did not
\* preach' entry filed by the elder does" (publishers.md): who is flagged by a write has
\* such entries for Threshold months.
OnlyEntriesCount ==
    [][filed' # filed /\ inactive' # inactive /\ inactive' # Never =>
          Cardinality({ filed'[i].month : i \in Misses(filed') }) >= Threshold]_reportVars
=============================================================================
