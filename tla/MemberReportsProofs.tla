------------------------ MODULE MemberReportsProofs ------------------------
(***************************************************************************)
(* Proofs about what the monthly reports of a member decide, for any       *)
(* number of months and reports.  InactiveStreak: what the walk over the   *)
(* reports finds is an onset of the rule, and it finds one whenever the    *)
(* newest reports are missed ones, so that nobody is flagged against the   *)
(* rule of the code and nobody is overlooked.  StintBackfill: the          *)
(* stints an import derives say of every month what its report says.       *)
(***************************************************************************)
EXTENDS InactiveStreak, StintBackfill, FiniteSetTheorems, SequenceTheorems, NaturalsInduction, WellFoundedInduction, TLAPS

-----------------------------------------------------------------------------
(* Numbers.                                                                *)

LEMMA LeastNumber ==
    ASSUME NEW S \in SUBSET Nat, S # {}
    PROVE  \E m \in S : \A k \in S : m <= k
<1> DEFINE R == {ss \in Nat \X Nat : ss[1] < ss[2]}
<1>1. IsWellFoundedOn(R, Nat)
  BY NatLessThanWellFounded DEF OpToRel
<1>2. \A k, l \in Nat : k < l => <<k, l>> \in R
  OBVIOUS
<1> HIDE DEF R
<1>3. PICK m \in S : \A k \in S : ~ (<<k, m>> \in R)
  BY <1>1, WFMin
<1>4. \A k \in S : ~ (k < m)
  BY <1>2, <1>3
<1>5. \A k \in S : k \in Nat /\ m \in Nat
  OBVIOUS
<1>6. \A k \in S : m <= k
  BY <1>4, <1>5
<1> QED
  BY <1>6

\* The smallest and the largest of some numbers.
LEMMA SmallestOf ==
    ASSUME NEW S \in SUBSET Nat, S # {}
    PROVE  Min(S) \in S /\ \A k \in S : Min(S) <= k
<1>1. \E m \in S : \A k \in S : m =< k
  BY LeastNumber
<1> QED
  BY <1>1 DEF Min

LEMMA LargestOf ==
    ASSUME NEW S \in SUBSET Nat, S # {}, NEW bound \in Nat, \A k \in S : k <= bound
    PROVE  Max(S) \in S /\ \A k \in S : k <= Max(S)
<1> DEFINE above == {n \in Nat : \A k \in S : k <= n}
<1>1. PICK m \in above : \A n \in above : m <= n
  <2>1. above \in SUBSET Nat /\ bound \in above
    OBVIOUS
  <2> HIDE DEF above
  <2> QED
    BY <2>1, LeastNumber
<1>2. m \in Nat /\ \A k \in S : k <= m
  BY <1>1
<1>3. m \in S
  <2> SUFFICES ASSUME m \notin S PROVE FALSE
    OBVIOUS
  <2>0. \A k \in S : k \in Nat /\ k <= m /\ k # m
    BY <1>2
  <2> HIDE DEF above
  <2>1. PICK k0 \in S : k0 \in Nat /\ k0 <= m /\ k0 # m
    BY <2>0
  <2>2. m - 1 \in Nat
    BY <1>2, <2>1
  <2>3. \A k \in S : k <= m - 1
    BY <1>2, <2>0
  <2>4. m - 1 \in above
    BY <2>2, <2>3 DEF above
  <2>5. m <= m - 1
    BY <1>1, <2>4
  <2> QED
    BY <1>2, <2>5
<1>4. \E y \in S : \A k \in S : y >= k
  BY <1>2, <1>3
<1> QED
  BY <1>4 DEF Max

-----------------------------------------------------------------------------
(* The walk.                                                               *)

Reports == Seq(Report)

\* The report that speaks for a month, and the first missed one.
LEMMA MonthsAreRead ==
    ASSUME NEW rows \in Reports, NEW m
    PROVE  RowsOf(rows, m) # {} =>
               \E i \in 1..Len(rows) : rows[i].month = m /\ byMonth(rows, m) = rows[i]
<1> SUFFICES ASSUME RowsOf(rows, m) # {}
             PROVE  \E i \in 1..Len(rows) : rows[i].month = m /\ byMonth(rows, m) = rows[i]
  OBVIOUS
<1>1. Len(rows) \in Nat
  BY DEF Reports
<1>2. RowsOf(rows, m) \in SUBSET Nat /\ \A k \in RowsOf(rows, m) : k <= Len(rows)
  BY <1>1 DEF RowsOf
<1>3. Max(RowsOf(rows, m)) \in RowsOf(rows, m)
  BY <1>1, <1>2, LargestOf
<1> QED
  BY <1>3 DEF RowsOf, byMonth

LEMMA FirstMissed ==
    ASSUME NEW rows \in Reports, NEW n \in 1..Len(rows), isMissedPreachReport(rows[n])
    PROVE  /\ oldestMissed(rows) \in 0..Horizon /\ oldestMissed(rows) <= rows[n].month
           /\ RowsOf(rows, oldestMissed(rows)) # {}
           /\ \A i \in 1..Len(rows) : isMissedPreachReport(rows[i]) => oldestMissed(rows) <= rows[i].month
<1> DEFINE S == { rows[i].month : i \in Misses(rows) }
<1>1. \A i \in 1..Len(rows) : rows[i].month \in 0..Horizon
  <2>1. \A i \in 1..Len(rows) : rows[i] \in Report
    BY DEF Reports
  <2> QED
    BY <2>1 DEF Report
<1>2. S \in SUBSET Nat /\ rows[n].month \in S /\ S \subseteq 0..Horizon
  BY <1>1, StreakAssumption DEF Misses
<1>3. \A i \in 1..Len(rows) : isMissedPreachReport(rows[i]) => rows[i].month \in S
  BY DEF Misses
<1>4. \A k \in S : \E i \in 1..Len(rows) : rows[i].month = k
  BY DEF Misses
<1>5. oldestMissed(rows) = Min(S)
  BY DEF oldestMissed
<1> HIDE DEF S
<1>6. Min(S) \in S /\ \A k \in S : Min(S) <= k
  BY <1>2, SmallestOf
<1> QED
  BY <1>2, <1>3, <1>4, <1>5, <1>6 DEF RowsOf

\* A month counts when it is silent and not before the first missed one.
LEMMA WhatCounts ==
    ASSUME NEW rows \in Reports, rows # <<>>, isMissedPreachReport(rows[1]), NEW m \in Int
    PROVE  shouldIncludeMonth(rows, m) <=> m >= oldestMissed(rows) /\ Silent(rows, m)
<1>1. 1 \in 1..Len(rows)
  BY DEF Reports
<1>2. /\ oldestMissed(rows) \in Int /\ RowsOf(rows, oldestMissed(rows)) # {}
      /\ \A i \in 1..Len(rows) : isMissedPreachReport(rows[i]) => oldestMissed(rows) <= rows[i].month
  BY <1>1, FirstMissed, StreakAssumption
<1>3. CASE RowsOf(rows, m) # {}
  <2>1. PICK i \in 1..Len(rows) : rows[i].month = m /\ byMonth(rows, m) = rows[i]
    BY <1>3, MonthsAreRead
  <2> QED
    BY <1>2, <1>3, <2>1 DEF shouldIncludeMonth, Silent
<1>4. CASE RowsOf(rows, m) = {}
  <2>1. m # oldestMissed(rows)
    BY <1>2, <1>4
  <2> QED
    BY <1>2, <1>4, <2>1 DEF shouldIncludeMonth, Silent
<1> QED
  BY <1>3, <1>4

\* The walk goes on at a month, and the month at which it stops.
Counts(rows, m) == m >= 0 /\ shouldIncludeMonth(rows, m)
StopsAt(rows, m, n) ==
    /\ n \in -1..m /\ ~Counts(rows, n)
    /\ \A k \in Int : n < k /\ k <= m => Counts(rows, k)

LEMMA TheWalkStops ==
    ASSUME NEW rows, NEW m \in -1..Horizon
    PROVE  \E n \in Int : StopsAt(rows, m, n)
<1>0. m \in Int /\ -1 <= m
  BY StreakAssumption
<1> DEFINE S == {d \in Nat : d <= m + 1 /\ ~Counts(rows, m - d)}
<1>1. S \in SUBSET Nat /\ m + 1 \in S
  BY <1>0 DEF Counts
<1>2. PICK d \in S : \A k \in S : d <= k
  <2> HIDE DEF S
  <2> QED
    BY <1>1, LeastNumber
<1>3. d \in Nat /\ d <= m + 1 /\ ~Counts(rows, m - d) /\ m - d \in Int
  BY <1>0, <1>2
<1>4. ASSUME NEW k \in Int, m - d < k, k <= m  PROVE Counts(rows, k)
  <2>1. m - k \in Nat /\ m - k <= m + 1 /\ m - (m - k) = k /\ ~ (d <= m - k)
    BY <1>0, <1>3, <1>4
  <2>2. m - k \notin S
    <3> HIDE DEF S
    <3> QED
      BY <1>2, <2>1
  <2> QED
    BY <2>1, <2>2
<1>5. StopsAt(rows, m, m - d)
  BY <1>0, <1>3, <1>4 DEF StopsAt
<1> QED
  BY <1>3, <1>5

LEMMA OneStop ==
    ASSUME NEW rows, NEW m \in Int, NEW n \in Int, NEW p \in Int,
           StopsAt(rows, m, n), StopsAt(rows, m, p)
    PROVE  n = p
<1>1. n <= m /\ p <= m
  BY DEF StopsAt
<1> QED
  BY <1>1 DEF StopsAt

Stop(rows, m) == CHOOSE n \in Int : StopsAt(rows, m, n)

LEMMA StopStops ==
    ASSUME NEW rows, NEW m \in -1..Horizon
    PROVE  Stop(rows, m) \in Int /\ StopsAt(rows, m, Stop(rows, m))
  BY TheWalkStops DEF Stop

\* The number of months from the stop up to a month obeys the equation of the walk.
LEMMA StopsGoOn ==
    ASSUME NEW rows, NEW m \in -1..Horizon
    PROVE  /\ ~Counts(rows, m) => Stop(rows, m) = m
           /\ Counts(rows, m) => m - 1 \in -1..Horizon /\ Stop(rows, m) = Stop(rows, m - 1)
<1>0. m \in Int /\ -1 <= m /\ m <= Horizon /\ Horizon \in Int
  BY StreakAssumption
<1>1. Stop(rows, m) \in Int /\ StopsAt(rows, m, Stop(rows, m))
  BY StopStops
<1>2. ASSUME ~Counts(rows, m)  PROVE Stop(rows, m) = m
  <2>1. StopsAt(rows, m, m)
    BY <1>0, <1>2 DEF StopsAt
  <2> QED
    BY <1>0, <1>1, <2>1, OneStop
<1>3. ASSUME Counts(rows, m)  PROVE m - 1 \in -1..Horizon /\ Stop(rows, m) = Stop(rows, m - 1)
  <2>1. m >= 0
    BY <1>3 DEF Counts
  <2>2. m - 1 \in -1..Horizon /\ m - 1 \in Int
    BY <1>0, <2>1
  <2>3. Stop(rows, m - 1) \in Int /\ StopsAt(rows, m - 1, Stop(rows, m - 1))
    BY <2>2, StopStops
  <2>4. ASSUME NEW n \in Int, StopsAt(rows, m - 1, n)  PROVE StopsAt(rows, m, n)
    <3>1. n \in -1..m /\ ~Counts(rows, n)
      BY <1>0, <2>4 DEF StopsAt
    <3>2. ASSUME NEW k \in Int, n < k, k <= m  PROVE Counts(rows, k)
      <4>1. k = m \/ k <= m - 1
        BY <1>0, <3>2
      <4> QED
        BY <1>3, <2>4, <3>2, <4>1 DEF StopsAt
    <3> QED
      BY <3>1, <3>2 DEF StopsAt
  <2> QED
    BY <1>0, <1>1, <2>2, <2>3, <2>4, OneStop
<1> QED
  BY <1>2, <1>3

\* Any function that obeys the equation counts the months since the stop.
Walks(rows, w) ==
    w = [m \in -1..Horizon |-> IF m >= 0 /\ shouldIncludeMonth(rows, m) THEN 1 + w[m-1] ELSE 0]

LEMMA SomethingWalks ==
    ASSUME NEW rows
    PROVE  \E w : Walks(rows, w)
<1> DEFINE w == [m \in -1..Horizon |-> m - Stop(rows, m)]
<1>1. ASSUME NEW m \in -1..Horizon
      PROVE  w[m] = IF m >= 0 /\ shouldIncludeMonth(rows, m) THEN 1 + w[m-1] ELSE 0
  <2>0. m \in Int /\ Stop(rows, m) \in Int
    BY StopStops, StreakAssumption
  <2>1. CASE Counts(rows, m)
    <3>1. m - 1 \in -1..Horizon /\ Stop(rows, m) = Stop(rows, m - 1)
      BY <2>1, StopsGoOn
    <3>2. w[m] = m - Stop(rows, m) /\ w[m-1] = (m - 1) - Stop(rows, m)
      BY <3>1
    <3> HIDE DEF w
    <3>3. w[m] = 1 + w[m-1]
      BY <2>0, <3>2
    <3> QED
      BY <2>1, <3>3 DEF Counts
  <2>2. CASE ~Counts(rows, m)
    <3>1. Stop(rows, m) = m
      BY <2>2, StopsGoOn
    <3>2. w[m] = 0
      BY <2>0, <3>1
    <3> HIDE DEF w
    <3> QED
      BY <2>2, <3>2 DEF Counts
  <2> QED
    BY <2>1, <2>2
<1>2. DOMAIN w = -1..Horizon /\ w = [m \in -1..Horizon |-> w[m]]
  OBVIOUS
<1> HIDE DEF w
<1>3. w = [m \in -1..Horizon |-> IF m >= 0 /\ shouldIncludeMonth(rows, m) THEN 1 + w[m-1] ELSE 0]
  BY <1>1, <1>2
<1> QED
  BY <1>3 DEF Walks

LEMMA WalksCount ==
    ASSUME NEW rows, NEW w, Walks(rows, w), NEW top \in -1..Horizon
    PROVE  w[top] = top - Stop(rows, top)
<1>0. ASSUME NEW m \in -1..Horizon
      PROVE  w[m] = IF Counts(rows, m) THEN 1 + w[m-1] ELSE 0
  BY DEF Walks, Counts
<1> DEFINE S == {d \in Nat : d - 1 \in -1..Horizon /\ w[d - 1] # (d - 1) - Stop(rows, d - 1)}
<1> SUFFICES ASSUME w[top] # top - Stop(rows, top)  PROVE FALSE
  OBVIOUS
<1>1. S \in SUBSET Nat /\ top + 1 \in S
  <2>1. top + 1 \in Nat /\ (top + 1) - 1 = top
    BY StreakAssumption
  <2> QED
    BY <2>1
<1>2. PICK d \in S : \A k \in S : d <= k
  <2> HIDE DEF S
  <2> QED
    BY <1>1, LeastNumber
<1>3. PICK m \in -1..Horizon : m = d - 1 /\ w[m] # m - Stop(rows, m)
  BY <1>2
<1>4. m \in Int /\ d \in Nat /\ d = m + 1 /\ Stop(rows, m) \in Int
  BY <1>2, <1>3, StopStops, StreakAssumption
<1>5. CASE Counts(rows, m)
  <2>1. m - 1 \in -1..Horizon /\ Stop(rows, m) = Stop(rows, m - 1)
    BY <1>5, StopsGoOn
  <2>2. m \in Nat /\ ~ (d <= m)
    BY <1>4, <2>1
  <2>3. m \notin S
    <3> HIDE DEF S
    <3> QED
      BY <1>2, <2>2
  <2>4. w[m - 1] = (m - 1) - Stop(rows, m)
    BY <2>1, <2>2, <2>3
  <2>5. w[m] = 1 + w[m - 1]
    BY <1>0, <1>5
  <2> HIDE DEF S
  <2> QED
    BY <1>3, <1>4, <2>4, <2>5
<1>6. CASE ~Counts(rows, m)
  <2>1. w[m] = 0 /\ Stop(rows, m) = m
    BY <1>0, <1>6, StopsGoOn
  <2> QED
    BY <1>3, <1>4, <2>1
<1> QED
  BY <1>5, <1>6

\* What the walk over the reports collects.
LEMMA WalkCounts ==
    ASSUME NEW rows, rows[1].month \in -1..Horizon
    PROVE  walkStreak(rows) = rows[1].month - Stop(rows, rows[1].month)
<1> DEFINE w == CHOOSE w : Walks(rows, w)
<1>1. Walks(rows, w)
  BY SomethingWalks
<1>2. walkStreak(rows) = w[rows[1].month]
  BY DEF walkStreak, Walks
<1> HIDE DEF w
<1> QED
  BY <1>1, <1>2, WalksCount

-----------------------------------------------------------------------------
(* The onset and the rule.                                                 *)

LEMMA NewestIsMissed ==
    ASSUME NEW rows \in Reports, rows # <<>>, isMissedPreachReport(rows[1])
    PROVE  /\ 1 \in 1..Len(rows)
           /\ rows[1].month \in 0..Horizon /\ oldestMissed(rows) \in 0..Horizon
           /\ rows[1].month \in Int /\ oldestMissed(rows) \in Int
           /\ 0 <= oldestMissed(rows) /\ oldestMissed(rows) <= rows[1].month
<1>1. 1 \in 1..Len(rows) /\ rows[1] \in Report
  BY DEF Reports
<1>2. oldestMissed(rows) \in 0..Horizon /\ oldestMissed(rows) <= rows[1].month
  BY <1>1, FirstMissed
<1>3. rows[1].month \in 0..Horizon
  BY <1>1 DEF Report
<1> QED
  BY <1>1, <1>2, <1>3, StreakAssumption

LEMMA MonthsThatCount ==
    ASSUME NEW rows \in Reports, rows # <<>>, isMissedPreachReport(rows[1]), NEW m \in Int
    PROVE  Counts(rows, m) <=> m >= oldestMissed(rows) /\ Silent(rows, m)
<1>1. oldestMissed(rows) \in Int /\ 0 <= oldestMissed(rows)
  BY NewestIsMissed
<1> QED
  BY <1>1, WhatCounts DEF Counts

\* The walk as the rule reads it.
LEMMA TheStreak ==
    ASSUME NEW rows \in Reports, rows # <<>>, isMissedPreachReport(rows[1])
    PROVE  \E n \in Int :
              /\ StopsAt(rows, rows[1].month, n)
              /\ walkStreak(rows) = rows[1].month - n
              /\ -1 <= n /\ n <= rows[1].month
<1>1. rows[1].month \in -1..Horizon /\ rows[1].month \in Int
  BY NewestIsMissed, StreakAssumption
<1>2. walkStreak(rows) = rows[1].month - Stop(rows, rows[1].month)
  BY <1>1, WalkCounts
<1>3. Stop(rows, rows[1].month) \in Int /\ StopsAt(rows, rows[1].month, Stop(rows, rows[1].month))
  BY <1>1, StopStops
<1>4. -1 <= Stop(rows, rows[1].month) /\ Stop(rows, rows[1].month) <= rows[1].month
  BY <1>1, <1>3 DEF StopsAt
<1> QED
  BY <1>2, <1>3, <1>4

\* What the code finds is an onset of the rule.
LEMMA TheOnsetIsTheRules ==
    ASSUME NEW rows \in Reports, computeStreakOnset(rows) # Never
    PROVE  computeStreakOnset(rows) \in Int /\ IsOnset(rows, computeStreakOnset(rows))
<1>1. rows # <<>> /\ isMissedPreachReport(rows[1]) /\ ~ (walkStreak(rows) < Threshold)
  BY DEF computeStreakOnset
<1>2. computeStreakOnset(rows) = rows[1].month - (walkStreak(rows) - Threshold) + 1
  BY <1>1 DEF computeStreakOnset
<1>3. /\ rows[1].month \in Int /\ oldestMissed(rows) \in Int
      /\ 0 <= oldestMissed(rows) /\ oldestMissed(rows) <= rows[1].month
  BY <1>1, NewestIsMissed
<1>4. PICK n \in Int : /\ StopsAt(rows, rows[1].month, n)
                       /\ walkStreak(rows) = rows[1].month - n
                       /\ -1 <= n /\ n <= rows[1].month
  BY <1>1, TheStreak
<1> DEFINE o == n + 1 + Threshold
<1>5. Threshold \in Int /\ 0 < Threshold
  BY StreakAssumption
<1>6. computeStreakOnset(rows) = o
  BY <1>2, <1>3, <1>4, <1>5
<1>7. o \in Int /\ o - Threshold = n + 1 /\ o - Threshold - 1 = n /\ o - 1 <= rows[1].month
  BY <1>1, <1>3, <1>4, <1>5
<1>8. n < rows[1].month
  BY <1>1, <1>3, <1>4, <1>5
<1>9. \A m \in Int : n < m /\ m <= rows[1].month => m >= oldestMissed(rows) /\ Silent(rows, m)
  BY <1>1, <1>4, MonthsThatCount DEF StopsAt
<1>10. n + 1 >= oldestMissed(rows)
  BY <1>3, <1>8, <1>9
<1>11. ~ (n >= oldestMissed(rows) /\ Silent(rows, n))
  BY <1>1, <1>4, MonthsThatCount DEF StopsAt
<1>12. n + 1 = oldestMissed(rows) \/ ~Silent(rows, n)
  BY <1>3, <1>10, <1>11
<1>13. \A m \in (n + 1)..rows[1].month : Silent(rows, m)
  BY <1>3, <1>9
<1> HIDE DEF o
<1> QED
  BY <1>1, <1>6, <1>7, <1>10, <1>12, <1>13 DEF IsOnset

\* And the code finds one when the newest reports, of Threshold months, are missed: the
\* walk does not stop before the oldest of them.
LEMMA MissedMonthsAreFound ==
    ASSUME NEW rows \in Reports, rows # <<>>, NEW m \in 0..Horizon, MissedSince(rows, m)
    PROVE  computeStreakOnset(rows) # Never
<1> DEFINE since == { i \in 1..Len(rows) : rows[i].month \in m..rows[1].month }
           months == { rows[i].month : i \in since }
<1>1. /\ \A i \in since : isMissedPreachReport(rows[i])
      /\ Cardinality(months) >= Threshold
  BY DEF MissedSince
<1>2. /\ 1 \in 1..Len(rows) /\ m \in Int /\ Threshold \in Int /\ 0 < Threshold
      /\ \A i \in 1..Len(rows) : rows[i].month \in Int
  <2>1. \A i \in 1..Len(rows) : rows[i] \in Report
    BY DEF Reports
  <2> QED
    BY <2>1, StreakAssumption DEF Reports, Report
<1>3. \A k \in months : k \in Int /\ m <= k /\ k <= rows[1].month
  BY <1>2
<1>4. months # {}
  <2> HIDE DEF months
  <2> SUFFICES ASSUME months = {}  PROVE FALSE
    OBVIOUS
  <2>1. Cardinality(months) = 0
    BY FS_EmptySet, Zenon
  <2> QED
    BY <1>1, <1>2, <2>1
<1>5. isMissedPreachReport(rows[1])
  <2>1. m <= rows[1].month
    BY <1>2, <1>3, <1>4
  <2>2. 1 \in since
    BY <1>2, <2>1
  <2> QED
    BY <1>1, <2>2
<1>6. PICK n \in Int : /\ StopsAt(rows, rows[1].month, n)
                       /\ walkStreak(rows) = rows[1].month - n
                       /\ -1 <= n /\ n <= rows[1].month
  BY <1>5, TheStreak
<1>7. \A k \in months : n < k
  <2> SUFFICES ASSUME NEW j \in since, rows[j].month <= n  PROVE FALSE
    BY <1>2, <1>6
  <2>1. isMissedPreachReport(rows[j]) /\ rows[j].month \in Int /\ m <= rows[j].month
    BY <1>1, <1>2
  <2>2. oldestMissed(rows) \in Int /\ oldestMissed(rows) <= rows[j].month
    BY <2>1, FirstMissed, StreakAssumption
  <2>3. Silent(rows, n)
    <3> SUFFICES ASSUME RowsOf(rows, n) # {}  PROVE isMissedPreachReport(byMonth(rows, n))
      BY DEF Silent
    <3>1. PICK i \in 1..Len(rows) : rows[i].month = n /\ byMonth(rows, n) = rows[i]
      BY MonthsAreRead
    <3>2. i \in since
      BY <1>2, <1>6, <2>1, <3>1
    <3> QED
      BY <1>1, <3>1, <3>2
  <2>4. Counts(rows, n)
    <3>1. n >= oldestMissed(rows)
      BY <1>6, <2>1, <2>2
    <3> QED
      BY <1>5, <1>6, <2>3, <3>1, MonthsThatCount
  <2> QED
    BY <1>6, <2>4 DEF StopsAt
<1>8. /\ Cardinality(months) \in Int
      /\ Cardinality(months) <= rows[1].month - n
  <2>1. months \subseteq (n + 1)..rows[1].month
    <3> HIDE DEF months
    <3> QED
      BY <1>2, <1>3, <1>6, <1>7
  <2>2. n + 1 \in Int /\ rows[1].month \in Int
    BY <1>2, <1>6
  <2>3. /\ IsFiniteSet((n + 1)..rows[1].month)
        /\ Cardinality((n + 1)..rows[1].month) = IF n + 1 > rows[1].month THEN 0 ELSE rows[1].month - (n + 1) + 1
    BY <2>2, FS_Interval
  <2>4. Cardinality((n + 1)..rows[1].month) = rows[1].month - n
    BY <1>2, <1>6, <2>3
  <2> HIDE DEF months
  <2>5. IsFiniteSet(months) /\ Cardinality(months) <= Cardinality((n + 1)..rows[1].month)
    BY <2>1, <2>3, FS_Subset
  <2>6. Cardinality(months) \in Int
    BY <2>5, FS_CardinalityType
  <2> QED
    BY <2>4, <2>5, <2>6
<1>9. walkStreak(rows) \in Int /\ ~ (walkStreak(rows) < Threshold)
  <2> HIDE DEF months
  <2> QED
    BY <1>1, <1>2, <1>6, <1>8
<1>10. rows[1].month - (walkStreak(rows) - Threshold) + 1 # Never
  BY <1>2, <1>9, StreakAssumption
<1> QED
  BY <1>5, <1>9, <1>10 DEF computeStreakOnset

-----------------------------------------------------------------------------
(* Reports that come and go.                                               *)

LEMMA PartsAreReports ==
    ASSUME NEW rows \in Reports, NEW a \in Int, NEW b \in Int, 1 <= a, b <= Len(rows)
    PROVE  /\ SubSeq(rows, a, b) \in Reports
           /\ Len(SubSeq(rows, a, b)) = IF a <= b THEN b - a + 1 ELSE 0
<1>1. \A i \in a..b : rows[i] \in Report
  BY DEF Reports
<1> QED
  BY <1>1, SubSeqProperties DEF Reports

LEMMA RemovedReports ==
    ASSUME NEW rows \in Reports, NEW i \in 1..Len(rows)
    PROVE  Seqs!RemoveAt(rows, i) \in Reports /\ Len(Seqs!RemoveAt(rows, i)) = Len(rows) - 1
<1>1. Len(rows) \in Nat /\ i \in Int
  BY DEF Reports
<1>2. SubSeq(rows, 1, i-1) \in Reports /\ Len(SubSeq(rows, 1, i-1)) = i - 1
  BY <1>1, PartsAreReports
<1>3. SubSeq(rows, i+1, Len(rows)) \in Reports /\ Len(SubSeq(rows, i+1, Len(rows))) = Len(rows) - i
  BY <1>1, PartsAreReports
<1> DEFINE kept == SubSeq(rows, 1, i-1) \o SubSeq(rows, i+1, Len(rows))
<1>4. /\ kept \in Reports
      /\ Len(kept) = Len(SubSeq(rows, 1, i-1)) + Len(SubSeq(rows, i+1, Len(rows)))
  BY <1>2, <1>3, ConcatProperties DEF Reports
<1>5. Seqs!RemoveAt(rows, i) = kept
  BY DEF Seqs!RemoveAt
<1>6. i - 1 + (Len(rows) - i) = Len(rows) - 1
  BY <1>1
<1>7. Len(kept) = Len(rows) - 1
  BY <1>2, <1>3, <1>4, <1>6
<1> HIDE DEF kept
<1> QED
  BY <1>4, <1>5, <1>7

\* Whatever place a report is given.
LEMMA PlacedReports ==
    ASSUME NEW rows \in Reports, NEW row \in Report, NEW after \in Placed(rows, row)
    PROVE  after \in Reports
<1>1. PICK i \in 1..Len(rows) + 1 : after = Seqs!InsertAt(rows, i, row)
  BY DEF Placed
<1>2. Len(rows) \in Nat /\ i \in Int
  BY DEF Reports
<1>3. SubSeq(rows, 1, i-1) \in Reports /\ Len(SubSeq(rows, 1, i-1)) = i - 1
  BY <1>2, PartsAreReports
<1>4. SubSeq(rows, i, Len(rows)) \in Reports /\ Len(SubSeq(rows, i, Len(rows))) = Len(rows) + 1 - i
  BY <1>2, PartsAreReports
<1>5. <<row>> \in Reports
  BY DEF Reports
<1> DEFINE head == SubSeq(rows, 1, i-1) \o <<row>>
<1>6. head \in Reports
  BY <1>2, <1>3, <1>5, ConcatProperties DEF Reports
<1>7. after = head \o SubSeq(rows, i, Len(rows))
  BY <1>1 DEF Seqs!InsertAt
<1> HIDE DEF head
<1> QED
  BY <1>4, <1>6, <1>7, ConcatProperties DEF Reports

-----------------------------------------------------------------------------
(* The flag.                                                               *)

\* Who has no flag and is not reprieved has no onset: the last evaluation looked.
FlagInv ==
    /\ filed \in Reports /\ inactive \in Int \cup {Never}
    /\ present \in BOOLEAN /\ reprieved \in BOOLEAN
    /\ inactive = Never /\ ~reprieved => computeStreakOnset(filed) = Never

\* What one write of a report may do to the flag.
FlaggedByTheRule ==
    filed' # filed /\ inactive' # inactive =>
        IF inactive' = Never THEN BringsHours(filed, filed') ELSE IsOnset(filed', inactive')

LEMMA EvaluationKeeps ==
    ASSUME FlagInv, NEW rows \in Reports, NEW hours \in BOOLEAN, Evaluate(rows, hours),
           hours => BringsHours(filed, rows)
    PROVE  FlagInv' /\ FlaggedByTheRule
<1>1. /\ filed' = rows /\ present' = present
      /\ inactive' = IF ~present THEN inactive
                     ELSE IF inactive # Never THEN IF hours THEN Never ELSE inactive
                     ELSE computeStreakOnset(rows)
      /\ reprieved' = (~present \/ (inactive # Never /\ hours))
  BY DEF Evaluate
<1>2. computeStreakOnset(rows) \in Int \cup {Never}
  BY TheOnsetIsTheRules
<1>3. inactive' \in Int \cup {Never}
  BY <1>1, <1>2 DEF FlagInv
<1>4. reprieved' \in BOOLEAN /\ present' \in BOOLEAN
  BY <1>1 DEF FlagInv
<1>5. inactive' = Never /\ ~reprieved' => computeStreakOnset(filed') = Never
  <2> SUFFICES ASSUME inactive' = Never, ~reprieved'  PROVE computeStreakOnset(rows) = Never
    BY <1>1
  <2>1. present /\ ~ (inactive # Never /\ hours)
    BY <1>1
  <2> QED
    BY <1>1, <2>1
<1>6. FlaggedByTheRule
  <2> SUFFICES ASSUME inactive' # inactive
               PROVE  IF inactive' = Never THEN BringsHours(filed, rows) ELSE IsOnset(rows, inactive')
    BY <1>1 DEF FlaggedByTheRule
  <2>1. CASE inactive # Never
    <3>1. inactive' = Never /\ hours
      BY <1>1, <2>1
    <3> QED
      BY <3>1
  <2>2. CASE inactive = Never
    <3>1. inactive' = computeStreakOnset(rows) /\ inactive' # Never
      BY <1>1, <2>2
    <3>2. IsOnset(rows, computeStreakOnset(rows))
      BY <3>1, TheOnsetIsTheRules
    <3> QED
      BY <3>1, <3>2
  <2> QED
    BY <2>1, <2>2
<1> QED
  BY <1>1, <1>3, <1>4, <1>5, <1>6 DEF FlagInv

LEMMA FlagInit == ReportsInit => FlagInv
<1>1. <<>> \in Reports
  BY DEF Reports
<1>2. computeStreakOnset(<<>>) = Never
  BY DEF computeStreakOnset
<1> QED
  BY <1>1, <1>2 DEF ReportsInit, FlagInv

LEMMA FlagStep == FlagInv /\ [ReportsNext]_reportVars => FlagInv' /\ FlaggedByTheRule
<1> SUFFICES ASSUME FlagInv, [ReportsNext]_reportVars  PROVE FlagInv' /\ FlaggedByTheRule
  OBVIOUS
<1>0. filed \in Reports /\ Len(filed) \in Nat
  BY DEF FlagInv, Reports
<1>1. ASSUME NEW row \in Report, CreateReport(row)  PROVE FlagInv' /\ FlaggedByTheRule
  <2>1. PICK rows \in Placed(filed, row) : Evaluate(rows, row.kind = "hours")
    BY <1>1 DEF CreateReport
  <2>2. rows \in Reports
    BY <1>0, PlacedReports
  <2> DEFINE hours == row.kind = "hours"
  <2>3. hours \in BOOLEAN /\ (hours => BringsHours(filed, rows))
    BY DEF BringsHours
  <2>4. Evaluate(rows, hours)
    BY <2>1
  <2> HIDE DEF hours
  <2> QED
    BY <2>2, <2>3, <2>4, EvaluationKeeps
<1>2. ASSUME NEW i \in 1..Len(filed), NEW kind \in ReportKinds, UpdateReport(i, kind)
      PROVE  FlagInv' /\ FlaggedByTheRule
  <2> DEFINE row == [filed[i] EXCEPT !.kind = kind]
  <2>1. row \in Report /\ row.kind = kind
    <3>1. filed[i] \in Report
      BY <1>0 DEF Reports
    <3> QED
      BY <3>1 DEF Report
  <2>2. /\ Seqs!RemoveAt(filed, i) \in Reports
        /\ Len(Seqs!RemoveAt(filed, i)) = Len(filed) - 1
    BY <1>0, RemovedReports
  <2>3. PICK rows \in Placed(Seqs!RemoveAt(filed, i), row) : Evaluate(rows, kind = "hours")
    BY <1>2 DEF UpdateReport
  <2> HIDE DEF row
  <2>4. rows \in Reports
    BY <2>1, <2>2, PlacedReports
  <2> DEFINE hours == kind = "hours"
  <2>5. hours \in BOOLEAN /\ (hours => BringsHours(filed, rows))
    BY DEF BringsHours, row
  <2>6. Evaluate(rows, hours)
    BY <2>3
  <2> HIDE DEF hours
  <2> QED
    BY <2>4, <2>5, <2>6, EvaluationKeeps
<1>3. ASSUME NEW i \in 1..Len(filed), DeleteReport(i)  PROVE FlagInv' /\ FlaggedByTheRule
  <2>1. Seqs!RemoveAt(filed, i) \in Reports
    BY <1>0, RemovedReports
  <2> QED
    BY <1>3, <2>1, EvaluationKeeps DEF DeleteReport
<1>4. ASSUME NEW month \in 0..Horizon, MarkInactive(month)  PROVE FlagInv' /\ FlaggedByTheRule
  <2>1. month \in Int /\ month # Never
    BY StreakAssumption
  <2> QED
    BY <1>4, <2>1 DEF MarkInactive, FlagInv, FlaggedByTheRule
<1>5. ASSUME MarkActive  PROVE FlagInv' /\ FlaggedByTheRule
  BY <1>5 DEF MarkActive, FlagInv, FlaggedByTheRule
<1>6. ASSUME TogglePresence  PROVE FlagInv' /\ FlaggedByTheRule
  BY <1>6 DEF TogglePresence, FlagInv, FlaggedByTheRule
<1>7. ASSUME UNCHANGED reportVars  PROVE FlagInv' /\ FlaggedByTheRule
  BY <1>7 DEF reportVars, FlagInv, FlaggedByTheRule
<1> QED
  BY <1>1, <1>2, <1>3, <1>4, <1>5, <1>6, <1>7 DEF ReportsNext

LEMMA FlagsHold == ReportsSpec => []FlagInv
  BY FlagInit, FlagStep, PTL DEF ReportsSpec

\* Whose newest reports, of Threshold months, are all missed ones is flagged:
\* evaluateInactiveStatus runs after every write, correction and deletion of a report, and
\* its walk then goes back far enough; only a flag that was cleared, or a report written
\* while he was away, leaves him out until the next report.
THEOREM FlagsAreNotMissed == ReportsSpec => []NobodyIsOverlooked
<1>1. FlagInv => NobodyIsOverlooked
  <2> SUFFICES ASSUME FlagInv, inactive = Never, ~reprieved, filed # <<>>,
                      NEW m \in 0..Horizon, MissedSince(filed, m)
               PROVE  FALSE
    BY DEF NobodyIsOverlooked
  <2>1. filed \in Reports /\ computeStreakOnset(filed) = Never
    BY DEF FlagInv
  <2> QED
    BY <2>1, MissedMonthsAreFound
<1> QED
  BY <1>1, FlagsHold, PTL

\* A write of a report flags nobody but from the month that the rule of the code's comment
\* names, and clears a flag only when the very report that is written or corrected has
\* hours: computeStreakOnset and evaluateInactiveStatus.
THEOREM FlagsFollowTheRule == ReportsSpec => ReportsFlagByTheRule
<1>1. FlagInv /\ [ReportsNext]_reportVars
      => [filed' # filed /\ inactive' # inactive =>
            IF inactive' = Never THEN BringsHours(filed, filed') ELSE IsOnset(filed', inactive')]_reportVars
  BY FlagStep DEF FlaggedByTheRule
<1> QED
  BY <1>1, FlagsHold, PTL DEF ReportsSpec, ReportsFlagByTheRule

-----------------------------------------------------------------------------
(* The months that were reported, and their runs.                          *)

Served(D) == [D -> PublisherTypes]
MonthSets == (SUBSET (0..LastReport)) \ {{}}

\* Any months have a first and a last.
LEMMA FirstAndLast ==
    ASSUME NEW D \in MonthSets
    PROVE  /\ Min(D) \in D /\ Max(D) \in D
           /\ \A k \in D : k \in Int /\ Min(D) <= k /\ k <= Max(D)
<1>1. D \in SUBSET Nat /\ D # {} /\ \A k \in D : k <= LastReport
  BY BackfillAssumption DEF MonthSets
<1>2. LastReport \in Nat
  BY BackfillAssumption
<1>3. Min(D) \in D /\ \A k \in D : Min(D) <= k
  BY <1>1, SmallestOf
<1>4. Max(D) \in D /\ \A k \in D : k <= Max(D)
  BY <1>1, <1>2, LargestOf
<1> QED
  BY <1>1, <1>3, <1>4

\* The run of a month: between the two, every month that was reported is of one type.
RunOf(served, m) ==
    { n \in DOMAIN served :
        \A k \in DOMAIN served : (m <= k /\ k <= n) \/ (n <= k /\ k <= m) => served[k] = served[m] }

LEMMA RunsAreAlike ==
    ASSUME NEW D \in MonthSets, NEW served \in Served(D), NEW m \in D
    PROVE  /\ RunOf(served, m) \in MonthSets /\ m \in RunOf(served, m) /\ RunOf(served, m) \subseteq D
           /\ \A n \in RunOf(served, m) : served[n] = served[m]
<1>1. DOMAIN served = D /\ D \subseteq Int
  BY BackfillAssumption DEF Served, MonthSets
<1>2. \A n \in D : m <= n \/ n <= m
  BY <1>1
<1>3. \A k \in D : (m <= k /\ k <= m) => k = m
  BY <1>1
<1>4. m \in RunOf(served, m)
  BY <1>1, <1>3 DEF RunOf
<1>5. \A n \in D : n <= n
  BY <1>1
<1>6. \A n \in RunOf(served, m) : served[n] = served[m]
  BY <1>1, <1>2, <1>5 DEF RunOf
<1>7. RunOf(served, m) \subseteq D
  BY <1>1 DEF RunOf
<1> QED
  BY <1>4, <1>6, <1>7 DEF MonthSets

LEMMA RunsAreOne ==
    ASSUME NEW D \in MonthSets, NEW served \in Served(D), NEW m \in D, NEW n \in RunOf(served, m)
    PROVE  RunOf(served, n) = RunOf(served, m)
<1>1. DOMAIN served = D /\ D \subseteq Int
  BY BackfillAssumption DEF Served, MonthSets
<1>2. n \in D /\ served[n] = served[m]
  BY RunsAreAlike
<1>3. \A k \in D : (m <= k /\ k <= n) \/ (n <= k /\ k <= m) => served[k] = served[m]
  BY <1>1 DEF RunOf
<1>4. ASSUME NEW p \in RunOf(served, m)  PROVE p \in RunOf(served, n)
  <2>1. p \in D /\ \A k \in D : (m <= k /\ k <= p) \/ (p <= k /\ k <= m) => served[k] = served[m]
    BY <1>1 DEF RunOf
  <2>2. ASSUME NEW k \in D, (n <= k /\ k <= p) \/ (p <= k /\ k <= n)  PROVE served[k] = served[n]
    <3>1. \/ (m <= k /\ k <= n) \/ (n <= k /\ k <= m)
          \/ (m <= k /\ k <= p) \/ (p <= k /\ k <= m)
      BY <1>1, <1>2, <2>1, <2>2
    <3> QED
      BY <1>2, <1>3, <2>1, <3>1
  <2> QED
    BY <1>1, <2>1, <2>2 DEF RunOf
<1>5. ASSUME NEW p \in RunOf(served, n)  PROVE p \in RunOf(served, m)
  <2>1. p \in D /\ \A k \in D : (n <= k /\ k <= p) \/ (p <= k /\ k <= n) => served[k] = served[n]
    BY <1>1 DEF RunOf
  <2>2. ASSUME NEW k \in D, (m <= k /\ k <= p) \/ (p <= k /\ k <= m)  PROVE served[k] = served[m]
    <3>1. \/ (m <= k /\ k <= n) \/ (n <= k /\ k <= m)
          \/ (n <= k /\ k <= p) \/ (p <= k /\ k <= n)
      BY <1>1, <1>2, <2>1, <2>2
    <3> QED
      BY <1>2, <1>3, <2>1, <3>1
  <2> QED
    BY <1>1, <2>1, <2>2 DEF RunOf
<1> QED
  BY <1>4, <1>5

\* A month that was reported between two months of a run is of the run.
LEMMA RunsAreWhole ==
    ASSUME NEW D \in MonthSets, NEW served \in Served(D), NEW m \in D, NEW k \in D,
           NEW a \in RunOf(served, m), NEW b \in RunOf(served, m), a <= k, k <= b
    PROVE  k \in RunOf(served, m)
<1>1. DOMAIN served = D /\ D \subseteq Int
  BY BackfillAssumption DEF Served, MonthSets
<1>2. a \in D /\ b \in D /\ b \in RunOf(served, a) /\ served[a] = served[m]
  BY RunsAreAlike, RunsAreOne
<1>3. \A j \in D : (a <= j /\ j <= b) \/ (b <= j /\ j <= a) => served[j] = served[a]
  BY <1>1, <1>2 DEF RunOf
<1>4. ASSUME NEW j \in D, (a <= j /\ j <= k) \/ (k <= j /\ j <= a)  PROVE served[j] = served[a]
  <2>1. a <= j /\ j <= b
    BY <1>1, <1>2, <1>4
  <2> QED
    BY <1>3, <2>1
<1>5. k \in RunOf(served, a)
  BY <1>1, <1>4 DEF RunOf
<1> QED
  BY <1>5, RunsAreOne

-----------------------------------------------------------------------------
(* The stints of the months.                                               *)

Derived(served) == UNION { StintsOf(served, run) : run \in groupRuns(served) }

\* The stint of a month on which he was a pioneer.
StintAt(served, m) ==
    IF isAuxiliaryType(served[m]) THEN singleMonthStint(m, served[m])
    ELSE annualStint(RunOf(served, m), served[m], Ongoing(served, RunOf(served, m)))

LEMMA RunsOfMonths ==
    ASSUME NEW D \in MonthSets, NEW served \in Served(D)
    PROVE  groupRuns(served) = { RunOf(served, m) : m \in D }
<1>1. DOMAIN served = D
  BY DEF Served
<1> QED
  BY <1>1 DEF groupRuns, RunOf

\* A run bears one type.
LEMMA TypeOfRun ==
    ASSUME NEW D \in MonthSets, NEW served \in Served(D), NEW m \in D
    PROVE  served[Min(RunOf(served, m))] = served[m]
<1>1. RunOf(served, m) \in MonthSets /\ \A n \in RunOf(served, m) : served[n] = served[m]
  BY RunsAreAlike
<1>2. Min(RunOf(served, m)) \in RunOf(served, m)
  BY <1>1, FirstAndLast
<1> QED
  BY <1>1, <1>2

LEMMA StintsOfRun ==
    ASSUME NEW D \in MonthSets, NEW served \in Served(D), NEW m \in D
    PROVE  StintsOf(served, RunOf(served, m)) =
             IF ~isPioneerType(served[m]) THEN {}
             ELSE IF isAuxiliaryType(served[m])
                  THEN { singleMonthStint(n, served[m]) : n \in RunOf(served, m) }
             ELSE { annualStint(RunOf(served, m), served[m], Ongoing(served, RunOf(served, m))) }
<1>1. served[Min(RunOf(served, m))] = served[m]
  BY TypeOfRun
<1> DEFINE run == RunOf(served, m)
<1> HIDE DEF run
<1>2. served[Min(run)] = served[m] => StintsOf(served, run) =
             IF ~isPioneerType(served[m]) THEN {}
             ELSE IF isAuxiliaryType(served[m]) THEN { singleMonthStint(n, served[m]) : n \in run }
             ELSE { annualStint(run, served[m], Ongoing(served, run)) }
  BY DEF StintsOf
<1> QED
  BY <1>1, <1>2 DEF run

\* What is derived are the stints of the months.
LEMMA DerivedStints ==
    ASSUME NEW D \in MonthSets, NEW served \in Served(D)
    PROVE  Derived(served) = { StintAt(served, m) : m \in { m \in D : isPioneerType(served[m]) } }
<1>1. ASSUME NEW s \in Derived(served)
      PROVE  \E m \in D : isPioneerType(served[m]) /\ s = StintAt(served, m)
  <2>1. PICK m \in D : s \in StintsOf(served, RunOf(served, m))
    BY RunsOfMonths DEF Derived
  <2>2. isPioneerType(served[m])
    BY <2>1, StintsOfRun
  <2>3. CASE isAuxiliaryType(served[m])
    <3>1. PICK n \in RunOf(served, m) : s = singleMonthStint(n, served[m])
      BY <2>1, <2>2, <2>3, StintsOfRun
    <3>2. n \in D /\ served[n] = served[m]
      BY RunsAreAlike
    <3> QED
      BY <2>2, <2>3, <3>1, <3>2 DEF StintAt
  <2>4. CASE ~isAuxiliaryType(served[m])
    <3>1. s = annualStint(RunOf(served, m), served[m], Ongoing(served, RunOf(served, m)))
      BY <2>1, <2>2, <2>4, StintsOfRun
    <3> QED
      BY <2>2, <2>4, <3>1 DEF StintAt
  <2> QED
    BY <2>3, <2>4
<1>2. ASSUME NEW m \in D, isPioneerType(served[m])
      PROVE  StintAt(served, m) \in Derived(served)
  <2>1. m \in RunOf(served, m) /\ RunOf(served, m) \in groupRuns(served)
    BY RunsAreAlike, RunsOfMonths
  <2>2. StintAt(served, m) \in StintsOf(served, RunOf(served, m))
    <3>1. CASE isAuxiliaryType(served[m])
      BY <1>2, <2>1, <3>1, StintsOfRun DEF StintAt
    <3>2. CASE ~isAuxiliaryType(served[m])
      BY <1>2, <3>2, StintsOfRun DEF StintAt
    <3> QED
      BY <3>1, <3>2
  <2> QED
    BY <2>1, <2>2 DEF Derived
<1> QED
  BY <1>1, <1>2

\* The stint of a month begins and ends with months that were reported.
LEMMA StintEnds ==
    ASSUME NEW D \in MonthSets, NEW served \in Served(D), NEW m \in D, NEW s, s = StintAt(served, m)
    PROVE  /\ s.type = served[m]
           /\ s.start \in D /\ s.start \in Int
           /\ IsOngoing(s) => Max(RunOf(served, m)) = Max(D) /\ ~isAuxiliaryType(served[m])
           /\ ~IsOngoing(s) => s.end \in D /\ s.end \in Int
           /\ isAuxiliaryType(served[m]) => s.start = m /\ s.end = m
           /\ ~isAuxiliaryType(served[m]) =>
                 /\ s.start = Min(RunOf(served, m))
                 /\ ~IsOngoing(s) => s.end = Max(RunOf(served, m))
           /\ ~isAuxiliaryType(served[m]) /\ Ongoing(served, RunOf(served, m)) => IsOngoing(s)
<1>1. /\ DOMAIN served = D
      /\ \A k \in D : k \in Int /\ k # None
  BY BackfillAssumption DEF Served, MonthSets
<1>2. RunOf(served, m) \in MonthSets /\ RunOf(served, m) \subseteq D
  BY RunsAreAlike
<1> DEFINE lo == Min(RunOf(served, m))
           hi == Max(RunOf(served, m))
<1>3. lo \in D /\ hi \in D
  BY <1>2, FirstAndLast
<1>4. CASE isAuxiliaryType(served[m])
  <2>1. s = [type |-> served[m], start |-> m, end |-> m]
    BY <1>4 DEF StintAt, singleMonthStint
  <2> QED
    BY <1>1, <1>4, <2>1 DEF IsOngoing
<1>5. CASE ~isAuxiliaryType(served[m])
  <2>1. s = [type |-> served[m], start |-> lo,
             end |-> IF Ongoing(served, RunOf(served, m)) THEN None ELSE hi]
    BY <1>5 DEF StintAt, annualStint
  <2>2. Ongoing(served, RunOf(served, m)) => hi = Max(D)
    BY <1>1 DEF Ongoing
  <2>3. s.type = served[m] /\ s.start = lo /\ s.end = IF Ongoing(served, RunOf(served, m)) THEN None ELSE hi
    BY <2>1
  <2> HIDE DEF lo, hi
  <2> QED
    BY <1>1, <1>3, <1>5, <2>2, <2>3 DEF IsOngoing, lo, hi
<1> QED
  BY <1>4, <1>5

\* The stint of a month covers that month, and those of its run at most.
LEMMA StintsCover ==
    ASSUME NEW D \in MonthSets, NEW served \in Served(D), NEW m \in D
    PROVE  coversMonth(StintAt(served, m), m)
<1>1. PICK s : s = StintAt(served, m)
  OBVIOUS
<1>2. RunOf(served, m) \in MonthSets /\ m \in RunOf(served, m) /\ m \in Int
  BY RunsAreAlike, FirstAndLast
<1>3. Min(RunOf(served, m)) <= m /\ m <= Max(RunOf(served, m))
  BY <1>2, FirstAndLast
<1>4. s.start <= m /\ (IsOngoing(s) \/ m <= s.end)
  BY <1>1, <1>2, <1>3, StintEnds
<1> QED
  BY <1>1, <1>4 DEF coversMonth

LEMMA CoveredMonths ==
    ASSUME NEW D \in MonthSets, NEW served \in Served(D), NEW m \in D, NEW n \in D,
           coversMonth(StintAt(served, m), n)
    PROVE  StintAt(served, n) = StintAt(served, m) /\ served[n] = served[m]
<1>1. PICK s : s = StintAt(served, m)
  OBVIOUS
<1>2. s.start <= n /\ (IsOngoing(s) \/ n <= s.end)
  BY <1>1 DEF coversMonth
<1>3. /\ n \in Int /\ m \in Int /\ n <= Max(D)
      /\ RunOf(served, m) \in MonthSets
  BY FirstAndLast, RunsAreAlike
<1>4. CASE isAuxiliaryType(served[m])
  <2>1. s.start = m /\ s.end = m /\ ~IsOngoing(s)
    BY <1>1, <1>4, StintEnds
  <2>2. n = m
    BY <1>2, <1>3, <2>1
  <2> QED
    BY <2>2
<1>5. CASE ~isAuxiliaryType(served[m])
  <2>1. Min(RunOf(served, m)) <= n /\ n <= Max(RunOf(served, m))
    <3>1. s.start = Min(RunOf(served, m))
      BY <1>1, <1>5, StintEnds
    <3>2. IsOngoing(s) => Max(RunOf(served, m)) = Max(D)
      BY <1>1, StintEnds
    <3>3. ~IsOngoing(s) => s.end = Max(RunOf(served, m))
      BY <1>1, <1>5, StintEnds
    <3> QED
      BY <1>2, <1>3, <3>1, <3>2, <3>3
  <2>2. n \in RunOf(served, m)
    BY <1>3, <2>1, FirstAndLast, RunsAreWhole
  <2>3. RunOf(served, n) = RunOf(served, m) /\ served[n] = served[m]
    BY <2>2, RunsAreOne, RunsAreAlike
  <2>4. ~isAuxiliaryType(served[n])
    BY <1>5, <2>3
  <2> QED
    BY <1>5, <2>3, <2>4 DEF StintAt, annualStint, Ongoing
<1> QED
  BY <1>4, <1>5

\* Two stints that overlap share a month that was reported.
LEMMA OverlapsShareAMonth ==
    ASSUME NEW D \in MonthSets, NEW served \in Served(D), NEW m \in D, NEW n \in D,
           enrolmentsOverlap(StintAt(served, m), StintAt(served, n))
    PROVE  StintAt(served, m) = StintAt(served, n)
<1>1. PICK a : a = StintAt(served, m)
  OBVIOUS
<1>2. PICK b : b = StintAt(served, n)
  OBVIOUS
<1>3. a.start \in D /\ b.start \in D /\ a.start \in Int /\ b.start \in Int
  BY <1>1, <1>2, StintEnds
<1>4. m \in Int /\ n \in Int
  BY FirstAndLast
<1>5. /\ a.start <= m /\ (IsOngoing(a) \/ (a.end \in Int /\ m <= a.end))
      /\ b.start <= n /\ (IsOngoing(b) \/ (b.end \in Int /\ n <= b.end))
  BY <1>1, <1>2, StintsCover, StintEnds DEF coversMonth
<1>6. (IsOngoing(b) \/ a.start <= b.end) /\ (IsOngoing(a) \/ b.start <= a.end)
  BY <1>1, <1>2 DEF enrolmentsOverlap
<1>7. CASE a.start <= b.start
  <2>1. coversMonth(a, b.start) /\ coversMonth(b, b.start)
    BY <1>3, <1>4, <1>5, <1>6, <1>7 DEF coversMonth
  <2> QED
    BY <1>1, <1>2, <1>3, <2>1, CoveredMonths
<1>8. CASE b.start <= a.start
  <2>1. coversMonth(a, a.start) /\ coversMonth(b, a.start)
    BY <1>3, <1>4, <1>5, <1>6, <1>8 DEF coversMonth
  <2> QED
    BY <1>1, <1>2, <1>3, <2>1, CoveredMonths
<1> QED
  BY <1>3, <1>7, <1>8

\* The stints say of a month what its report says.
LEMMA StintsTell ==
    ASSUME NEW D \in MonthSets, NEW served \in Served(D), NEW m \in D
    PROVE  { s.type : s \in { s \in Derived(served) : coversMonth(s, m) } } = {served[m]} \ {"normal"}
<1>1. ASSUME NEW s \in Derived(served), coversMonth(s, m)
      PROVE  s.type = served[m] /\ served[m] # "normal"
  <2>1. PICK n \in D : isPioneerType(served[n]) /\ s = StintAt(served, n)
    BY DerivedStints
  <2>2. served[m] = served[n]
    BY <1>1, <2>1, CoveredMonths
  <2> QED
    BY <2>1, <2>2, StintEnds DEF isPioneerType
<1>2. ASSUME served[m] # "normal"
      PROVE  \E s \in Derived(served) : coversMonth(s, m) /\ s.type = served[m]
  <2>1. StintAt(served, m) \in Derived(served)
    BY <1>2, DerivedStints DEF isPioneerType
  <2> QED
    BY <2>1, StintsCover, StintEnds
<1> QED
  BY <1>1, <1>2

\* And let him stand today exactly when the last month does.
LEMMA StintsStand ==
    ASSUME NEW D \in MonthSets, NEW served \in Served(D)
    PROVE  (\E s \in Derived(served) : IsOngoing(s)) <=> served[Max(D)] \in {"regular", "special"}
<1>0. DOMAIN served = D /\ Max(D) \in D
  BY FirstAndLast DEF Served
<1>1. ASSUME NEW s \in Derived(served), IsOngoing(s)
      PROVE  served[Max(D)] \in {"regular", "special"}
  <2>1. PICK m \in D : isPioneerType(served[m]) /\ s = StintAt(served, m)
    BY DerivedStints
  <2>2. Max(RunOf(served, m)) = Max(D) /\ ~isAuxiliaryType(served[m])
    BY <1>1, <2>1, StintEnds
  <2>3. RunOf(served, m) \in MonthSets /\ \A n \in RunOf(served, m) : served[n] = served[m]
    BY RunsAreAlike
  <2>4. Max(RunOf(served, m)) \in RunOf(served, m)
    BY <2>3, FirstAndLast
  <2>5. served[Max(D)] = served[m] /\ served[m] \in PublisherTypes
    BY <2>2, <2>3, <2>4 DEF Served
  <2> QED
    BY <2>1, <2>2, <2>5 DEF isPioneerType, isAuxiliaryType, PublisherTypes
<1>2. ASSUME served[Max(D)] \in {"regular", "special"}
      PROVE  \E s \in Derived(served) : IsOngoing(s)
  <2> DEFINE n == Max(D)
  <2>1. isPioneerType(served[n]) /\ ~isAuxiliaryType(served[n]) /\ n \in D
    BY <1>0, <1>2 DEF isPioneerType, isAuxiliaryType
  <2>2. RunOf(served, n) \in MonthSets /\ n \in RunOf(served, n) /\ RunOf(served, n) \subseteq D
    BY <2>1, RunsAreAlike
  <2>3. Max(RunOf(served, n)) \in D /\ n <= Max(RunOf(served, n)) /\ Max(RunOf(served, n)) <= n
    BY <2>1, <2>2, FirstAndLast
  <2>4. Max(RunOf(served, n)) = n
    <3>1. Max(RunOf(served, n)) \in Int /\ n \in Int
      BY <2>1, <2>3, FirstAndLast
    <3> QED
      BY <2>3, <3>1
  <2>5. Ongoing(served, RunOf(served, n))
    BY <1>0, <2>1, <2>4 DEF Ongoing
  <2>6. StintAt(served, n) \in Derived(served) /\ IsOngoing(StintAt(served, n))
    BY <2>1, <2>5, DerivedStints, StintEnds
  <2> QED
    BY <2>6
<1> QED
  BY <1>1, <1>2

-----------------------------------------------------------------------------
(* The rows of an import.                                                  *)

Rows == Seq(ActivityType)
RowsOfMonth(m) == { i \in 1..Len(activity) : activity[i].month = m }

LEMMA MonthsReported ==
    ASSUME activity \in Rows, activity # <<>>
    PROVE  /\ MonthsFiled \in MonthSets
           /\ dedupeLatestPerMonth \in Served(MonthsFiled)
           /\ \A i \in 1..Len(activity) : IsLatest(i) =>
                 /\ activity[i].month \in MonthsFiled
                 /\ dedupeLatestPerMonth[activity[i].month] = activity[i].type
<1>1. Len(activity) \in Nat /\ 1 \in 1..Len(activity)
  BY DEF Rows
<1>2. \A i \in 1..Len(activity) : activity[i] \in ActivityType
  BY DEF Rows
<1>3. MonthsFiled \in MonthSets
  <2>1. MonthsFiled \subseteq 0..LastReport
    BY <1>2 DEF MonthsFiled, ActivityType
  <2>2. activity[1].month \in MonthsFiled
    BY <1>1 DEF MonthsFiled
  <2> QED
    BY <2>1, <2>2 DEF MonthSets
<1>4. ASSUME NEW m \in MonthsFiled
      PROVE  /\ Max(RowsOfMonth(m)) \in RowsOfMonth(m)
             /\ \A k \in RowsOfMonth(m) : k <= Max(RowsOfMonth(m))
  <2>1. RowsOfMonth(m) \in SUBSET Nat /\ RowsOfMonth(m) # {} /\ \A k \in RowsOfMonth(m) : k <= Len(activity)
    BY <1>1 DEF RowsOfMonth, MonthsFiled
  <2> QED
    BY <1>1, <2>1, LargestOf
<1>5. dedupeLatestPerMonth = [m \in MonthsFiled |-> activity[Max(RowsOfMonth(m))].type]
  BY DEF dedupeLatestPerMonth, RowsOfMonth
<1>6. \A m \in MonthsFiled : activity[Max(RowsOfMonth(m))].type \in PublisherTypes
  BY <1>2, <1>4 DEF RowsOfMonth, ActivityType
<1>7. dedupeLatestPerMonth \in Served(MonthsFiled)
  BY <1>5, <1>6 DEF Served
<1>8. ASSUME NEW i \in 1..Len(activity), IsLatest(i)
      PROVE  /\ activity[i].month \in MonthsFiled
             /\ dedupeLatestPerMonth[activity[i].month] = activity[i].type
  <2> DEFINE m == activity[i].month
  <2>1. m \in MonthsFiled /\ i \in RowsOfMonth(m)
    BY DEF MonthsFiled, RowsOfMonth
  <2>2. PICK last : last = Max(RowsOfMonth(m))
    OBVIOUS
  <2>3. last \in 1..Len(activity) /\ activity[last].month = m /\ i <= last
    BY <1>4, <2>1, <2>2 DEF RowsOfMonth
  <2>4. last \notin i + 1..Len(activity)
    BY <1>8, <2>3 DEF IsLatest
  <2>5. last = i
    BY <1>1, <2>3, <2>4
  <2> HIDE DEF m
  <2>6. dedupeLatestPerMonth[m] = activity[last].type
    BY <1>5, <2>1, <2>2
  <2> QED
    BY <2>1, <2>5, <2>6 DEF m
<1> QED
  BY <1>3, <1>7, <1>8

LEMMA BackfillTells ==
    ASSUME activity \in Rows
    PROVE  BackfillTellsTheReports
<1> SUFFICES ASSUME activity # <<>>
             PROVE  LET stints == deriveStintsFromActivity
                    IN  /\ \A a, b \in stints : a # b => ~enrolmentsOverlap(a, b)
                        /\ \A i \in 1..Len(activity) : IsLatest(i) =>
                              /\ { s.type : s \in { s \in stints : coversMonth(s, activity[i].month) } }
                                     = {activity[i].type} \ {"normal"}
                              /\ activity[i].month = Max(MonthsFiled) =>
                                     ((\E s \in stints : IsOngoing(s)) <=> activity[i].type \in {"regular", "special"})
  BY DEF BackfillTellsTheReports
<1>0. PICK D \in MonthSets : D = MonthsFiled
  BY MonthsReported
<1>1. PICK served \in Served(D) :
        /\ served = dedupeLatestPerMonth
        /\ \A i \in 1..Len(activity) : IsLatest(i) =>
              activity[i].month \in D /\ served[activity[i].month] = activity[i].type
  BY <1>0, MonthsReported
<1>2. PICK stints : stints = Derived(served)
  OBVIOUS
<1>3. deriveStintsFromActivity = stints
  BY <1>1, <1>2 DEF deriveStintsFromActivity, Derived
<1>4. ASSUME NEW a \in stints, NEW b \in stints, a # b
      PROVE  ~enrolmentsOverlap(a, b)
  <2>1. PICK m \in D, n \in D : a = StintAt(served, m) /\ b = StintAt(served, n)
    BY <1>2, DerivedStints
  <2> QED
    BY <1>4, <2>1, OverlapsShareAMonth
<1>5. ASSUME NEW i \in 1..Len(activity), IsLatest(i)
      PROVE  /\ { s.type : s \in { s \in stints : coversMonth(s, activity[i].month) } }
                    = {activity[i].type} \ {"normal"}
             /\ activity[i].month = Max(MonthsFiled) =>
                    ((\E s \in stints : IsOngoing(s)) <=> activity[i].type \in {"regular", "special"})
  <2>1. PICK m \in D : m = activity[i].month /\ served[m] = activity[i].type
    BY <1>1, <1>5
  <2>2. { s.type : s \in { s \in stints : coversMonth(s, m) } } = {served[m]} \ {"normal"}
    BY <1>2, StintsTell
  <2>3. m = Max(D) => ((\E s \in stints : IsOngoing(s)) <=> served[m] \in {"regular", "special"})
    BY <1>2, StintsStand
  <2> QED
    BY <1>0, <2>1, <2>2, <2>3
<1> QED
  BY <1>3, <1>4, <1>5

RowsInv == activity \in Rows

LEMMA RowsAreFiled == BackfillSpec => []RowsInv
<1>1. BackfillInit => RowsInv
  BY DEF BackfillInit, Rows, RowsInv
<1>2. RowsInv /\ [BackfillNext]_activity => RowsInv'
  <2>1. ASSUME RowsInv, NEW row \in ActivityType, FileActivity(row)  PROVE RowsInv'
    BY <2>1, AppendProperties DEF FileActivity, Rows, RowsInv
  <2> QED
    BY <2>1 DEF BackfillNext, RowsInv
<1> QED
  BY <1>1, <1>2, PTL DEF BackfillSpec

\* deriveStintsFromActivity, for any rows in any order: the stints an import inserts share
\* no month, so the check of enrolPioneer refuses none; they say of every month what its
\* latest report says, and leave him a pioneer today exactly when his last month does.
THEOREM BackfillIsTrue == BackfillSpec => []BackfillTellsTheReports
<1>1. RowsInv => BackfillTellsTheReports
  BY BackfillTells DEF RowsInv
<1> QED
  BY <1>1, RowsAreFiled, PTL
=============================================================================
