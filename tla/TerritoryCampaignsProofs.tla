---------------------- MODULE TerritoryCampaignsProofs ----------------------
(***************************************************************************)
(* Proofs about TerritoryCampaigns, for every value of its constants.      *)
(***************************************************************************)
EXTENDS TerritoryCampaigns, TLAPS

AttributionTable == [Attributions -> AttributionRow \cup {None}]
CampaignTable == [Campaigns -> CampaignRow \cup {None}]

\* What makes the due dates natural numbers: no pause begins in the future.
PausedInPast(att) == \A a \in Rows(att) : IsPaused(att[a]) => att[a].pausedAt <= today

\* The four parts of the row invariant, of any content of the two tables.
Typed(att) == att \in AttributionTable /\ PausedInPast(att)

LayersApart(att) ==
    \A a, b \in Rows(att) :
        /\ a # b
        /\ att[a].publisherId = att[b].publisherId
        /\ att[a].territoryId = att[b].territoryId
        /\ att[a].campaignId = att[b].campaignId
        => ~attributionsOverlap(att[a].startDate, att[a].endDate, att[b].startDate, att[b].endDate)

WorkedOnce(att) ==
    \A a, b \in Rows(att) :
        /\ IsOpen(att[a]) /\ att[a].campaignId # None
        /\ IsOpen(att[b]) /\ att[b].campaignId # None
        /\ att[a].territoryId = att[b].territoryId
        => a = b

Owned(row, camp) ==
    /\ row.pausedAt # None <=> row.pausedByCampaignId # None
    /\ row.pausedAt # None => row.campaignId = None
    /\ row.campaignId # None =>
          camp[row.campaignId] # None /\ camp[row.campaignId].activated
    /\ row.pausedByCampaignId # None =>
          camp[row.pausedByCampaignId] # None /\ camp[row.pausedByCampaignId].activated

AllOwned(att, camp) == \A a \in Rows(att) : Owned(att[a], camp)

RowsSound(att, camp) ==
    Typed(att) /\ LayersApart(att) /\ WorkedOnce(att) /\ AllOwned(att, camp)

-----------------------------------------------------------------------------
(* One row.                                                                *)

\* A bulk transition on behalf of campaign c leaves a row alone, suspends or returns
\* it, or releases what c itself had suspended.
Suspend(old, new, c) ==
    /\ old \in AttributionRow /\ old.endDate = None
    /\ old.campaignId = None /\ old.pausedAt = None
    /\ c \in Campaigns
    /\ new = [old EXCEPT !.pausedAt = today, !.pausedByCampaignId = c]

Return(old, new) ==
    old \in AttributionRow /\ old.endDate = None /\ new = [old EXCEPT !.endDate = today]

Release(old, new, c) ==
    old \in AttributionRow /\ old.pausedByCampaignId = c /\ new = Resumed(old)

ReturnReleased(old, new, c) ==
    /\ old \in AttributionRow /\ old.endDate = None /\ old.pausedByCampaignId = c
    /\ new = [old EXCEPT !.endDate = today, !.pausedAt = None, !.pausedByCampaignId = None]

BulkMove(old, new, c) ==
    \/ new = old
    \/ Suspend(old, new, c)
    \/ Return(old, new)
    \/ Release(old, new, c)
    \/ ReturnReleased(old, new, c)

\* What the overlap and the occupation of a territory depend on only shrinks.
Shrinks(old, new) ==
    /\ old \in AttributionRow /\ new \in AttributionRow
    /\ new.publisherId = old.publisherId /\ new.territoryId = old.territoryId
    /\ new.campaignId = old.campaignId /\ new.startDate = old.startDate
    /\ new.endDate = old.endDate \/ old.endDate = None

(* The rows a bulk transition writes are rows of the table: none of the    *)
(* updateMany calls of attribution-pause.aggregate leaves the schema.      *)
LEMMA BulkMoveShrinks ==
    ASSUME today \in Days,
           NEW c, NEW old \in AttributionRow \cup {None}, NEW new,
           BulkMove(old, new, c),
           old # None /\ IsPaused(old) => old.pausedAt <= today
    PROVE  /\ new \in AttributionRow \cup {None}
           /\ new = old \/ Shrinks(old, new)
           /\ new # None /\ IsPaused(new) => new.pausedAt <= today
<1> USE NoneAssumption, BoundsAssumption DEF IsPaused, Days
<1>1. CASE new = old
  BY <1>1
<1>2. CASE Suspend(old, new, c)
  <2>1. new \in AttributionRow
    BY <1>2 DEF Suspend, AttributionRow
  <2>2. /\ new.publisherId = old.publisherId /\ new.territoryId = old.territoryId
        /\ new.campaignId = old.campaignId /\ new.startDate = old.startDate
        /\ new.endDate = old.endDate /\ new.pausedAt = today
    BY <1>2 DEF Suspend, AttributionRow
  <2> QED
    BY <1>2, <2>1, <2>2 DEF Suspend, Shrinks
<1>3. CASE Return(old, new)
  BY <1>3 DEF Return, Shrinks, AttributionRow
<1>4. CASE Release(old, new, c)
  <2>1. old.lateDate \in Nat /\ old.pausedAt \in Days \cup {None}
    BY <1>4 DEF Release, AttributionRow
  <2>2. (IF old.pausedAt = None THEN old.lateDate
                               ELSE old.lateDate + (today - old.pausedAt)) \in Nat
    BY <1>4, <2>1 DEF Release
  <2> DEFINE late == IF old.pausedAt = None THEN old.lateDate
                                             ELSE old.lateDate + (today - old.pausedAt)
  <2>3. new \in AttributionRow
    <3>1. old \in AttributionRow /\ late \in Nat
      BY <1>4, <2>2 DEF Release
    <3>2. new = [old EXCEPT !.pausedAt = None, !.pausedByCampaignId = None, !.lateDate = late]
      BY <1>4 DEF Release, Resumed
    <3> HIDE DEF late
    <3> QED
      BY <3>1, <3>2 DEF AttributionRow
  <2>4. /\ new.publisherId = old.publisherId /\ new.territoryId = old.territoryId
        /\ new.campaignId = old.campaignId /\ new.startDate = old.startDate
        /\ new.endDate = old.endDate /\ new.pausedAt = None
    BY <1>4 DEF Release, Resumed, AttributionRow
  <2>5. Shrinks(old, new)
    BY <1>4, <2>3, <2>4 DEF Release, Shrinks
  <2> QED
    BY <2>3, <2>4, <2>5
<1>5. CASE ReturnReleased(old, new, c)
  <2>1. old \in AttributionRow /\ old.endDate = None /\ today \in Days
    BY <1>5 DEF ReturnReleased
  <2>2. new \in AttributionRow
    BY <1>5, <2>1 DEF ReturnReleased, AttributionRow
  <2>3. /\ new.publisherId = old.publisherId /\ new.territoryId = old.territoryId
        /\ new.campaignId = old.campaignId /\ new.startDate = old.startDate
        /\ new.pausedAt = None
    BY <1>5, <2>1 DEF ReturnReleased, AttributionRow
  <2>4. Shrinks(old, new)
    BY <2>1, <2>2, <2>3 DEF Shrinks
  <2> QED
    BY <2>2, <2>3, <2>4
<1> QED
  BY <1>1, <1>2, <1>3, <1>4, <1>5 DEF BulkMove

(* Every pause keeps its owner: what a campaign that has begun suspends is *)
(* suspended in its name, and a release forgets both together.             *)
LEMMA BulkMoveOwned ==
    ASSUME today \in Days, NEW camp,
           NEW c, c \in Campaigns => camp[c] # None /\ camp[c].activated,
           NEW old \in AttributionRow, NEW new,
           BulkMove(old, new, c), Owned(old, camp)
    PROVE  Owned(new, camp)
<1> USE NoneAssumption, BoundsAssumption DEF Days
<1>1. CASE new = old
  BY <1>1
<1>2. CASE Suspend(old, new, c)
  BY <1>2 DEF Suspend, Owned, AttributionRow
<1>3. CASE Return(old, new)
  BY <1>3 DEF Return, Owned, AttributionRow
<1>4. CASE Release(old, new, c)
  BY <1>4 DEF Release, Resumed, Owned, AttributionRow
<1>5. CASE ReturnReleased(old, new, c)
  BY <1>5 DEF ReturnReleased, Owned, AttributionRow
<1> QED
  BY <1>1, <1>2, <1>3, <1>4, <1>5 DEF BulkMove

-----------------------------------------------------------------------------
(* One table.                                                              *)

TableMove(att, new, c) ==
    /\ new = [a \in Attributions |-> new[a]]
    /\ \A a \in Attributions : BulkMove(att[a], new[a], c)

(* A row of a typed table is a row of the schema.                          *)
LEMMA RowType ==
    ASSUME NEW att \in AttributionTable
    PROVE  /\ Rows(att) \subseteq Attributions
           /\ \A a \in Rows(att) : att[a] \in AttributionRow
           /\ \A a \in Attributions : att[a] \in AttributionRow \cup {None}
           /\ \A a \in Attributions : a \notin Rows(att) => att[a] = None
BY DEF AttributionTable, Rows

(* Suspending, returning and releasing rows in bulk cannot make two rows of*)
(* one layer overlap: it never moves a start date or reopens a row.        *)
LEMMA ShrinkKeepsLayersApart ==
    ASSUME NEW att \in AttributionTable, NEW new \in AttributionTable,
           \A a \in Attributions : new[a] = att[a] \/ Shrinks(att[a], new[a]),
           LayersApart(att)
    PROVE  LayersApart(new)
<1> USE NoneAssumption
<1>1. SUFFICES ASSUME NEW a \in Rows(new), NEW b \in Rows(new), a # b,
                      new[a].publisherId = new[b].publisherId,
                      new[a].territoryId = new[b].territoryId,
                      new[a].campaignId = new[b].campaignId
               PROVE  ~attributionsOverlap(new[a].startDate, new[a].endDate,
                                           new[b].startDate, new[b].endDate)
  BY DEF LayersApart
<1>2. a \in Attributions /\ b \in Attributions
  BY DEF Rows
<1>3. a \in Rows(att) /\ b \in Rows(att)
  BY <1>2 DEF Rows, Shrinks
<1>4. /\ att[a].publisherId = att[b].publisherId
      /\ att[a].territoryId = att[b].territoryId
      /\ att[a].campaignId = att[b].campaignId
  BY <1>1, <1>2 DEF Shrinks
<1>5. ~attributionsOverlap(att[a].startDate, att[a].endDate, att[b].startDate, att[b].endDate)
  BY <1>1, <1>3, <1>4 DEF LayersApart
<1>6. /\ new[a].startDate = att[a].startDate /\ new[b].startDate = att[b].startDate
      /\ new[a].endDate = att[a].endDate \/ att[a].endDate = None
      /\ new[b].endDate = att[b].endDate \/ att[b].endDate = None
  BY <1>2 DEF Shrinks
<1> QED
  BY <1>5, <1>6 DEF attributionsOverlap, ReachesDay

(* Nor can it make a territory worked twice in the campaigns.              *)
LEMMA ShrinkKeepsWorkedOnce ==
    ASSUME NEW att \in AttributionTable, NEW new \in AttributionTable,
           \A a \in Attributions : new[a] = att[a] \/ Shrinks(att[a], new[a]),
           WorkedOnce(att)
    PROVE  WorkedOnce(new)
<1>1. SUFFICES ASSUME NEW a \in Rows(new), NEW b \in Rows(new),
                      IsOpen(new[a]), new[a].campaignId # None,
                      IsOpen(new[b]), new[b].campaignId # None,
                      new[a].territoryId = new[b].territoryId
               PROVE  a = b
  BY DEF WorkedOnce
<1>2. a \in Attributions /\ b \in Attributions
  BY DEF Rows
<1>3. a \in Rows(att) /\ b \in Rows(att)
  BY <1>2, NoneAssumption DEF Rows, Shrinks
<1>4. /\ IsOpen(att[a]) /\ att[a].campaignId # None
      /\ IsOpen(att[b]) /\ att[b].campaignId # None
      /\ att[a].territoryId = att[b].territoryId
  BY <1>1, <1>2, <1>3 DEF Shrinks, IsOpen, Rows
<1> QED
  BY <1>3, <1>4 DEF WorkedOnce

(* A bulk transition of a campaign that has begun keeps the table sound.   *)
LEMMA TableMoveSound ==
    ASSUME today \in Days, NEW camp,
           NEW c, c \in Campaigns => camp[c] # None /\ camp[c].activated,
           NEW att, NEW new,
           RowsSound(att, camp), TableMove(att, new, c)
    PROVE  RowsSound(new, camp)
<1> USE NoneAssumption
<1>1. att \in AttributionTable /\ PausedInPast(att)
  BY DEF RowsSound, Typed
<1>2. ASSUME NEW a \in Attributions
      PROVE  /\ new[a] \in AttributionRow \cup {None}
             /\ new[a] = att[a] \/ Shrinks(att[a], new[a])
             /\ new[a] # None /\ IsPaused(new[a]) => new[a].pausedAt <= today
  <2>1. att[a] \in AttributionRow \cup {None}
    BY <1>1, RowType
  <2>2. att[a] # None /\ IsPaused(att[a]) => att[a].pausedAt <= today
    BY <1>1 DEF PausedInPast, Rows
  <2>3. BulkMove(att[a], new[a], c)
    BY DEF TableMove
  <2> QED
    BY <2>1, <2>2, <2>3, BulkMoveShrinks
<1>3. new \in AttributionTable
  BY <1>2 DEF AttributionTable, TableMove
<1>4. PausedInPast(new)
  BY <1>2 DEF PausedInPast, Rows
<1>5. LayersApart(new)
  BY <1>1, <1>2, <1>3, ShrinkKeepsLayersApart DEF RowsSound
<1>6. WorkedOnce(new)
  BY <1>1, <1>2, <1>3, ShrinkKeepsWorkedOnce DEF RowsSound
<1>7. AllOwned(new, camp)
  <2>1. SUFFICES ASSUME NEW a \in Attributions, new[a] # None
                 PROVE  Owned(new[a], camp)
    BY DEF AllOwned, Rows
  <2>2. att[a] \in AttributionRow
    BY <1>1, <1>2, <2>1, RowType DEF Shrinks
  <2>3. Owned(att[a], camp)
    BY <2>2 DEF RowsSound, AllOwned, Rows
  <2>4. BulkMove(att[a], new[a], c)
    BY DEF TableMove
  <2> QED
    BY <2>2, <2>3, <2>4, BulkMoveOwned
<1> QED
  BY <1>3, <1>4, <1>5, <1>6, <1>7 DEF RowsSound, Typed

-----------------------------------------------------------------------------
(* The transitions.                                                        *)

(* pauseOpenRegulars touches open, unpaused regular rows only.             *)
LEMMA PauseIsMove ==
    ASSUME NEW att \in AttributionTable, NEW c \in Campaigns, NEW S
    PROVE  TableMove(att, pauseOpenRegulars(att, c, S), c)
<1>1. ASSUME NEW a \in ToPause(att, S)
      PROVE  Suspend(att[a], [att[a] EXCEPT !.pausedAt = today, !.pausedByCampaignId = c], c)
  BY RowType DEF ToPause, OpenRegulars, IsOpen, IsPaused, Rows, Suspend
<1> QED
  BY <1>1 DEF TableMove, BulkMove, pauseOpenRegulars

(* The three ways to return rows in bulk touch open rows only.             *)
LEMMA CloseIsMove ==
    ASSUME NEW att \in AttributionTable, NEW c,
           NEW rows \in SUBSET Rows(att), \A a \in rows : IsOpen(att[a])
    PROVE  TableMove(att, CloseRows(att, rows), c)
<1>1. ASSUME NEW a \in rows
      PROVE  Return(att[a], [att[a] EXCEPT !.endDate = today])
  BY RowType DEF IsOpen, Return
<1> QED
  BY <1>1 DEF TableMove, BulkMove, CloseRows

LEMMA ClosePausedIsMove ==
    ASSUME NEW att \in AttributionTable, NEW c, NEW S
    PROVE  TableMove(att, closePausedBy(att, c, S), c)
<1>1. ASSUME NEW a \in OpenPausedBy(att, c, S)
      PROVE  ReturnReleased(att[a], [att[a] EXCEPT !.endDate = today, !.pausedAt = None,
                                                   !.pausedByCampaignId = None], c)
  BY RowType DEF OpenPausedBy, IsOpen, ReturnReleased
<1> QED
  BY <1>1 DEF TableMove, BulkMove, closePausedBy

(* resumePausedBy releases rows of the table, each by itself.              *)
LEMMA ResumeIsMove ==
    ASSUME NEW att \in AttributionTable, NEW c, NEW S
    PROVE  TableMove(att, resumePausedBy(att, c, S), c)
<1>1. ASSUME NEW a \in OpenPausedBy(att, c, S)
      PROVE  Release(att[a], Resumed(att[a]), c)
  BY RowType DEF OpenPausedBy, Release
<1> QED
  BY <1>1 DEF TableMove, BulkMove, resumePausedBy

(* Ending a campaign, or taking territories out of its scope, keeps the    *)
(* rows sound, whatever its end options.                                   *)
LEMMA EndTransitionSound ==
    ASSUME today \in Days, NEW camp,
           NEW c \in Campaigns, camp[c] # None, camp[c].activated,
           NEW att, RowsSound(att, camp), NEW o, NEW S
    PROVE  RowsSound(EndTransition(att, c, o, S), camp)
<1> DEFINE closed == IF o.endCloseCampaign THEN CloseRows(att, OpenWorkOf(att, c, S)) ELSE att
<1>1. att \in AttributionTable
  BY DEF RowsSound, Typed
<1>2. RowsSound(CloseRows(att, OpenWorkOf(att, c, S)), camp)
  <2>1. /\ OpenWorkOf(att, c, S) \in SUBSET Rows(att)
        /\ \A a \in OpenWorkOf(att, c, S) : IsOpen(att[a])
    BY DEF OpenWorkOf
  <2>2. TableMove(att, CloseRows(att, OpenWorkOf(att, c, S)), c)
    BY <1>1, <2>1, CloseIsMove
  <2> QED
    BY <2>2, TableMoveSound
<1>3. RowsSound(closed, camp)
  BY <1>2
<1>4. closed \in AttributionTable
  BY <1>3 DEF RowsSound, Typed
<1> HIDE DEF closed
<1>5. RowsSound(resumePausedBy(closed, c, S), camp)
  BY <1>3, <1>4, ResumeIsMove, TableMoveSound
<1>6. RowsSound(closePausedBy(closed, c, S), camp)
  BY <1>3, <1>4, ClosePausedIsMove, TableMoveSound
<1>7. EndTransition(att, c, o, S) \in {closed, resumePausedBy(closed, c, S), closePausedBy(closed, c, S)}
  BY DEF EndTransition, closed
<1> QED
  BY <1>3, <1>5, <1>6, <1>7

\* What "assign" makes sure of before it inserts a row.
Fresh(att, camp, row) ==
    /\ row \in AttributionRow
    /\ row.endDate = None /\ row.pausedAt = None /\ row.pausedByCampaignId = None
    /\ row.campaignId # None =>
          /\ camp[row.campaignId] # None /\ camp[row.campaignId].activated
          /\ ~IsOccupied(att, row.territoryId)
    /\ ~LayerConflict(att, {}, row.publisherId, row.territoryId, row.campaignId,
                      row.startDate, row.endDate)

(* Rows that "assign" accepts, on different territories, can be added to a *)
(* sound table: one by hand, or all those of a carry-over.                 *)
LEMMA AddedRowsSound ==
    ASSUME today \in Days, NEW camp, NEW att, RowsSound(att, camp),
           NEW ids \in SUBSET FreeIds(att),
           NEW new, new = [a \in Attributions |-> new[a]],
           \A a \in Attributions \ ids : new[a] = att[a],
           \A a \in ids : Fresh(att, camp, new[a]),
           \A a, b \in ids : new[a].territoryId = new[b].territoryId => a = b
    PROVE  RowsSound(new, camp)
<1> USE NoneAssumption
<1>1. att \in AttributionTable /\ PausedInPast(att) /\ ids \subseteq Attributions
  BY DEF RowsSound, Typed, FreeIds
<1>2. new \in AttributionTable
  <2>1. \A a \in Attributions : new[a] \in AttributionRow \cup {None}
    BY <1>1 DEF AttributionTable, Fresh
  <2> QED
    BY <2>1 DEF AttributionTable
<1>3. PausedInPast(new)
  BY <1>1 DEF PausedInPast, Rows, IsPaused, Fresh
<1>4. AllOwned(new, camp)
  <2>1. \A a \in Rows(att) : Owned(att[a], camp)
    BY DEF RowsSound, AllOwned
  <2>2. ASSUME NEW a \in Rows(new) PROVE Owned(new[a], camp)
    <3>1. CASE a \in ids
      BY <3>1 DEF Owned, Fresh
    <3>2. CASE a \notin ids
      BY <2>1, <3>2 DEF Rows
    <3> QED
      BY <3>1, <3>2
  <2> QED
    BY <2>2 DEF AllOwned
<1>5. ASSUME NEW a \in ids, NEW b \in Rows(att), b \notin ids
      PROVE  /\ /\ att[b].publisherId = new[a].publisherId
                /\ att[b].territoryId = new[a].territoryId
                /\ att[b].campaignId = new[a].campaignId
                => ~attributionsOverlap(new[a].startDate, new[a].endDate,
                                        att[b].startDate, att[b].endDate)
             /\ /\ IsOpen(att[b]) /\ att[b].campaignId # None
                /\ new[a].campaignId # None
                => att[b].territoryId # new[a].territoryId
  <2>1. Fresh(att, camp, new[a])
    OBVIOUS
  <2>2. ~LayerConflict(att, {}, new[a].publisherId, new[a].territoryId, new[a].campaignId,
                       new[a].startDate, new[a].endDate)
    BY <2>1 DEF Fresh
  <2>3. att[b].campaignId # None => att[b].pausedAt = None
    BY DEF RowsSound, AllOwned, Owned
  <2>4. new[a].campaignId # None => ~IsOccupied(att, new[a].territoryId)
    BY <2>1 DEF Fresh
  <2> QED
    BY <2>2, <2>3, <2>4 DEF LayerConflict, IsOccupied, IsWorked, IsPaused
<1>6. \A a \in Rows(new) : a \in ids \/ (a \in Rows(att) /\ new[a] = att[a])
  BY DEF Rows
<1>7. LayersApart(new)
  <2>1. SUFFICES ASSUME NEW a \in Rows(new), NEW b \in Rows(new), a # b,
                        new[a].publisherId = new[b].publisherId,
                        new[a].territoryId = new[b].territoryId,
                        new[a].campaignId = new[b].campaignId
                 PROVE  ~attributionsOverlap(new[a].startDate, new[a].endDate,
                                             new[b].startDate, new[b].endDate)
    BY DEF LayersApart
  <2>2. CASE a \in ids /\ b \in ids
    BY <2>1, <2>2
  <2>3. CASE a \in ids /\ b \notin ids
    BY <2>1, <2>3, <1>5, <1>6
  <2>4. CASE a \notin ids /\ b \in ids
    BY <2>1, <2>4, <1>5, <1>6 DEF attributionsOverlap
  <2>5. CASE a \notin ids /\ b \notin ids
    BY <2>1, <2>5, <1>6 DEF RowsSound, LayersApart
  <2> QED
    BY <2>2, <2>3, <2>4, <2>5
<1>8. WorkedOnce(new)
  <2>1. SUFFICES ASSUME NEW a \in Rows(new), NEW b \in Rows(new),
                        IsOpen(new[a]), new[a].campaignId # None,
                        IsOpen(new[b]), new[b].campaignId # None,
                        new[a].territoryId = new[b].territoryId
                 PROVE  a = b
    BY DEF WorkedOnce
  <2>2. CASE a \in ids /\ b \in ids
    BY <2>1, <2>2
  <2>3. CASE a \in ids /\ b \notin ids
    BY <2>1, <2>3, <1>5, <1>6
  <2>4. CASE a \notin ids /\ b \in ids
    BY <2>1, <2>4, <1>5, <1>6
  <2>5. CASE a \notin ids /\ b \notin ids
    BY <2>1, <2>5, <1>6 DEF RowsSound, WorkedOnce
  <2> QED
    BY <2>2, <2>3, <2>4, <2>5
<1> QED
  BY <1>2, <1>3, <1>4, <1>7, <1>8 DEF RowsSound, Typed

(* The row "assign" inserts is a row of the schema, due on a day that is   *)
(* computed from the campaign or from the duration.                        *)
LEMMA NewAttributionType ==
    ASSUME NEW camp \in CampaignTable, NEW p \in Publishers, NEW t \in Territories,
           NEW s \in Days, NEW c \in Campaigns \cup {None}, c # None => camp[c] # None
    PROVE  /\ NewAttribution(camp, p, t, s, c) \in AttributionRow
           /\ NewAttribution(camp, p, t, s, c).publisherId = p
           /\ NewAttribution(camp, p, t, s, c).territoryId = t
           /\ NewAttribution(camp, p, t, s, c).startDate = s
           /\ NewAttribution(camp, p, t, s, c).endDate = None
           /\ NewAttribution(camp, p, t, s, c).campaignId = c
           /\ NewAttribution(camp, p, t, s, c).pausedAt = None
           /\ NewAttribution(camp, p, t, s, c).pausedByCampaignId = None
<1> DEFINE late == IF c # None /\ camp[c].end.endCloseCampaign
                   THEN camp[c].endDate + 1 ELSE s + Duration
<1>1. c # None => camp[c] \in CampaignRow
  BY NoneAssumption DEF CampaignTable
<1>2. c # None => camp[c].endDate \in Nat
  BY <1>1, BoundsAssumption DEF CampaignRow, Days
<1>3. late \in Nat
  BY <1>2, BoundsAssumption DEF Days
<1> HIDE DEF late
<1>4. NewAttribution(camp, p, t, s, c) =
        [ publisherId |-> p, territoryId |-> t, startDate |-> s, endDate |-> None,
          lateDate |-> late, campaignId |-> c, pausedAt |-> None, pausedByCampaignId |-> None ]
  BY DEF NewAttribution, late
<1> QED
  BY <1>3, <1>4 DEF AttributionRow

(* The carry-over of an activation keeps the rows sound: one row on each   *)
(* territory, none where work goes on.                                     *)
LEMMA CarriedSound ==
    ASSUME today \in Days, NEW camp \in CampaignTable,
           NEW c \in Campaigns, camp[c] # None, camp[c].activated,
           NEW att, RowsSound(att, camp), NEW paused \in SUBSET Rows(att),
           NEW ids \in SUBSET FreeIds(att), NEW from \in [ids -> paused],
           IsCarryOver(att, paused, c, from)
    PROVE  RowsSound(Carried(att, camp, c, from), camp)
<1> DEFINE new == Carried(att, camp, c, from)
<1>1. att \in AttributionTable
  BY DEF RowsSound, Typed
<1>2. DOMAIN from = ids /\ ids \subseteq Attributions
  BY DEF FreeIds
<1>3. ASSUME NEW a \in ids
      PROVE  /\ new[a] = NewAttribution(camp, att[from[a]].publisherId,
                                        att[from[a]].territoryId, today, c)
             /\ Fresh(att, camp, new[a])
             /\ new[a].territoryId = att[from[a]].territoryId
  <2>1. new[a] = NewAttribution(camp, att[from[a]].publisherId, att[from[a]].territoryId, today, c)
    BY <1>2 DEF Carried
  <2>2. att[from[a]] \in AttributionRow
    BY <1>1, RowType
  <2>3. att[from[a]].publisherId \in Publishers /\ att[from[a]].territoryId \in Territories
    BY <2>2 DEF AttributionRow
  <2>4. CanCarryOver(att, c, from[a])
    BY <1>2 DEF IsCarryOver
  <2> HIDE DEF new
  <2> QED
    BY <2>1, <2>3, <2>4, NewAttributionType DEF Fresh, CanCarryOver
<1>4. \A a \in Attributions \ ids : new[a] = att[a]
  BY <1>2 DEF Carried
<1>5. \A a, b \in ids : new[a].territoryId = new[b].territoryId => a = b
  BY <1>2, <1>3 DEF IsCarryOver
<1>6. new = [a \in Attributions |-> new[a]]
  BY DEF Carried
<1> HIDE DEF new
<1>7. RowsSound(new, camp)
  BY <1>3, <1>4, <1>5, <1>6, AddedRowsSound
<1> QED
  BY <1>7 DEF new

(* Activating a campaign, or bringing territories into its scope, keeps the*)
(* rows sound, whatever its start options and whichever rows the carry-over*)
(* loop comes to first.                                                    *)
LEMMA StartTransitionSound ==
    ASSUME today \in Days, NEW camp \in CampaignTable,
           NEW c \in Campaigns, camp[c] # None, camp[c].activated,
           NEW att, RowsSound(att, camp), NEW o, NEW S,
           NEW new \in StartTransition(att, camp, c, o, S)
    PROVE  RowsSound(new, camp)
<1> DEFINE suspended == pauseOpenRegulars(att, c, S)
<1>1. att \in AttributionTable
  BY DEF RowsSound, Typed
<1>2. RowsSound(suspended, camp)
  BY <1>1, PauseIsMove, TableMoveSound
<1>3. RowsSound(CloseRows(att, OpenRegulars(att, S)), camp)
  <2>1. /\ OpenRegulars(att, S) \in SUBSET Rows(att)
        /\ \A a \in OpenRegulars(att, S) : IsOpen(att[a])
    BY DEF OpenRegulars
  <2> QED
    BY <1>1, <2>1, CloseIsMove, TableMoveSound
<1>4. ASSUME new \in reassignIntoCampaign(suspended, camp, c, ToPause(att, S))
      PROVE  RowsSound(new, camp)
  <2>1. ToPause(att, S) \in SUBSET Rows(suspended)
    <3>1. ASSUME NEW a \in ToPause(att, S)
          PROVE  suspended[a] \in AttributionRow /\ a \in Attributions
      <4>1. a \in Attributions /\ att[a] \in AttributionRow
        BY <1>1, RowType DEF ToPause, OpenRegulars
      <4>2. suspended[a] = [att[a] EXCEPT !.pausedAt = today, !.pausedByCampaignId = c]
        BY <4>1 DEF pauseOpenRegulars
      <4> HIDE DEF suspended
      <4> QED
        BY <4>1, <4>2 DEF AttributionRow
    <3> QED
      BY <3>1, NoneAssumption DEF Rows
  <2> HIDE DEF suspended
  <2>2. CASE new = suspended
    BY <1>2, <2>2
  <2>3. ASSUME NEW ids \in SUBSET FreeIds(suspended), NEW from \in [ids -> ToPause(att, S)],
               IsCarryOver(suspended, ToPause(att, S), c, from),
               new = Carried(suspended, camp, c, from)
        PROVE  RowsSound(new, camp)
    BY <1>2, <2>1, <2>3, CarriedSound
  <2> QED
    BY <1>4, <2>2, <2>3 DEF reassignIntoCampaign
<1> HIDE DEF suspended
<1>5. \/ new \in reassignIntoCampaign(suspended, camp, c, ToPause(att, S))
      \/ new = suspended
      \/ new = CloseRows(att, OpenRegulars(att, S))
      \/ new = att
  BY DEF StartTransition, suspended
<1> QED
  BY <1>2, <1>3, <1>4, <1>5

(* Editing the scope of a campaign keeps the rows sound: its start         *)
(* behaviour on the territories that enter, then its end behaviour on those*)
(* that leave.                                                             *)
LEMMA ScopeChangeSound ==
    ASSUME today \in Days, NEW camp \in CampaignTable,
           NEW c \in Campaigns, NEW old, IsActive(old) => camp[c] # None /\ camp[c].activated,
           NEW att, RowsSound(att, camp), NEW scope,
           NEW new \in applyScopeChange(att, camp, c, old, scope)
    PROVE  RowsSound(new, camp)
<1>1. CASE ~IsActive(old)
  BY <1>1 DEF applyScopeChange
<1>2. CASE IsActive(old)
  <2>1. PICK started \in StartTransition(att, camp, c, old.start,
                                         Effective(scope) \ Effective(old.scope)) :
           new = EndTransition(started, c, old.end, Effective(old.scope) \ Effective(scope))
    BY <1>2 DEF applyScopeChange
  <2>2. RowsSound(started, camp)
    BY <1>2, <2>1, StartTransitionSound
  <2> QED
    BY <1>2, <2>1, <2>2, EndTransitionSound
<1> QED
  BY <1>1, <1>2

(* The campaigns that have begun are all a row refers to.                  *)
LEMMA CampaignChangeSound ==
    ASSUME NEW att, NEW old, NEW new, RowsSound(att, old),
           \A c \in Campaigns : old[c] # None /\ old[c].activated =>
                                   new[c] # None /\ new[c].activated
    PROVE  RowsSound(att, new)
<1>1. att \in AttributionTable
  BY DEF RowsSound, Typed
<1>2. ASSUME NEW a \in Rows(att)
      PROVE  Owned(att[a], new)
  <2>1. att[a] \in AttributionRow
    BY <1>1, RowType
  <2>2. Owned(att[a], old)
    BY DEF RowsSound, AllOwned
  <2> QED
    BY <2>1, <2>2 DEF Owned, AttributionRow
<1> QED
  BY <1>2 DEF RowsSound, AllOwned

-----------------------------------------------------------------------------
(* The inductive invariant.                                                *)

\* No two campaigns share a day, also after edits that turn a window around.
WindowsDisjoint ==
    \A c, d \in Campaigns :
        c # d /\ campaign[c] # None /\ campaign[d] # None =>
            ~campaignWindowsOverlap(campaign[c].startDate, campaign[c].endDate,
                                    campaign[d].startDate, campaign[d].endDate)

ActiveHasBegun == \A c \in Active(campaign) : campaign[c].startDate <= today

IInv ==
    /\ TypeOK
    /\ RowsSound(attribution, campaign)
    /\ WindowsDisjoint
    /\ ActiveHasBegun
    /\ OneActiveCampaign

\* The part of the invariant that does not look at attributions.
CampaignInv ==
    /\ today \in Days
    /\ territory \subseteq Territories
    /\ campaign \in CampaignTable
    /\ phase \in {"idle", "activating", "ending"}
    /\ WindowsDisjoint
    /\ ActiveHasBegun
    /\ OneActiveCampaign

(* The two parts together are the invariant.                               *)
LEMMA IInvParts == IInv <=> CampaignInv /\ RowsSound(attribution, campaign)
BY DEF IInv, CampaignInv, TypeOK, RowsSound, Typed, AttributionTable, CampaignTable

(* Within a day, the rows of the next state are judged by the same clock.  *)
LEMMA SameDay ==
    ASSUME today' = today, RowsSound(attribution', campaign'), CampaignInv'
    PROVE  IInv'
<1>1. RowsSound(attribution, campaign)'
  BY DEF RowsSound, Typed, PausedInPast, AttributionTable, AttributionRow, Rows, IsPaused,
         LayersApart, WorkedOnce, AllOwned, Owned, IsOpen, attributionsOverlap, ReachesDay, Days
<1>2. TypeOK'
  BY <1>1 DEF TypeOK, CampaignInv, CampaignTable, RowsSound, Typed, AttributionTable
<1> QED
  BY <1>1, <1>2 DEF IInv, CampaignInv

(* The initial state satisfies the invariant.                              *)
LEMMA InitIInv == Init => IInv
<1> SUFFICES ASSUME Init PROVE IInv
  OBVIOUS
<1>1. Rows(attribution) = {}
  BY DEF Init, Rows
<1>2. RowsSound(attribution, campaign)
  BY <1>1 DEF Init, RowsSound, Typed, AttributionTable, PausedInPast, LayersApart, WorkedOnce, AllOwned
<1>3. CampaignInv
  BY BoundsAssumption DEF Init, CampaignInv, Days, CampaignTable, WindowsDisjoint, ActiveHasBegun,
     OneActiveCampaign, Active, IsActive
<1> QED
  BY <1>2, <1>3, IInvParts

-----------------------------------------------------------------------------
(* Every step of the sweep keeps the invariant.                            *)

(* Activation: the campaign has begun before its start behaviour runs.     *)
LEMMA SweepActivateIInv ==
    ASSUME IInv, NEW c \in Campaigns, SweepActivate(c)
    PROVE  IInv'
<1> DEFINE camp == [campaign EXCEPT ![c].activated = TRUE]
<1>1. CampaignInv /\ RowsSound(attribution, campaign)
  BY IInvParts
<1>2. campaign \in CampaignTable /\ campaign[c] \in CampaignRow
  BY <1>1, NoneAssumption DEF CampaignInv, CampaignTable, SweepActivate, DueToActivate
<1>3. camp \in CampaignTable /\ camp[c] # None /\ camp[c].activated
  BY <1>2, NoneAssumption DEF CampaignTable, CampaignRow
<1>4. RowsSound(attribution, camp)
  <2>1. ASSUME NEW d \in Campaigns, campaign[d] # None, campaign[d].activated
        PROVE  camp[d] # None /\ camp[d].activated
    BY <1>2, <1>3, <2>1 DEF CampaignTable
  <2> QED
    BY <1>1, <2>1, CampaignChangeSound
<1>5. RowsSound(attribution', campaign')
  BY <1>1, <1>3, <1>4, StartTransitionSound DEF SweepActivate, CampaignInv
<1>6. CampaignInv'
  <2>1. \A d \in Campaigns : /\ camp[d] = None <=> campaign[d] = None
                             /\ campaign[d] # None =>
                                  /\ camp[d].startDate = campaign[d].startDate
                                  /\ camp[d].endDate = campaign[d].endDate
                             /\ d # c => camp[d] = campaign[d]
    <3>1. camp[c].startDate = campaign[c].startDate /\ camp[c].endDate = campaign[c].endDate
      BY <1>2 DEF CampaignTable, CampaignRow
    <3>2. \A d \in Campaigns : d # c => camp[d] = campaign[d]
      BY <1>2 DEF CampaignTable
    <3> QED
      BY <1>2, <1>3, <3>1, <3>2, NoneAssumption
  <2>2. campaign[c].startDate <= today
    BY DEF SweepActivate, DueToActivate
  <2>3. WindowsDisjoint'
    BY <1>1, <2>1 DEF CampaignInv, WindowsDisjoint, SweepActivate, campaignWindowsOverlap
  <2>4. ActiveHasBegun'
    BY <1>1, <2>1, <2>2 DEF CampaignInv, ActiveHasBegun, Active, IsActive, SweepActivate
  <2> QED
    BY <1>1, <1>3, <2>3, <2>4
    DEF CampaignInv, SweepActivate, OneActiveCampaign, CampaignTable, CampaignRow, Days
<1> QED
  BY <1>5, <1>6, SameDay DEF SweepActivate

(* Ending a campaign, in the sweep or by hand.                             *)
LEMMA EndCampaignIInv ==
    ASSUME IInv, NEW c \in Campaigns, EndCampaign(c)
    PROVE  IInv'
<1>1. CampaignInv /\ RowsSound(attribution, campaign)
  BY IInvParts
<1>2. campaign \in CampaignTable /\ campaign[c] \in CampaignRow /\ campaign[c].activated
  BY <1>1, NoneAssumption DEF CampaignInv, CampaignTable, EndCampaign, IsActive
<1>3. \A d \in Campaigns : /\ campaign'[d] = None <=> campaign[d] = None
                           /\ campaign[d] # None =>
                                /\ campaign'[d].startDate = campaign[d].startDate
                                /\ campaign'[d].endDate = campaign[d].endDate
                                /\ campaign'[d].activated = campaign[d].activated
                           /\ d # c => campaign'[d] = campaign[d]
  BY <1>2, NoneAssumption DEF CampaignTable, CampaignRow, EndCampaign
<1>4. campaign' \in CampaignTable
  BY <1>2 DEF CampaignTable, CampaignRow, EndCampaign
<1>5. Active(campaign') \subseteq Active(campaign)
  BY <1>2, <1>3 DEF Active, IsActive, EndCampaign, CampaignTable, CampaignRow
<1>6. RowsSound(attribution', campaign)
  BY <1>1, <1>2, NoneAssumption, EndTransitionSound DEF EndCampaign, CampaignInv
<1>7. RowsSound(attribution', campaign')
  BY <1>3, <1>6, CampaignChangeSound
<1>8. WindowsDisjoint'
  BY <1>1, <1>3 DEF CampaignInv, WindowsDisjoint, campaignWindowsOverlap
<1>9. ActiveHasBegun'
  BY <1>1, <1>3, <1>5 DEF CampaignInv, ActiveHasBegun, EndCampaign, Active, IsActive
<1>10. OneActiveCampaign'
  BY <1>1, <1>5 DEF CampaignInv, OneActiveCampaign, EndCampaign
<1>11. CampaignInv'
  BY <1>1, <1>4, <1>8, <1>9, <1>10 DEF CampaignInv, EndCampaign, Days
<1> QED
  BY <1>7, <1>11, SameDay DEF EndCampaign

(* The sweep commits only when nothing is overdue, and then two campaigns  *)
(* that are active would both run today; so there is one.                  *)
LEMMA SweepCommitIInv ==
    ASSUME IInv, SweepCommit
    PROVE  IInv'
<1>1. CampaignInv /\ RowsSound(attribution, campaign)
  BY IInvParts
<1>2. ASSUME NEW c \in Active(campaign), NEW d \in Active(campaign), c # d
      PROVE  FALSE
  <2>1. /\ c \in Campaigns /\ d \in Campaigns
        /\ campaign[c] \in CampaignRow /\ campaign[d] \in CampaignRow
    BY <1>1 DEF CampaignInv, CampaignTable, Active, IsActive
  <2>2. campaign[c].startDate <= today /\ campaign[d].startDate <= today
    BY <1>1 DEF CampaignInv, ActiveHasBegun
  <2>3. campaign[c].endDate \in Nat /\ campaign[d].endDate \in Nat /\ today \in Nat
        /\ campaign[c].startDate \in Nat /\ campaign[d].startDate \in Nat
    BY <1>1, <2>1, BoundsAssumption DEF CampaignInv, CampaignRow, Days
  <2>4. ~(campaign[c].endDate < today) /\ ~(campaign[d].endDate < today)
    BY <2>1 DEF SweepCommit, DueToEnd, Active
  <2>5. campaignWindowsOverlap(campaign[c].startDate, campaign[c].endDate,
                               campaign[d].startDate, campaign[d].endDate)
    BY <2>2, <2>3, <2>4 DEF campaignWindowsOverlap
  <2> QED
    BY <1>1, <1>2, <2>1, <2>5, NoneAssumption DEF CampaignInv, WindowsDisjoint
<1>3. OneActiveCampaign'
  BY <1>2 DEF OneActiveCampaign, SweepCommit
<1>4. CampaignInv'
  BY <1>1, <1>3 DEF CampaignInv, SweepCommit, WindowsDisjoint, ActiveHasBegun, Days
<1> QED
  BY <1>1, <1>4, SameDay DEF SweepCommit

(* The other steps of the sweep only move on.                              *)
LEMMA SweepMovesIInv ==
    ASSUME IInv, RunSweep \/ SweepTurn
    PROVE  IInv'
<1>1. CampaignInv /\ RowsSound(attribution, campaign)
  BY IInvParts
<1>2. UNCHANGED <<today, territory, campaign, attribution>> /\ phase' \in {"activating", "ending"}
  BY DEF RunSweep, SweepTurn
<1>3. CampaignInv'
  BY <1>1, <1>2 DEF CampaignInv, WindowsDisjoint, ActiveHasBegun, OneActiveCampaign, Days
<1> QED
  BY <1>1, <1>2, <1>3, SameDay

-----------------------------------------------------------------------------
(* Every request about attributions keeps the invariant.                   *)

(* A request about attributions does not touch campaigns.                  *)
LEMMA CampaignsUntouched ==
    ASSUME IInv, UNCHANGED <<today, territory, campaign, phase>>,
           RowsSound(attribution', campaign)
    PROVE  IInv'
<1>1. CampaignInv
  BY IInvParts
<1>2. CampaignInv'
  BY <1>1 DEF CampaignInv, WindowsDisjoint, ActiveHasBegun, OneActiveCampaign, Days
<1> QED
  BY <1>2, SameDay

(* Assigning a territory: the checks of "assign" are enough.               *)
LEMMA AssignIInv ==
    ASSUME IInv, NEW a \in Attributions, NEW p \in Publishers, NEW t \in Territories,
           NEW s \in AssignDays, Assign(a, p, t, s)
    PROVE  IInv'
<1>1. CampaignInv /\ RowsSound(attribution, campaign)
  BY IInvParts
<1>2. PICK c \in CurrentLayers :
          /\ c # None => ~IsOccupied(attribution, t)
          /\ ~LayerConflict(attribution, {}, p, t, c, s, None)
          /\ attribution' = [attribution EXCEPT ![a] = NewAttribution(campaign, p, t, s, c)]
  BY DEF Assign
<1>3. /\ c \in Campaigns \cup {None}
      /\ c # None => campaign[c] # None /\ campaign[c].activated
  BY DEF CurrentLayers, Active, IsActive
<1>4. s \in Days /\ today \in Days /\ campaign \in CampaignTable /\ attribution \in AttributionTable
  BY <1>1, InputAssumption DEF CampaignInv, RowsSound, Typed
<1>5. attribution'[a] = NewAttribution(campaign, p, t, s, c)
  BY <1>2, <1>4 DEF AttributionTable
<1>6. Fresh(attribution, campaign, attribution'[a])
  BY <1>2, <1>3, <1>4, <1>5, NewAttributionType DEF Fresh
<1>7. /\ {a} \in SUBSET FreeIds(attribution)
      /\ attribution' = [x \in Attributions |-> attribution'[x]]
      /\ \A x \in Attributions \ {a} : attribution'[x] = attribution[x]
  BY <1>2, <1>4 DEF FreeIds, Assign, AttributionTable
<1>8. RowsSound(attribution', campaign)
  <2> DEFINE ids == {a}
             new == attribution'
  <2>1. /\ ids \in SUBSET FreeIds(attribution)
        /\ new = [x \in Attributions |-> new[x]]
        /\ \A x \in Attributions \ ids : new[x] = attribution[x]
        /\ \A x \in ids : Fresh(attribution, campaign, new[x])
        /\ \A x, y \in ids : new[x].territoryId = new[y].territoryId => x = y
    BY <1>6, <1>7
  <2> HIDE DEF ids, new
  <2>2. RowsSound(new, campaign)
    BY <1>1, <1>4, <2>1, AddedRowsSound
  <2> QED
    BY <2>2 DEF new
<1> QED
  BY <1>8, CampaignsUntouched DEF Assign

(* An edit rewrites the publisher and the dates of one row; its territory, *)
(* its layer and its pause stay.                                           *)
LEMMA UpdatedRow ==
    ASSUME IInv, NEW a \in Attributions, NEW p \in Publishers, NEW s \in AssignDays,
           NEW e \in ReturnDays \cup {None}, NEW late \in DueDays \cup {None},
           UpdateAttribution(a, p, s, e, late)
    PROVE  LET row == attribution[a]
               new == attribution'
           IN  /\ row \in AttributionRow
               /\ new = [x \in Attributions |-> new[x]]
               /\ \A x \in Attributions : x # a => new[x] = attribution[x]
               /\ new[a] \in AttributionRow
               /\ new[a].publisherId = p /\ new[a].startDate = s
               /\ new[a].endDate = IF e # None THEN e ELSE row.endDate
               /\ new[a].territoryId = row.territoryId /\ new[a].campaignId = row.campaignId
               /\ new[a].pausedAt = row.pausedAt
               /\ new[a].pausedByCampaignId = row.pausedByCampaignId
<1> USE NoneAssumption
<1> DEFINE row == attribution[a]
           nextEnd == IF e # None THEN e ELSE row.endDate
           new == attribution'
<1>1. attribution \in AttributionTable /\ row \in AttributionRow
  BY IInvParts, RowType DEF RowsSound, Typed, UpdateAttribution, Rows
<1>2. new[a] = [row EXCEPT !.publisherId = p, !.startDate = s, !.endDate = nextEnd,
                           !.lateDate = IF late # None THEN late ELSE @]
  BY <1>1 DEF UpdateAttribution, AttributionTable
<1>3. /\ new = [x \in Attributions |-> new[x]]
      /\ \A x \in Attributions : x # a => new[x] = attribution[x]
  BY <1>1 DEF UpdateAttribution, AttributionTable
<1>4. /\ new[a].publisherId = p /\ new[a].startDate = s /\ new[a].endDate = nextEnd
      /\ new[a].territoryId = row.territoryId /\ new[a].campaignId = row.campaignId
      /\ new[a].pausedAt = row.pausedAt /\ new[a].pausedByCampaignId = row.pausedByCampaignId
  BY <1>1, <1>2 DEF AttributionRow
<1>5. new[a] \in AttributionRow
  <2>1. /\ s \in Days /\ nextEnd \in Days \cup {None}
        /\ (IF late # None THEN late ELSE row.lateDate) \in Nat
    BY <1>1, InputAssumption DEF AttributionRow
  <2> HIDE DEF nextEnd, row, new
  <2> QED
    BY <1>1, <1>2, <2>1 DEF AttributionRow
<1> QED
  BY <1>1, <1>3, <1>4, <1>5

(* Editing an attribution: the overlap is checked again whenever the       *)
(* publisher or a date of the row moves, and no edit reopens a row.        *)
LEMMA UpdateAttributionIInv ==
    ASSUME IInv, NEW a \in Attributions, NEW p \in Publishers, NEW s \in AssignDays,
           NEW e \in ReturnDays \cup {None}, NEW late \in DueDays \cup {None},
           UpdateAttribution(a, p, s, e, late)
    PROVE  IInv'
<1> USE NoneAssumption
<1> DEFINE row == attribution[a]
           nextEnd == IF e # None THEN e ELSE row.endDate
           moved == p # row.publisherId \/ s # row.startDate \/ nextEnd # row.endDate
           new == attribution'
<1>1. CampaignInv /\ RowsSound(attribution, campaign)
  BY IInvParts
<1>2. attribution \in AttributionTable /\ row \in AttributionRow
  BY <1>1, UpdatedRow DEF RowsSound, Typed
<1>3. /\ new = [x \in Attributions |-> new[x]]
      /\ \A x \in Attributions : x # a => new[x] = attribution[x]
      /\ new[a] \in AttributionRow
  BY UpdatedRow
<1>4. /\ new[a].publisherId = p /\ new[a].startDate = s /\ new[a].endDate = nextEnd
      /\ new[a].territoryId = row.territoryId /\ new[a].campaignId = row.campaignId
      /\ new[a].pausedAt = row.pausedAt /\ new[a].pausedByCampaignId = row.pausedByCampaignId
  BY UpdatedRow
<1>5. moved => ~LayerConflict(attribution, {a}, p, row.territoryId, row.campaignId, s, nextEnd)
  BY DEF UpdateAttribution
<1> HIDE DEF new
<1>6. a \in Rows(attribution) /\ Rows(new) = Rows(attribution)
  BY <1>2, <1>3 DEF Rows
<1>7. Typed(new)
  <2>1. new \in AttributionTable
    BY <1>2, <1>3 DEF AttributionTable
  <2> QED
    BY <1>1, <1>3, <1>4, <1>6, <2>1 DEF RowsSound, Typed, PausedInPast, IsPaused, Rows
<1>8. ASSUME NEW b \in Rows(new), b # a,
              new[b].publisherId = new[a].publisherId, new[b].territoryId = new[a].territoryId,
              new[b].campaignId = new[a].campaignId
       PROVE  ~attributionsOverlap(new[a].startDate, new[a].endDate, new[b].startDate, new[b].endDate)
  <2>1. b \in Rows(attribution) \ {a} /\ new[b] = attribution[b]
    BY <1>3, <1>6, <1>8 DEF Rows
  <2>2. CASE moved
    BY <1>4, <1>5, <1>8, <2>1, <2>2 DEF LayerConflict
  <2>3. CASE ~moved
    BY <1>1, <1>4, <1>6, <1>8, <2>1, <2>3 DEF RowsSound, LayersApart
  <2> QED
    BY <2>2, <2>3
<1>9. LayersApart(new)
  <2>1. SUFFICES ASSUME NEW x \in Rows(new), NEW y \in Rows(new), x # y,
                        new[x].publisherId = new[y].publisherId,
                        new[x].territoryId = new[y].territoryId,
                        new[x].campaignId = new[y].campaignId
                 PROVE  ~attributionsOverlap(new[x].startDate, new[x].endDate,
                                             new[y].startDate, new[y].endDate)
    BY DEF LayersApart
  <2>2. CASE x = a
    BY <1>8, <2>1, <2>2
  <2>3. CASE y = a
    BY <1>8, <2>1, <2>3 DEF attributionsOverlap
  <2>4. CASE x # a /\ y # a
    BY <1>1, <1>3, <1>6, <2>1, <2>4 DEF RowsSound, LayersApart, Rows
  <2> QED
    BY <2>2, <2>3, <2>4
<1>10. WorkedOnce(new)
  <2>1. \A x \in Rows(new) : /\ IsOpen(new[x]) => IsOpen(attribution[x])
                             /\ new[x].territoryId = attribution[x].territoryId
                             /\ new[x].campaignId = attribution[x].campaignId
    BY <1>2, <1>3, <1>4, <1>6 DEF IsOpen, Rows
  <2> QED
    BY <1>1, <1>6, <2>1 DEF RowsSound, WorkedOnce
<1>11. AllOwned(new, campaign)
  BY <1>1, <1>3, <1>4, <1>6 DEF RowsSound, AllOwned, Owned, Rows
<1>12. RowsSound(new, campaign)
  BY <1>7, <1>9, <1>10, <1>11 DEF RowsSound
<1> QED
  BY <1>12, CampaignsUntouched DEF UpdateAttribution, new

(* Lifting one pause by hand is a bulk transition of one row.              *)
LEMMA ResumeAttributionIInv ==
    ASSUME IInv, NEW a \in Attributions, ResumeAttribution(a)
    PROVE  IInv'
<1>1. CampaignInv /\ RowsSound(attribution, campaign)
  BY IInvParts
<1>2. attribution \in AttributionTable
  BY <1>1 DEF RowsSound, Typed
<1>3. attribution[a] \in AttributionRow
  BY <1>2, RowType DEF ResumeAttribution, IsPaused, Rows
<1>4. TableMove(attribution, attribution', attribution[a].pausedByCampaignId)
  BY <1>2, <1>3 DEF ResumeAttribution, TableMove, BulkMove, Release, AttributionTable
<1>5. Owned(attribution[a], campaign)
  BY <1>1, <1>3, NoneAssumption DEF RowsSound, AllOwned, Rows
<1>6. attribution[a].pausedByCampaignId \in Campaigns =>
         /\ campaign[attribution[a].pausedByCampaignId] # None
         /\ campaign[attribution[a].pausedByCampaignId].activated
  BY <1>5, NoneAssumption DEF Owned
<1>7. RowsSound(attribution', campaign)
  BY <1>1, <1>4, <1>6, TableMoveSound DEF CampaignInv
<1> QED
  BY <1>7, CampaignsUntouched DEF ResumeAttribution

(* A member who leaves returns every open territory, paused or not.        *)
LEMMA ReturnAllOfIInv ==
    ASSUME IInv, NEW p \in Publishers, ReturnAllOf(p)
    PROVE  IInv'
<1> DEFINE open == { a \in Rows(attribution) :
                       IsOpen(attribution[a]) /\ attribution[a].publisherId = p }
<1>1. CampaignInv /\ RowsSound(attribution, campaign)
  BY IInvParts
<1>2. attribution \in AttributionTable
  BY <1>1 DEF RowsSound, Typed
<1>3. open \in SUBSET Rows(attribution) /\ \A a \in open : IsOpen(attribution[a])
  OBVIOUS
<1>4. attribution' = CloseRows(attribution, open)
  BY DEF ReturnAllOf
<1> HIDE DEF open
<1>5. TableMove(attribution, attribution', None)
  BY <1>2, <1>3, <1>4, CloseIsMove
<1>6. RowsSound(attribution', campaign)
  BY <1>1, <1>5, NoneAssumption, TableMoveSound DEF CampaignInv
<1> QED
  BY <1>6, CampaignsUntouched DEF ReturnAllOf

(* Removing a row takes it out of every condition.                         *)
LEMMA DeleteAttributionIInv ==
    ASSUME IInv, NEW a \in Attributions, DeleteAttribution(a)
    PROVE  IInv'
<1>1. CampaignInv /\ RowsSound(attribution, campaign)
  BY IInvParts
<1>2. attribution \in AttributionTable
  BY <1>1 DEF RowsSound, Typed
<1>3. attribution' \in AttributionTable
  BY <1>2 DEF DeleteAttribution, AttributionTable
<1>4. \A x \in Rows(attribution') : x \in Rows(attribution) /\ attribution'[x] = attribution[x]
  BY <1>2 DEF DeleteAttribution, AttributionTable, Rows
<1>5. RowsSound(attribution', campaign)
  <2> DEFINE new == attribution'
  <2>1. new \in AttributionTable
        /\ \A x \in Rows(new) : x \in Rows(attribution) /\ new[x] = attribution[x]
    BY <1>3, <1>4
  <2> HIDE DEF new
  <2>2. Typed(new) /\ AllOwned(new, campaign)
    BY <1>1, <2>1 DEF RowsSound, Typed, PausedInPast, AllOwned
  <2>3. LayersApart(new)
    BY <1>1, <2>1 DEF RowsSound, LayersApart
  <2>4. WorkedOnce(new)
    BY <1>1, <2>1 DEF RowsSound, WorkedOnce
  <2>5. RowsSound(new, campaign)
    BY <2>2, <2>3, <2>4 DEF RowsSound
  <2> QED
    BY <2>5 DEF new
<1> QED
  BY <1>5, CampaignsUntouched DEF DeleteAttribution

-----------------------------------------------------------------------------
(* Every request about campaigns and territories keeps the invariant.      *)

(* Creating a campaign: its window shares no day with another one.         *)
LEMMA CreateCampaignIInv ==
    ASSUME IInv, NEW c \in Campaigns, NEW w \in Windows, NEW so \in StartOptions,
           NEW eo \in EndOptions, NEW scope \in Scopes, CreateCampaign(c, w, so, eo, scope)
    PROVE  IInv'
<1> DEFINE row == [ startDate |-> w[1], endDate |-> w[2], start |-> so, end |-> eo,
                    scope |-> scope, activated |-> FALSE, ended |-> FALSE ]
<1>1. CampaignInv /\ RowsSound(attribution, campaign)
  BY IInvParts
<1>2. w[1] \in Days /\ w[2] \in Days
  BY InputAssumption
<1>3. row \in CampaignRow
  BY <1>2, InputAssumption DEF CampaignRow
<1>4. /\ row.startDate = w[1] /\ row.endDate = w[2] /\ row.activated = FALSE
  OBVIOUS
<1>5. campaign' = [campaign EXCEPT ![c] = row]
  BY DEF CreateCampaign
<1> HIDE DEF row
<1>6. campaign' \in CampaignTable
  BY <1>1, <1>3, <1>5 DEF CampaignInv, CampaignTable
<1>7. campaign'[c] = row /\ \A d \in Campaigns : d # c => campaign'[d] = campaign[d]
  BY <1>1, <1>5 DEF CampaignInv, CampaignTable
<1>8. campaign[c] = None
  BY DEF CreateCampaign
<1>9. RowsSound(attribution', campaign')
  <2>1. \A d \in Campaigns : campaign[d] # None /\ campaign[d].activated =>
                                campaign'[d] # None /\ campaign'[d].activated
    BY <1>7, <1>8
  <2>2. RowsSound(attribution, campaign')
    BY <1>1, <2>1, CampaignChangeSound
  <2> QED
    BY <2>2 DEF CreateCampaign
<1>10. ASSUME NEW d \in Campaigns, d # c, campaign[d] # None
       PROVE  /\ ~campaignWindowsOverlap(row.startDate, row.endDate,
                                         campaign[d].startDate, campaign[d].endDate)
              /\ ~campaignWindowsOverlap(campaign[d].startDate, campaign[d].endDate,
                                         row.startDate, row.endDate)
  BY <1>4, <1>10 DEF CreateCampaign, WindowConflict, campaignWindowsOverlap
<1>11. WindowsDisjoint'
  BY <1>1, <1>7, <1>10 DEF CampaignInv, WindowsDisjoint
<1>12. ActiveHasBegun'
  BY <1>1, <1>4, <1>7 DEF CampaignInv, ActiveHasBegun, Active, IsActive, CreateCampaign
<1>13. CampaignInv'
  BY <1>1, <1>6, <1>11, <1>12 DEF CampaignInv, OneActiveCampaign, CreateCampaign, Days
<1> QED
  BY <1>9, <1>13, SameDay DEF CreateCampaign

(* Editing a campaign: its window is checked again, with the start date it *)
(* keeps once it has begun, and its rows change sides with the scope.      *)
LEMMA EditCampaignIInv ==
    ASSUME IInv, NEW c \in Campaigns, NEW w \in Windows, NEW so \in StartOptions,
           NEW eo \in EndOptions, NEW scope \in Scopes, EditCampaign(c, w, so, eo, scope)
    PROVE  IInv'
<1> DEFINE new == Updated(campaign[c], w, so, eo)
           camp == [campaign EXCEPT ![c] = new]
           final == [new EXCEPT !.scope = scope]
<1>1. CampaignInv /\ RowsSound(attribution, campaign)
  BY IInvParts
<1>2. campaign \in CampaignTable /\ campaign[c] \in CampaignRow
  BY <1>1 DEF CampaignInv, CampaignTable, EditCampaign
<1>3. w[1] \in Days /\ w[2] \in Days
  BY InputAssumption
<1>4. /\ new \in CampaignRow
      /\ new.activated = campaign[c].activated /\ new.ended = campaign[c].ended
      /\ campaign[c].activated => new.startDate = campaign[c].startDate
  BY <1>2, <1>3, InputAssumption DEF Updated, CampaignRow
<1>5. /\ ~WindowConflict({c}, new.startDate, new.endDate)
      /\ attribution' \in applyScopeChange(attribution, camp, c, campaign[c], scope)
      /\ campaign' = [campaign EXCEPT ![c] = final]
      /\ phase' = "activating" /\ UNCHANGED <<today, territory>>
  BY DEF EditCampaign
<1> HIDE DEF new
<1>6. /\ final \in CampaignRow
      /\ final.startDate = new.startDate /\ final.endDate = new.endDate
      /\ final.activated = new.activated /\ final.ended = new.ended
  BY <1>4, InputAssumption DEF CampaignRow
<1>7. /\ camp \in CampaignTable /\ camp[c] = new
      /\ \A d \in Campaigns : d # c => camp[d] = campaign[d]
  BY <1>2, <1>4 DEF CampaignTable
<1> HIDE DEF final, camp
<1>8. /\ campaign' \in CampaignTable /\ campaign'[c] = final
      /\ \A d \in Campaigns : d # c => campaign'[d] = campaign[d]
  BY <1>2, <1>5, <1>6 DEF CampaignTable
<1>9. new # None /\ final # None
  BY <1>4, <1>6, NoneAssumption
<1>10. RowsSound(attribution, camp)
  BY <1>1, <1>4, <1>7, <1>9, CampaignChangeSound
<1>11. RowsSound(attribution', camp)
  BY <1>1, <1>4, <1>5, <1>7, <1>9, <1>10, ScopeChangeSound DEF IsActive, CampaignInv
<1>12. RowsSound(attribution', campaign')
  BY <1>6, <1>7, <1>8, <1>9, <1>11, CampaignChangeSound
<1>13. ASSUME NEW d \in Campaigns, d # c, campaign[d] # None
       PROVE  /\ ~campaignWindowsOverlap(final.startDate, final.endDate,
                                         campaign[d].startDate, campaign[d].endDate)
              /\ ~campaignWindowsOverlap(campaign[d].startDate, campaign[d].endDate,
                                         final.startDate, final.endDate)
  BY <1>5, <1>6, <1>13 DEF WindowConflict, campaignWindowsOverlap
<1>14. WindowsDisjoint'
  BY <1>1, <1>8, <1>13 DEF CampaignInv, WindowsDisjoint
<1>15. ActiveHasBegun'
  BY <1>1, <1>2, <1>4, <1>5, <1>6, <1>8, NoneAssumption
  DEF CampaignInv, ActiveHasBegun, Active, IsActive
<1>16. CampaignInv'
  BY <1>1, <1>5, <1>8, <1>14, <1>15 DEF CampaignInv, OneActiveCampaign, Days
<1> QED
  BY <1>5, <1>12, <1>16, SameDay

(* Deleting a campaign: nothing refers to it.                              *)
LEMMA DeleteCampaignIInv ==
    ASSUME IInv, NEW c \in Campaigns, DeleteCampaign(c)
    PROVE  IInv'
<1>1. CampaignInv /\ RowsSound(attribution, campaign)
  BY IInvParts
<1>2. attribution \in AttributionTable
  BY <1>1 DEF RowsSound, Typed
<1>3. /\ campaign' \in CampaignTable /\ campaign'[c] = None
      /\ \A d \in Campaigns : d # c => campaign'[d] = campaign[d]
  BY <1>1 DEF CampaignInv, CampaignTable, DeleteCampaign
<1>4. AllOwned(attribution, campaign')
  <2>1. SUFFICES ASSUME NEW a \in Rows(attribution)
                 PROVE  Owned(attribution[a], campaign')
    BY DEF AllOwned
  <2>2. attribution[a] \in AttributionRow /\ Owned(attribution[a], campaign)
    BY <1>1, <1>2, RowType DEF RowsSound, AllOwned
  <2>3. c # attribution[a].campaignId /\ c # attribution[a].pausedByCampaignId
    BY DEF DeleteCampaign
  <2> QED
    BY <1>3, <2>2, <2>3 DEF Owned, AttributionRow
<1>5. RowsSound(attribution', campaign')
  BY <1>1, <1>4 DEF RowsSound, DeleteCampaign
<1>6. Active(campaign') \subseteq Active(campaign)
  BY <1>3 DEF Active, IsActive
<1>7. WindowsDisjoint'
  BY <1>1, <1>3 DEF CampaignInv, WindowsDisjoint
<1>8. ActiveHasBegun'
  BY <1>1, <1>3, <1>6 DEF CampaignInv, ActiveHasBegun, DeleteCampaign, Active, IsActive
<1>9. OneActiveCampaign'
  BY <1>1, <1>6 DEF CampaignInv, OneActiveCampaign, DeleteCampaign
<1>10. CampaignInv'
  BY <1>1, <1>3, <1>7, <1>8, <1>9 DEF CampaignInv, DeleteCampaign, Days
<1> QED
  BY <1>5, <1>10, SameDay DEF DeleteCampaign

(* Deleting a territory shrinks scopes and nothing else.                   *)
LEMMA DeleteTerritoryIInv ==
    ASSUME IInv, NEW t \in Territories, DeleteTerritory(t)
    PROVE  IInv'
<1>1. CampaignInv /\ RowsSound(attribution, campaign)
  BY IInvParts
<1>2. campaign \in CampaignTable
  BY <1>1 DEF CampaignInv
<1>3. ASSUME NEW d \in Campaigns
      PROVE  /\ campaign'[d] \in CampaignRow \cup {None}
             /\ campaign'[d] = None <=> campaign[d] = None
             /\ campaign[d] # None =>
                  /\ campaign'[d].startDate = campaign[d].startDate
                  /\ campaign'[d].endDate = campaign[d].endDate
                  /\ campaign'[d].activated = campaign[d].activated
                  /\ campaign'[d].ended = campaign[d].ended
  <2>1. CASE campaign[d] = None
    BY <2>1 DEF DeleteTerritory
  <2>2. CASE campaign[d] # None
    <3>1. campaign[d] \in CampaignRow
      BY <1>2, <2>2 DEF CampaignTable
    <3>2. campaign'[d] = [campaign[d] EXCEPT !.scope = campaign[d].scope \ {t}]
      BY <2>2, <3>1 DEF DeleteTerritory, CampaignRow
    <3>3. campaign[d].scope \ {t} \in SUBSET Territories
      BY <3>1 DEF CampaignRow
    <3>4. campaign'[d] \in CampaignRow
      BY <3>1, <3>2, <3>3 DEF CampaignRow
    <3>5. /\ campaign'[d].startDate = campaign[d].startDate
          /\ campaign'[d].endDate = campaign[d].endDate
          /\ campaign'[d].activated = campaign[d].activated
          /\ campaign'[d].ended = campaign[d].ended
      BY <3>1, <3>2 DEF CampaignRow
    <3> QED
      BY <2>2, <3>4, <3>5, NoneAssumption
  <2> QED
    BY <2>1, <2>2
<1>4. campaign' \in CampaignTable
  BY <1>3 DEF CampaignTable, DeleteTerritory
<1>5. RowsSound(attribution, campaign')
  BY <1>1, <1>3, CampaignChangeSound
<1>6. RowsSound(attribution', campaign')
  BY <1>5 DEF DeleteTerritory
<1>7. Active(campaign') = Active(campaign)
  BY <1>3 DEF Active, IsActive
<1>8. WindowsDisjoint'
  BY <1>1, <1>3 DEF CampaignInv, WindowsDisjoint
<1>9. ActiveHasBegun'
  BY <1>1, <1>3, <1>7 DEF CampaignInv, ActiveHasBegun, DeleteTerritory, Active, IsActive
<1>10. OneActiveCampaign'
  BY <1>1, <1>7 DEF CampaignInv, OneActiveCampaign, DeleteTerritory
<1>11. CampaignInv'
  BY <1>1, <1>4, <1>8, <1>9, <1>10 DEF CampaignInv, DeleteTerritory, Days
<1> QED
  BY <1>6, <1>11, SameDay DEF DeleteTerritory

(* A new territory is referred to by nothing.                              *)
LEMMA CreateTerritoryIInv ==
    ASSUME IInv, NEW t \in Territories, CreateTerritory(t)
    PROVE  IInv'
<1>1. CampaignInv /\ RowsSound(attribution, campaign)
  BY IInvParts
<1>2. CampaignInv'
  BY <1>1 DEF CampaignInv, CreateTerritory, WindowsDisjoint, ActiveHasBegun, OneActiveCampaign, Days
<1> QED
  BY <1>1, <1>2, SameDay DEF CreateTerritory

(* Another day: a pause that lies in the past stays there, and a campaign  *)
(* that has begun has begun.                                               *)
LEMMA NextDayIInv ==
    ASSUME IInv, NextDay
    PROVE  IInv'
<1>1. CampaignInv /\ RowsSound(attribution, campaign)
  BY IInvParts
<1>2. today \in Nat /\ today' = today + 1 /\ today' \in Days
  BY <1>1, BoundsAssumption DEF CampaignInv, NextDay, Days
<1>3. UNCHANGED <<territory, campaign, attribution, phase>>
  BY DEF NextDay
<1>4. \A c \in Campaigns : campaign[c] # None => campaign[c].startDate \in Nat
  BY <1>1, BoundsAssumption DEF CampaignInv, CampaignTable, CampaignRow, Days
<1>5. CampaignInv'
  <2>1. ActiveHasBegun'
    BY <1>1, <1>2, <1>3, <1>4 DEF CampaignInv, ActiveHasBegun, Active, IsActive
  <2> QED
    BY <1>1, <1>2, <1>3, <2>1 DEF CampaignInv, WindowsDisjoint, OneActiveCampaign, Days
<1>6. \A a \in Rows(attribution) : IsPaused(attribution[a]) => attribution[a].pausedAt \in Nat
  BY <1>1, BoundsAssumption, RowType DEF RowsSound, Typed, AttributionRow, IsPaused, Days
<1>7. RowsSound(attribution, campaign)'
  <2>1. PausedInPast(attribution)'
    BY <1>1, <1>2, <1>3, <1>6 DEF RowsSound, Typed, PausedInPast, Rows, IsPaused
  <2> QED
    BY <1>1, <1>2, <1>3, <2>1
    DEF RowsSound, Typed, AttributionTable, AttributionRow, Rows, IsPaused,
        LayersApart, WorkedOnce, AllOwned, Owned, IsOpen, attributionsOverlap, ReachesDay, Days
<1> QED
  BY <1>5, <1>7 DEF IInv, CampaignInv, TypeOK, CampaignTable, RowsSound, Typed, AttributionTable

-----------------------------------------------------------------------------
(* The theorems.                                                           *)

(* The invariant is inductive: every operation of the campaigns and of the *)
(* attributions, and every step of a sweep, keeps it.                      *)
LEMMA NextIInv == IInv /\ [Next]_vars => IInv'
<1> SUFFICES ASSUME IInv, [Next]_vars PROVE IInv'
  OBVIOUS
<1>1. ASSUME NEW c \in Campaigns, CampaignRequest(c) PROVE IInv'
  <2>1. ASSUME NEW w \in Windows, NEW so \in StartOptions, NEW eo \in EndOptions, NEW scope \in Scopes,
               CreateCampaign(c, w, so, eo, scope) \/ EditCampaign(c, w, so, eo, scope)
        PROVE  IInv'
    BY <2>1, CreateCampaignIInv, EditCampaignIInv
  <2>2. CASE EndCampaignByHand(c)
    BY <2>2, EndCampaignIInv DEF EndCampaignByHand
  <2>3. CASE DeleteCampaign(c)
    BY <2>3, DeleteCampaignIInv
  <2> QED
    BY <1>1, <2>1, <2>2, <2>3 DEF CampaignRequest
<1>2. ASSUME NEW a \in Attributions, AttributionRequest(a) PROVE IInv'
  <2>1. ASSUME NEW p \in Publishers, NEW t \in Territories, NEW s \in AssignDays, Assign(a, p, t, s)
        PROVE  IInv'
    BY <2>1, AssignIInv
  <2>2. ASSUME NEW p \in Publishers, NEW s \in AssignDays, NEW e \in ReturnDays \cup {None},
               NEW late \in DueDays \cup {None}, UpdateAttribution(a, p, s, e, late)
        PROVE  IInv'
    BY <2>2, UpdateAttributionIInv
  <2>3. CASE ResumeAttribution(a)
    BY <2>3, ResumeAttributionIInv
  <2>4. CASE DeleteAttribution(a)
    BY <2>4, DeleteAttributionIInv
  <2> QED
    BY <1>2, <2>1, <2>2, <2>3, <2>4 DEF AttributionRequest
<1>3. CASE Sweep
  <2>1. ASSUME NEW c \in Campaigns, SweepActivate(c) PROVE IInv'
    BY <2>1, SweepActivateIInv
  <2>2. ASSUME NEW c \in Campaigns, SweepEnd(c) PROVE IInv'
    BY <2>2, EndCampaignIInv DEF SweepEnd
  <2>3. CASE RunSweep \/ SweepTurn
    BY <2>3, SweepMovesIInv
  <2>4. CASE SweepCommit
    BY <2>4, SweepCommitIInv
  <2> QED
    BY <1>3, <2>1, <2>2, <2>3, <2>4 DEF Sweep
<1>4. ASSUME NEW p \in Publishers, ReturnAllOf(p) PROVE IInv'
  BY <1>4, ReturnAllOfIInv
<1>5. ASSUME NEW t \in Territories, DeleteTerritory(t) \/ CreateTerritory(t) PROVE IInv'
  BY <1>5, DeleteTerritoryIInv, CreateTerritoryIInv
<1>6. CASE NextDay
  BY <1>6, NextDayIInv
<1>7. CASE UNCHANGED vars
  <2>1. CampaignInv /\ RowsSound(attribution, campaign)
    BY IInvParts
  <2>2. CampaignInv'
    BY <1>7, <2>1 DEF vars, CampaignInv, WindowsDisjoint, ActiveHasBegun, OneActiveCampaign, Days
  <2> QED
    BY <1>7, <2>1, <2>2, SameDay DEF vars
<1> QED
  BY <1>1, <1>2, <1>3, <1>4, <1>5, <1>6, <1>7 DEF Next

(* Hence it holds in every reachable state.                                *)
LEMMA Invariance == Spec => []IInv
BY InitIInv, NextIInv, PTL DEF Spec

(* The tables keep to the schema, and no due date becomes negative.        *)
THEOREM TypeCorrect == Spec => []TypeOK
<1>1. IInv => TypeOK
  BY DEF IInv
<1> QED
  BY <1>1, Invariance, PTL

(* Campaign mode is a single on/off for every calendar and any number of   *)
(* campaigns, although a sweep may come late and windows can be edited.    *)
THEOREM CampaignModeIsSingle == Spec => []OneActiveCampaign
<1>1. IInv => OneActiveCampaign
  BY DEF IInv
<1> QED
  BY <1>1, Invariance, PTL

(* No sequence of operations makes two rows of one layer overlap.          *)
THEOREM LayersStayApart == Spec => []LayersNeverOverlap
<1>1. IInv => LayersNeverOverlap
  BY DEF IInv, RowsSound, LayersApart, LayersNeverOverlap
<1> QED
  BY <1>1, Invariance, PTL

(* No sequence of operations makes a territory worked twice in campaigns.  *)
THEOREM TerritoryIsWorkedOnce == Spec => []TerritoryWorkedOnce
<1>1. IInv => TerritoryWorkedOnce
  BY DEF IInv, RowsSound, WorkedOnce, TerritoryWorkedOnce
<1> QED
  BY <1>1, Invariance, PTL

(* Every pause has an owner that exists and has begun.                     *)
THEOREM PausesAreOwned == Spec => []PausesHaveOwners
<1>1. IInv => PausesHaveOwners
  BY DEF IInv, RowsSound, AllOwned, Owned, PausesHaveOwners
<1> QED
  BY <1>1, Invariance, PTL

-----------------------------------------------------------------------------
(* What a step of a campaign may do to one row: the promise of             *)
(* TerritoryCustody, and that nobody is retroactively late.                *)

\* The row is not overdue; while it is paused, it was not on the day it was paused.
InTime(row) ==
    /\ IsPaused(row) => ~IsOverdue(row, row.pausedAt)
    /\ IsWorked(row) => ~IsOverdue(row, today)

Follows(old, new, c) ==
    /\ new \in AttributionRow /\ new.territoryId = old.territoryId
    /\ Promise!MoveOf(c, CustodyOf(old), CustodyOf(new))
    /\ InTime(old) => InTime(new)

\* What "assign" inserts: an open row, not paused.
Opened(row) ==
    /\ row \in AttributionRow
    /\ row.endDate = None /\ row.pausedAt = None /\ row.pausedByCampaignId = None

(* The four custodies of a row that exists or not: the pause and its owner *)
(* go together (PausesHaveOwners).                                         *)
LEMMA CustodyCases ==
    ASSUME NEW row \in AttributionRow, NEW camp, Owned(row, camp)
    PROVE  /\ row # None
           /\ row.endDate # None => CustodyOf(row) = Promise!Returned
           /\ row.endDate = None /\ row.pausedAt = None => CustodyOf(row) = Promise!Held
           /\ row.endDate = None /\ row.pausedAt # None =>
                /\ row.pausedByCampaignId \in Campaigns
                /\ CustodyOf(row) = Promise!Suspended(row.pausedByCampaignId)
<1>1. row # None
  BY NoneAssumption
<1>2. /\ row.pausedAt # None <=> row.pausedByCampaignId # None
      /\ row.pausedByCampaignId \in Campaigns \cup {None}
  BY DEF Owned, AttributionRow
<1> QED
  BY <1>1, <1>2 DEF CustodyOf, IsOpen, Promise!Returned, Promise!Held, Promise!Suspended

LEMMA OpenedCustody ==
    ASSUME NEW row, Opened(row)
    PROVE  row # None /\ CustodyOf(row) = Promise!Held
BY NoneAssumption DEF Opened, CustodyOf, IsOpen, Promise!Held

LEMMA AbsentCustody ==
    /\ CustodyOf(None) = Promise!Absent
    /\ Promise!Absent # Promise!Held /\ Promise!Absent # Promise!Returned
    /\ Promise!Held # Promise!Returned
    /\ \A c : /\ Promise!Suspended(c) # Promise!Absent /\ Promise!Suspended(c) # Promise!Held
              /\ Promise!Suspended(c) # Promise!Returned
BY DEF CustodyOf, IsOpen, Promise!Absent, Promise!Held, Promise!Returned, Promise!Suspended

(* A bulk transition on behalf of campaign c suspends only what is held,   *)
(* gives back only what c had suspended, and never opens again what was    *)
(* returned; and a pause moves the due date by its whole length.           *)
LEMMA BulkMoveFollows ==
    ASSUME today \in Days, NEW camp,
           NEW c \in Campaigns, camp[c] # None, camp[c].activated,
           NEW old \in AttributionRow, NEW new,
           BulkMove(old, new, c), Owned(old, camp), IsPaused(old) => old.pausedAt <= today
    PROVE  Follows(old, new, c)
<1> USE NoneAssumption, BoundsAssumption
<1>1. new \in AttributionRow \cup {None} /\ (new = old \/ Shrinks(old, new))
  BY BulkMoveShrinks
<1>2. new \in AttributionRow /\ new.territoryId = old.territoryId
  BY <1>1 DEF Shrinks
<1>3. Owned(new, camp)
  BY BulkMoveOwned
<1>4. /\ old.lateDate \in Nat /\ today \in Nat /\ old.pausedAt \in Nat \cup {None}
      /\ old # None
  BY DEF AttributionRow, Days
<1>5. CASE new = old
  BY <1>2, <1>5 DEF Follows, Promise!MoveOf
<1>6. CASE Suspend(old, new, c)
  <2>1. /\ old.endDate = None /\ old.pausedAt = None /\ new.endDate = None /\ new.pausedAt = today
        /\ new.pausedByCampaignId = c /\ new.lateDate = old.lateDate
    BY <1>6 DEF Suspend, AttributionRow
  <2>2. CustodyOf(old) = Promise!Held /\ CustodyOf(new) = Promise!Suspended(c)
    BY <1>2, <1>3, <1>4, <2>1, CustodyCases
  <2>3. InTime(old) => InTime(new)
    BY <1>4, <2>1 DEF InTime, IsPaused, IsWorked, IsOpen, IsOverdue
  <2> QED
    BY <1>2, <2>2, <2>3 DEF Follows, Promise!MoveOf
<1>7. CASE Return(old, new) \/ ReturnReleased(old, new, c)
  <2>1. /\ old.endDate = None /\ new.endDate = today /\ today # None
        /\ new.lateDate = old.lateDate
        /\ new.pausedAt = old.pausedAt \/ new.pausedAt = None
    BY <1>4, <1>7 DEF Return, ReturnReleased, AttributionRow
  <2>2. CustodyOf(old) \notin {Promise!Absent, Promise!Returned} /\ CustodyOf(new) = Promise!Returned
    BY <1>2, <1>3, <2>1, CustodyCases, AbsentCustody
  <2>3. InTime(old) => InTime(new)
    BY <1>4, <2>1 DEF InTime, IsPaused, IsWorked, IsOpen, IsOverdue
  <2> QED
    BY <1>2, <2>2, <2>3 DEF Follows, Promise!MoveOf
<1>8. CASE Release(old, new, c)
  <2>1. /\ old.pausedByCampaignId = c /\ new.endDate = old.endDate /\ new.pausedAt = None
        /\ new.lateDate = IF old.pausedAt = None THEN old.lateDate
                          ELSE old.lateDate + (today - old.pausedAt)
    BY <1>8 DEF Release, Resumed, AttributionRow
  <2>2. old.pausedAt # None
    BY <2>1 DEF Owned
  <2>3. CASE old.endDate = None
    <3>1. CustodyOf(old) = Promise!Suspended(c) /\ CustodyOf(new) = Promise!Held
      BY <1>2, <1>3, <2>1, <2>2, <2>3, CustodyCases
    <3>2. InTime(old) => InTime(new)
      BY <1>4, <2>1, <2>2 DEF InTime, IsPaused, IsWorked, IsOpen, IsOverdue
    <3> QED
      BY <1>2, <3>1, <3>2 DEF Follows, Promise!MoveOf
  <2>4. CASE old.endDate # None
    <3>1. CustodyOf(old) = Promise!Returned /\ CustodyOf(new) = Promise!Returned
      BY <1>2, <1>3, <2>1, <2>4, CustodyCases
    <3>2. InTime(new)
      BY <2>1, <2>4 DEF InTime, IsPaused, IsWorked, IsOpen
    <3> QED
      BY <1>2, <3>1, <3>2 DEF Follows, Promise!MoveOf
  <2> QED
    BY <2>3, <2>4
<1> QED
  BY <1>5, <1>6, <1>7, <1>8 DEF BulkMove

(* Several transitions of one campaign in a row do no more to a row that   *)
(* exists than one could.                                                  *)
LEMMA FollowsTransitive ==
    ASSUME NEW c, NEW x, NEW y, NEW z, CustodyOf(x) # Promise!Absent,
           Follows(x, y, c), Follows(y, z, c)
    PROVE  Follows(x, z, c)
<1>1. Promise!MoveOf(c, CustodyOf(x), CustodyOf(y)) /\ Promise!MoveOf(c, CustodyOf(y), CustodyOf(z))
  BY DEF Follows
<1>2. Promise!MoveOf(c, CustodyOf(x), CustodyOf(z))
  BY <1>1, AbsentCustody DEF Promise!MoveOf
<1> QED
  BY <1>2 DEF Follows

-----------------------------------------------------------------------------
(* What a step of a campaign may do to the table.                          *)

Moved(att, new, c) ==
    \A a \in Attributions :
        /\ att[a] # None => Follows(att[a], new[a], c)
        /\ att[a] = None => new[a] = None \/ Opened(new[a])

(* A bulk transition is one move of every row.                             *)
LEMMA TableMoveMoved ==
    ASSUME today \in Days, NEW camp,
           NEW c \in Campaigns, camp[c] # None, camp[c].activated,
           NEW att, NEW new, RowsSound(att, camp), TableMove(att, new, c)
    PROVE  /\ Moved(att, new, c)
           /\ \A a \in Attributions : att[a] = None => new[a] = None
<1>1. att \in AttributionTable /\ PausedInPast(att) /\ AllOwned(att, camp)
  BY DEF RowsSound, Typed
<1>2. ASSUME NEW a \in Attributions, att[a] # None
      PROVE  Follows(att[a], new[a], c)
  <2>1. a \in Rows(att) /\ att[a] \in AttributionRow
    BY <1>1, <1>2, RowType DEF Rows
  <2>2. Owned(att[a], camp) /\ (IsPaused(att[a]) => att[a].pausedAt <= today)
    BY <1>1, <2>1 DEF AllOwned, PausedInPast
  <2>3. BulkMove(att[a], new[a], c)
    BY DEF TableMove
  <2> QED
    BY <2>1, <2>2, <2>3, BulkMoveFollows
<1>3. ASSUME NEW a \in Attributions, att[a] = None
      PROVE  new[a] = None
  BY <1>3, NoneAssumption DEF TableMove, BulkMove, Suspend, Return, Release, ReturnReleased
<1> QED
  BY <1>2, <1>3 DEF Moved

(* Two moves of the rows that exist are a move.                            *)
LEMMA MovedTwice ==
    ASSUME NEW att, NEW mid, NEW new, NEW c, NEW camp,
           RowsSound(att, camp), Moved(att, mid, c), Moved(mid, new, c),
           \A a \in Attributions : att[a] = None => new[a] = None \/ Opened(new[a])
    PROVE  Moved(att, new, c)
<1>1. ASSUME NEW a \in Attributions, att[a] # None
      PROVE  Follows(att[a], new[a], c)
  <2>1. att[a] \in AttributionRow /\ Owned(att[a], camp)
    BY <1>1, RowType DEF RowsSound, Typed, AllOwned, Rows
  <2>2. CustodyOf(att[a]) # Promise!Absent
    BY <2>1, CustodyCases, AbsentCustody
  <2>3. Follows(att[a], mid[a], c)
    BY <1>1 DEF Moved
  <2>4. mid[a] # None
    BY <2>3, NoneAssumption DEF Follows
  <2>5. Follows(mid[a], new[a], c)
    BY <2>4 DEF Moved
  <2> QED
    BY <2>2, <2>3, <2>5, FollowsTransitive
<1> QED
  BY <1>1 DEF Moved

(* The end behaviour of campaign c moves the rows on the territories S, and*)
(* opens none.                                                             *)
LEMMA EndTransitionMoved ==
    ASSUME today \in Days, NEW camp,
           NEW c \in Campaigns, camp[c] # None, camp[c].activated,
           NEW att, RowsSound(att, camp), NEW o, NEW S
    PROVE  /\ Moved(att, EndTransition(att, c, o, S), c)
           /\ \A a \in Attributions : att[a] = None => EndTransition(att, c, o, S)[a] = None
           /\ \A a \in Attributions :
                 att[a].territoryId \notin S => EndTransition(att, c, o, S)[a] = att[a]
<1> DEFINE closed == IF o.endCloseCampaign THEN CloseRows(att, OpenWorkOf(att, c, S)) ELSE att
           new == EndTransition(att, c, o, S)
<1>1. att \in AttributionTable
  BY DEF RowsSound, Typed
<1>2. TableMove(att, closed, c)
  <2>1. /\ OpenWorkOf(att, c, S) \in SUBSET Rows(att)
        /\ \A a \in OpenWorkOf(att, c, S) : IsOpen(att[a])
    BY DEF OpenWorkOf
  <2>2. TableMove(att, CloseRows(att, OpenWorkOf(att, c, S)), c)
    BY <1>1, <2>1, CloseIsMove
  <2>3. TableMove(att, att, c)
    BY <1>1 DEF TableMove, BulkMove, AttributionTable
  <2> QED
    BY <2>2, <2>3
<1>3. RowsSound(closed, camp)
  BY <1>2, TableMoveSound
<1>4. closed \in AttributionTable
  BY <1>3 DEF RowsSound, Typed
<1>5. ASSUME NEW a \in Attributions, att[a].territoryId \notin S
      PROVE  closed[a] = att[a]
  BY <1>5 DEF CloseRows, OpenWorkOf
<1> HIDE DEF closed
<1>6. new \in {closed, resumePausedBy(closed, c, S), closePausedBy(closed, c, S)}
  BY DEF EndTransition, closed
<1>7. TableMove(closed, new, c)
  <2>1. TableMove(closed, closed, c)
    BY <1>4 DEF TableMove, BulkMove, AttributionTable
  <2> QED
    BY <1>4, <1>6, <2>1, ResumeIsMove, ClosePausedIsMove
<1>8. ASSUME NEW a \in Attributions, att[a].territoryId \notin S
      PROVE  new[a] = att[a]
  <2>1. closed[a] = att[a]
    BY <1>5, <1>8
  <2>2. new[a] = closed[a]
    BY <1>6, <1>8, <2>1 DEF resumePausedBy, closePausedBy, OpenPausedBy
  <2> QED
    BY <2>1, <2>2
<1> HIDE DEF new
<1>9. /\ Moved(att, closed, c) /\ Moved(closed, new, c)
      /\ \A a \in Attributions : att[a] = None => new[a] = None
  BY <1>2, <1>3, <1>7, TableMoveMoved
<1>10. Moved(att, new, c)
  BY <1>9, MovedTwice
<1> QED
  BY <1>8, <1>9, <1>10 DEF new

(* The start behaviour of campaign c moves the rows that exist, and opens  *)
(* rows on the territories S only.                                         *)
LEMMA StartTransitionMoved ==
    ASSUME today \in Days, NEW camp \in CampaignTable,
           NEW c \in Campaigns, camp[c] # None, camp[c].activated,
           NEW att, RowsSound(att, camp), NEW o, NEW S,
           NEW new \in StartTransition(att, camp, c, o, S)
    PROVE  /\ Moved(att, new, c)
           /\ \A a \in Attributions : att[a] = None =>
                 new[a] = None \/ (new[a].territoryId \in S /\ new[a].campaignId = c)
           /\ o.startRegularAction = "Pause" => ToPause(new, S) = {}
<1> DEFINE suspended == pauseOpenRegulars(att, c, S)
           closed == CloseRows(att, OpenRegulars(att, S))
<1>1. att \in AttributionTable
  BY DEF RowsSound, Typed
<1>2. TableMove(att, suspended, c)
  BY <1>1, PauseIsMove
<1>3. /\ Moved(att, suspended, c) /\ RowsSound(suspended, camp)
      /\ \A a \in Attributions : att[a] = None => suspended[a] = None
  BY <1>2, TableMoveMoved, TableMoveSound
<1>4. /\ Moved(att, closed, c)
      /\ \A a \in Attributions : att[a] = None => closed[a] = None
  <2>1. /\ OpenRegulars(att, S) \in SUBSET Rows(att)
        /\ \A a \in OpenRegulars(att, S) : IsOpen(att[a])
    BY DEF OpenRegulars
  <2>2. TableMove(att, closed, c)
    BY <1>1, <2>1, CloseIsMove
  <2> QED
    BY <2>2, TableMoveMoved
<1>5. Moved(att, att, c)
  <2>1. TableMove(att, att, c)
    BY <1>1 DEF TableMove, BulkMove, AttributionTable
  <2> QED
    BY <2>1, TableMoveMoved
<1>6. ToPause(suspended, S) = {}
  <2>1. SUFFICES ASSUME NEW a \in ToPause(suspended, S) PROVE FALSE
    OBVIOUS
  <2>2. /\ a \in Attributions /\ suspended[a] # None /\ suspended[a].endDate = None
        /\ suspended[a].campaignId = None /\ suspended[a].territoryId \in S
        /\ suspended[a].pausedAt = None
    BY DEF ToPause, OpenRegulars, Rows, IsOpen, IsPaused
  <2>3. CASE a \in ToPause(att, S)
    <3>1. att[a] \in AttributionRow
      BY <1>1, <2>3, RowType DEF ToPause, OpenRegulars
    <3>2. suspended[a] = [att[a] EXCEPT !.pausedAt = today, !.pausedByCampaignId = c]
      BY <2>2, <2>3 DEF pauseOpenRegulars
    <3>3. suspended[a].pausedAt = today
      BY <3>1, <3>2 DEF AttributionRow
    <3> QED
      BY <2>2, <3>3, NoneAssumption, BoundsAssumption DEF Days
  <2>4. CASE a \notin ToPause(att, S)
    <3>1. suspended[a] = att[a]
      BY <2>2, <2>4 DEF pauseOpenRegulars
    <3> QED
      BY <2>2, <2>4, <3>1 DEF ToPause, OpenRegulars, Rows, IsOpen, IsPaused
  <2> QED
    BY <2>3, <2>4
<1> HIDE DEF suspended, closed
<1>7. ASSUME NEW ids \in SUBSET FreeIds(suspended), NEW from \in [ids -> ToPause(att, S)],
             new = Carried(suspended, camp, c, from)
      PROVE  /\ Moved(att, new, c)
             /\ \A a \in Attributions : att[a] = None =>
                   new[a] = None \/ (new[a].territoryId \in S /\ new[a].campaignId = c)
             /\ ToPause(new, S) = {}
  <2>1. DOMAIN from = ids /\ ids \subseteq Attributions
        /\ \A a \in ids : suspended[a] = None /\ from[a] \in ToPause(att, S)
    BY <1>7 DEF FreeIds
  <2>2. ASSUME NEW a \in ids
        PROVE  /\ att[a] = None
               /\ Opened(new[a]) /\ new[a].territoryId \in S /\ new[a].campaignId = c
    <3>1. att[a] = None
      BY <1>3, <2>1, NoneAssumption DEF Moved, Follows
    <3>2. from[a] \in ToPause(att, S) /\ att[from[a]] \in AttributionRow
          /\ att[from[a]].territoryId \in S
      BY <1>1, <2>1, RowType DEF ToPause, OpenRegulars
    <3>3. from[a] \in Attributions
      BY <3>2 DEF ToPause, OpenRegulars, Rows
    <3>4. suspended[from[a]] = [att[from[a]] EXCEPT !.pausedAt = today, !.pausedByCampaignId = c]
      BY <3>2, <3>3 DEF pauseOpenRegulars, suspended
    <3>5. /\ suspended[from[a]].publisherId \in Publishers
          /\ suspended[from[a]].territoryId \in Territories \cap S
      BY <3>2, <3>4 DEF AttributionRow
    <3>6. new[a] = NewAttribution(camp, suspended[from[a]].publisherId,
                                  suspended[from[a]].territoryId, today, c)
      BY <1>7, <2>1 DEF Carried
    <3> QED
      BY <3>1, <3>5, <3>6, NewAttributionType DEF Opened
  <2>3. \A a \in Attributions \ ids : new[a] = suspended[a]
    BY <1>7, <2>1 DEF Carried
  <2>4. Moved(att, new, c)
    BY <1>3, <2>2, <2>3 DEF Moved
  <2>5. ToPause(new, S) = {}
    <3>1. SUFFICES ASSUME NEW a \in ToPause(new, S) PROVE FALSE
      OBVIOUS
    <3>2. a \in Attributions /\ new[a].campaignId = None
      BY DEF ToPause, OpenRegulars, Rows
    <3>3. a \notin ids
      BY <2>2, <3>2, NoneAssumption
    <3>4. a \in ToPause(suspended, S)
      BY <2>3, <3>2, <3>3 DEF ToPause, OpenRegulars, Rows
    <3> QED
      BY <1>6, <3>4
  <2> QED
    BY <1>3, <2>2, <2>3, <2>4, <2>5
<1>8. \/ \E ids \in SUBSET FreeIds(suspended) : \E from \in [ids -> ToPause(att, S)] :
            new = Carried(suspended, camp, c, from)
      \/ new = suspended
      \/ o.startRegularAction # "Pause" /\ new \in {closed, att}
  BY DEF StartTransition, reassignIntoCampaign, suspended, closed
<1>9. CASE new = suspended
  BY <1>3, <1>6, <1>9
<1>10. CASE o.startRegularAction # "Pause" /\ new \in {closed, att}
  BY <1>4, <1>5, <1>10
<1> QED
  BY <1>7, <1>8, <1>9, <1>10

(* The end behaviour leaves nothing open on the territories S that its     *)
(* options do not allow.                                                   *)
LEMMA EndTransitionClears ==
    ASSUME today \in Days, NEW camp,
           NEW c \in Campaigns, camp[c] # None, camp[c].activated,
           NEW att, RowsSound(att, camp), NEW o \in EndOption, NEW S
    PROVE  /\ o.endRegularAction # "KeepPaused" =>
                 OpenPausedBy(EndTransition(att, c, o, S), c, S) = {}
           /\ o.endCloseCampaign => OpenWorkOf(EndTransition(att, c, o, S), c, S) = {}
<1> USE NoneAssumption, BoundsAssumption
<1> DEFINE closed == IF o.endCloseCampaign THEN CloseRows(att, OpenWorkOf(att, c, S)) ELSE att
           resumed == resumePausedBy(closed, c, S)
           returned == closePausedBy(closed, c, S)
           new == EndTransition(att, c, o, S)
<1>1. att \in AttributionTable /\ today # None
  BY DEF RowsSound, Typed, Days
<1>2. RowsSound(CloseRows(att, OpenWorkOf(att, c, S)), camp)
  <2>1. /\ OpenWorkOf(att, c, S) \in SUBSET Rows(att)
        /\ \A a \in OpenWorkOf(att, c, S) : IsOpen(att[a])
    BY DEF OpenWorkOf
  <2>2. TableMove(att, CloseRows(att, OpenWorkOf(att, c, S)), c)
    BY <1>1, <2>1, CloseIsMove
  <2> QED
    BY <2>2, TableMoveSound
<1>3. closed \in AttributionTable
  BY <1>1, <1>2 DEF RowsSound, Typed
<1>4. o.endCloseCampaign => OpenWorkOf(closed, c, S) = {}
  <2>1. SUFFICES ASSUME o.endCloseCampaign, NEW a \in OpenWorkOf(closed, c, S) PROVE FALSE
    OBVIOUS
  <2>2. a \in Attributions /\ closed[a].endDate = None
    BY DEF OpenWorkOf, Rows, IsOpen
  <2>3. CASE a \in OpenWorkOf(att, c, S)
    <3>1. att[a] \in AttributionRow
      BY <1>1, <2>3, RowType DEF OpenWorkOf
    <3>2. closed[a] = [att[a] EXCEPT !.endDate = today]
      BY <2>1, <2>2, <2>3 DEF CloseRows
    <3>3. closed[a].endDate = today
      BY <3>1, <3>2 DEF AttributionRow
    <3> QED
      BY <1>1, <2>2, <3>3
  <2>4. CASE a \notin OpenWorkOf(att, c, S)
    <3>1. closed[a] = att[a]
      BY <2>2, <2>4 DEF CloseRows
    <3> QED
      BY <2>1, <2>4, <3>1 DEF OpenWorkOf, Rows
  <2> QED
    BY <2>3, <2>4
<1> HIDE DEF closed
<1>5. ASSUME NEW a \in Attributions
      PROVE  /\ a \in OpenPausedBy(closed, c, S) =>
                  /\ closed[a] \in AttributionRow /\ closed[a] # None
                  /\ resumed[a].pausedByCampaignId = None /\ returned[a].pausedByCampaignId = None
                  /\ resumed[a].endDate = closed[a].endDate /\ returned[a].endDate = today
                  /\ resumed[a].campaignId = closed[a].campaignId
                  /\ resumed[a].territoryId = closed[a].territoryId
             /\ a \notin OpenPausedBy(closed, c, S) =>
                  resumed[a] = closed[a] /\ returned[a] = closed[a]
  <2>1. CASE a \in OpenPausedBy(closed, c, S)
    <3>1. closed[a] \in AttributionRow
      BY <1>3, <2>1, RowType DEF OpenPausedBy
    <3>2. /\ resumed[a] = Resumed(closed[a])
          /\ returned[a] = [closed[a] EXCEPT !.endDate = today, !.pausedAt = None,
                                             !.pausedByCampaignId = None]
      BY <2>1 DEF resumePausedBy, closePausedBy
    <3> HIDE DEF resumed, returned
    <3> QED
      BY <2>1, <3>1, <3>2 DEF Resumed, AttributionRow
  <2>2. CASE a \notin OpenPausedBy(closed, c, S)
    BY <2>2 DEF resumePausedBy, closePausedBy
  <2> QED
    BY <2>1, <2>2
<1> HIDE DEF resumed, returned
<1>6. OpenPausedBy(resumed, c, S) = {} /\ OpenPausedBy(returned, c, S) = {}
  <2>1. SUFFICES ASSUME NEW a \in Attributions
                 PROVE  a \notin OpenPausedBy(resumed, c, S) /\ a \notin OpenPausedBy(returned, c, S)
    BY DEF OpenPausedBy, Rows
  <2>2. c # None
    OBVIOUS
  <2> QED
    BY <1>5, <2>2 DEF OpenPausedBy, Rows
<1>7. /\ OpenWorkOf(resumed, c, S) \subseteq OpenWorkOf(closed, c, S)
      /\ OpenWorkOf(returned, c, S) \subseteq OpenWorkOf(closed, c, S)
  <2>1. SUFFICES ASSUME NEW a \in Attributions
                 PROVE  /\ a \in OpenWorkOf(resumed, c, S) => a \in OpenWorkOf(closed, c, S)
                        /\ a \in OpenWorkOf(returned, c, S) => a \in OpenWorkOf(closed, c, S)
    BY DEF OpenWorkOf, Rows
  <2> QED
    BY <1>1, <1>5 DEF OpenWorkOf, Rows, IsOpen
<1>8. /\ new \in {closed, resumed, returned}
      /\ o.endRegularAction # "KeepPaused" => new \in {resumed, returned}
  BY DEF EndTransition, EndOption, closed, resumed, returned
<1> HIDE DEF new
<1> QED
  BY <1>4, <1>6, <1>7, <1>8 DEF new

-----------------------------------------------------------------------------
(* What a step may do to an active campaign, and to a scope change.        *)

(* Only its end deactivates a campaign, only an edit of it or the removal  *)
(* of a territory changes it: the other campaigns of a sweep, the requests *)
(* about attributions and the clock leave it alone.                        *)
LEMMA ActiveStep ==
    ASSUME IInv, [Next]_vars, NEW c \in Active(campaign)
    PROVE  \/ EndCampaign(c)
           \/ \E w \in Windows, so \in StartOptions, eo \in EndOptions, scope \in Scopes :
                 EditCampaign(c, w, so, eo, scope)
           \/ campaign'[c] = campaign[c]
           \/ \E t \in Territories : DeleteTerritory(t)
<1>1. campaign \in CampaignTable /\ c \in Campaigns /\ IsActive(campaign[c])
  BY IInvParts DEF CampaignInv, Active
<1> USE <1>1
<1>2. ASSUME NEW d \in Campaigns, CampaignRequest(d)
      PROVE  \/ EndCampaign(c)
             \/ \E w \in Windows, so \in StartOptions, eo \in EndOptions, scope \in Scopes :
                   EditCampaign(c, w, so, eo, scope)
             \/ campaign'[c] = campaign[c]
  <2>1. ASSUME NEW w \in Windows, NEW so \in StartOptions, NEW eo \in EndOptions, NEW scope \in Scopes,
               CreateCampaign(d, w, so, eo, scope) \/ EditCampaign(d, w, so, eo, scope), d # c
        PROVE  campaign'[c] = campaign[c]
    BY <2>1 DEF CreateCampaign, EditCampaign, CampaignTable
  <2>2. ASSUME NEW w \in Windows, NEW so \in StartOptions, NEW eo \in EndOptions, NEW scope \in Scopes
        PROVE  ~CreateCampaign(c, w, so, eo, scope)
    BY DEF CreateCampaign, IsActive
  <2>3. CASE EndCampaignByHand(d)
    BY <2>3 DEF EndCampaignByHand, EndCampaign, CampaignTable
  <2>4. CASE DeleteCampaign(d)
    BY <2>4 DEF DeleteCampaign, CampaignTable
  <2> QED
    BY <1>2, <2>1, <2>2, <2>3, <2>4 DEF CampaignRequest
<1>3. ASSUME NEW a \in Attributions, AttributionRequest(a)
      PROVE  campaign'[c] = campaign[c]
  BY <1>3 DEF AttributionRequest, Assign, UpdateAttribution, ResumeAttribution, DeleteAttribution
<1>4. CASE Sweep
  <2>1. ASSUME NEW d \in Campaigns, SweepActivate(d) PROVE campaign'[c] = campaign[c]
    <3>1. c # d
      BY <2>1 DEF SweepActivate, DueToActivate, IsActive
    <3> QED
      BY <2>1, <3>1 DEF SweepActivate, CampaignTable
  <2>2. ASSUME NEW d \in Campaigns, SweepEnd(d) PROVE EndCampaign(c) \/ campaign'[c] = campaign[c]
    BY <2>2 DEF SweepEnd, EndCampaign, CampaignTable
  <2>3. CASE RunSweep \/ SweepTurn \/ SweepCommit
    BY <2>3 DEF RunSweep, SweepTurn, SweepCommit
  <2> QED
    BY <1>4, <2>1, <2>2, <2>3 DEF Sweep
<1>5. ASSUME NEW p \in Publishers, ReturnAllOf(p) PROVE campaign'[c] = campaign[c]
  BY <1>5 DEF ReturnAllOf
<1>6. ASSUME NEW t \in Territories, CreateTerritory(t) PROVE campaign'[c] = campaign[c]
  BY <1>6 DEF CreateTerritory
<1>7. CASE NextDay \/ UNCHANGED vars
  BY <1>7 DEF NextDay, vars
<1> QED
  BY <1>2, <1>3, <1>4, <1>5, <1>6, <1>7 DEF Next

(* Editing or shrinking its scope keeps a campaign active.                 *)
LEMMA StaysActive ==
    ASSUME IInv, NEW c \in Active(campaign),
           \/ \E w \in Windows, so \in StartOptions, eo \in EndOptions, scope \in Scopes :
                 EditCampaign(c, w, so, eo, scope)
           \/ campaign'[c] = campaign[c]
           \/ \E t \in Territories : DeleteTerritory(t)
    PROVE  IsActive(campaign'[c])
<1>1. /\ campaign \in CampaignTable /\ c \in Campaigns /\ campaign[c] \in CampaignRow
      /\ campaign[c].activated /\ ~campaign[c].ended /\ campaign[c] # None
  BY IInvParts DEF CampaignInv, CampaignTable, Active, IsActive
<1>2. ASSUME NEW w \in Windows, NEW so \in StartOptions, NEW eo \in EndOptions, NEW scope \in Scopes,
             EditCampaign(c, w, so, eo, scope)
      PROVE  IsActive(campaign'[c])
  <2> DEFINE new == Updated(campaign[c], w, so, eo)
  <2>1. campaign'[c] = [new EXCEPT !.scope = scope]
    BY <1>1, <1>2 DEF EditCampaign, CampaignTable
  <2>2. new \in CampaignRow /\ new.activated /\ ~new.ended
    BY <1>1, InputAssumption DEF Updated, CampaignRow
  <2> HIDE DEF new
  <2>3. /\ campaign'[c] \in CampaignRow
        /\ campaign'[c].activated /\ ~campaign'[c].ended
    BY <2>1, <2>2, InputAssumption DEF CampaignRow
  <2> QED
    BY <2>3, NoneAssumption DEF IsActive
<1>3. ASSUME NEW t \in Territories, DeleteTerritory(t)
      PROVE  IsActive(campaign'[c])
  <2>1. campaign'[c] = [campaign[c] EXCEPT !.scope = campaign[c].scope \ {t}]
    BY <1>1, <1>3 DEF DeleteTerritory, CampaignRow
  <2>2. campaign[c].scope \ {t} \in SUBSET Territories
    BY <1>1 DEF CampaignRow
  <2>3. /\ campaign'[c] \in CampaignRow
        /\ campaign'[c].activated /\ ~campaign'[c].ended
    BY <1>1, <2>1, <2>2 DEF CampaignRow
  <2> QED
    BY <2>3, NoneAssumption DEF IsActive
<1> QED
  BY <1>1, <1>2, <1>3 DEF IsActive

(* A campaign that ends leaves nothing behind that its end options do not  *)
(* allow, whatever its scope has become by then (endCampaign).             *)
THEOREM EndLeavesNothingBehind == Spec => EndCleansUp
<1>1. ASSUME IInv, [Next]_vars, NEW c \in Campaigns, IsActive(campaign[c]), ~IsActive(campaign'[c])
      PROVE  /\ campaign[c].end.endRegularAction # "KeepPaused" =>
                   OpenPausedBy(attribution', c, Territories) = {}
             /\ campaign[c].end.endCloseCampaign =>
                   OpenWorkOf(attribution', c, Territories) = {}
  <2>1. c \in Active(campaign)
    BY <1>1 DEF Active
  <2>2. EndCampaign(c)
    BY <1>1, <2>1, ActiveStep, StaysActive
  <2>3. CampaignInv /\ RowsSound(attribution, campaign)
    BY <1>1, IInvParts
  <2>4. /\ campaign[c] \in CampaignRow /\ campaign[c].activated /\ campaign[c] # None
        /\ campaign[c].end \in EndOption /\ today \in Days
    BY <1>1, <2>3 DEF IsActive, CampaignInv, CampaignTable, CampaignRow
  <2>5. attribution' = EndTransition(attribution, c, campaign[c].end, Territories)
    BY <2>2 DEF EndCampaign
  <2> QED
    BY <2>3, <2>4, <2>5, EndTransitionClears
<1>2. IInv /\ [Next]_vars =>
        [\A c \in Campaigns :
          IsActive(campaign[c]) /\ ~IsActive(campaign'[c]) =>
            /\ campaign[c].end.endRegularAction # "KeepPaused" =>
                 OpenPausedBy(attribution', c, Territories) = {}
            /\ campaign[c].end.endCloseCampaign =>
                 OpenWorkOf(attribution', c, Territories) = {}]_vars
  BY <1>1
<1> QED
  BY <1>2, Invariance, PTL DEF Spec, EndCleansUp

(* An edit of an active campaign runs its start behaviour on the           *)
(* territories that enter its scope, then its end behaviour on those that  *)
(* leave it, both with the options it had before the edit.                 *)
LEMMA EditActiveParts ==
    ASSUME IInv, NEW c \in Active(campaign),
           NEW w \in Windows, NEW so \in StartOptions, NEW eo \in EndOptions, NEW scope \in Scopes,
           EditCampaign(c, w, so, eo, scope)
    PROVE  LET entering == Effective(scope) \ Effective(campaign[c].scope)
               leaving == Effective(campaign[c].scope) \ Effective(scope)
           IN  /\ campaign'[c].scope = scope
               /\ \E camp \in CampaignTable :
                    /\ camp[c] # None /\ camp[c].activated /\ RowsSound(attribution, camp)
                    /\ \E started \in StartTransition(attribution, camp, c, campaign[c].start, entering) :
                          /\ RowsSound(started, camp)
                          /\ attribution' = EndTransition(started, c, campaign[c].end, leaving)
<1> DEFINE old == campaign[c]
           new == Updated(old, w, so, eo)
           camp == [campaign EXCEPT ![c] = new]
           entering == Effective(scope) \ Effective(old.scope)
           leaving == Effective(old.scope) \ Effective(scope)
<1>1. CampaignInv /\ RowsSound(attribution, campaign)
  BY IInvParts
<1>2. /\ campaign \in CampaignTable /\ c \in Campaigns /\ old \in CampaignRow
      /\ IsActive(old) /\ old.activated /\ today \in Days
  BY <1>1 DEF CampaignInv, CampaignTable, Active, IsActive
<1>3. new \in CampaignRow /\ new.activated
  BY <1>2, InputAssumption DEF Updated, CampaignRow
<1>4. /\ attribution' \in applyScopeChange(attribution, camp, c, old, scope)
      /\ campaign' = [campaign EXCEPT ![c] = [new EXCEPT !.scope = scope]]
  BY DEF EditCampaign
<1> HIDE DEF new
<1>5. campaign'[c].scope = scope
  BY <1>2, <1>3, <1>4 DEF CampaignTable, CampaignRow
<1>6. /\ camp \in CampaignTable /\ camp[c] # None /\ camp[c].activated
      /\ \A d \in Campaigns : d # c => camp[d] = campaign[d]
  BY <1>2, <1>3, NoneAssumption DEF CampaignTable
<1> HIDE DEF camp
<1>7. RowsSound(attribution, camp)
  BY <1>1, <1>6, CampaignChangeSound
<1>8. PICK started \in StartTransition(attribution, camp, c, old.start, entering) :
          attribution' = EndTransition(started, c, old.end, leaving)
  BY <1>2, <1>4 DEF applyScopeChange
<1>9. RowsSound(started, camp)
  BY <1>2, <1>6, <1>7, <1>8, StartTransitionSound
<1> QED
  BY <1>5, <1>6, <1>7, <1>8, <1>9

(* An edit of the scope of an active campaign moves the work of the        *)
(* territories that enter or leave it, whatever else the same edit changes *)
(* (applyScopeChange), and nothing but an edit changes the scope.          *)
THEOREM ScopeEditsMoveTheWork == Spec => ScopeEditMovesWork
<1> DEFINE WorkMoved(c) ==
      LET before == Effective(campaign[c].scope)
          after == Effective(campaign'[c].scope)
      IN  /\ campaign[c].start.startRegularAction = "Pause" =>
               ToPause(attribution', after \ before) = {}
          /\ campaign[c].end.endCloseCampaign =>
               OpenWorkOf(attribution', c, before \ after) = {}
          /\ campaign[c].end.endRegularAction # "KeepPaused" =>
               OpenPausedBy(attribution', c, before \ after) = {}
<1>1. ASSUME NEW c, campaign'[c] = campaign[c]
      PROVE  WorkMoved(c)
  BY <1>1 DEF ToPause, OpenRegulars, OpenWorkOf, OpenPausedBy
<1>2. ASSUME IInv, NEW c \in Active(campaign),
             NEW w \in Windows, NEW so \in StartOptions, NEW eo \in EndOptions, NEW scope \in Scopes,
             EditCampaign(c, w, so, eo, scope)
      PROVE  WorkMoved(c)
  <2> DEFINE entering == Effective(scope) \ Effective(campaign[c].scope)
             leaving == Effective(campaign[c].scope) \ Effective(scope)
  <2>1. /\ c \in Campaigns /\ today \in Days
        /\ campaign[c].start \in StartOption /\ campaign[c].end \in EndOption
    BY <1>2, IInvParts DEF CampaignInv, CampaignTable, CampaignRow, Active, IsActive
  <2>2. PICK camp \in CampaignTable :
            /\ campaign'[c].scope = scope
            /\ camp[c] # None /\ camp[c].activated /\ RowsSound(attribution, camp)
            /\ \E started \in StartTransition(attribution, camp, c, campaign[c].start, entering) :
                  /\ RowsSound(started, camp)
                  /\ attribution' = EndTransition(started, c, campaign[c].end, leaving)
    BY <1>2, EditActiveParts
  <2>3. PICK started \in StartTransition(attribution, camp, c, campaign[c].start, entering) :
            /\ RowsSound(started, camp)
            /\ attribution' = EndTransition(started, c, campaign[c].end, leaving)
    BY <2>2
  <2>4. campaign[c].start.startRegularAction = "Pause" => ToPause(started, entering) = {}
    BY <2>1, <2>2, <2>3, StartTransitionMoved
  <2>5. /\ campaign[c].end.endRegularAction # "KeepPaused" => OpenPausedBy(attribution', c, leaving) = {}
        /\ campaign[c].end.endCloseCampaign => OpenWorkOf(attribution', c, leaving) = {}
    BY <2>1, <2>2, <2>3, EndTransitionClears
  <2>6. ToPause(attribution', entering) \subseteq ToPause(started, entering)
    <3>1. SUFFICES ASSUME NEW a \in ToPause(attribution', entering)
                   PROVE  a \in ToPause(started, entering)
      OBVIOUS
    <3>2. /\ a \in Attributions /\ attribution'[a] # None
          /\ attribution'[a].territoryId \in entering
      BY DEF ToPause, OpenRegulars, Rows
    <3>3. /\ Moved(started, attribution', c)
          /\ started[a] = None => attribution'[a] = None
          /\ started[a].territoryId \notin leaving => attribution'[a] = started[a]
      BY <2>1, <2>2, <2>3, <3>2, EndTransitionMoved
    <3>4. attribution'[a].territoryId = started[a].territoryId
      BY <3>2, <3>3 DEF Moved, Follows
    <3>5. attribution'[a] = started[a]
      BY <3>2, <3>3, <3>4
    <3> QED
      BY <3>2, <3>5 DEF ToPause, OpenRegulars, Rows
  <2> QED
    BY <2>2, <2>4, <2>5, <2>6
<1>3. ASSUME IInv, [Next]_vars, NEW c \in Active(campaign) \cap Active(campaign'), territory' = territory
      PROVE  WorkMoved(c)
  <2>1. c \in Active(campaign) /\ IsActive(campaign'[c])
    BY <1>3 DEF Active
  <2>2. CASE EndCampaign(c)
    <3>1. campaign \in CampaignTable /\ campaign[c] \in CampaignRow /\ c \in Campaigns
      BY <1>3, <2>1, IInvParts DEF CampaignInv, CampaignTable, Active, IsActive
    <3>2. campaign'[c].ended
      BY <2>2, <3>1 DEF EndCampaign, CampaignTable, CampaignRow
    <3> QED
      BY <2>1, <3>2 DEF IsActive
  <2>3. ASSUME NEW t \in Territories, DeleteTerritory(t)
        PROVE  FALSE
    BY <1>3, <2>3 DEF DeleteTerritory
  <2> HIDE DEF WorkMoved
  <2> QED
    BY <1>1, <1>2, <1>3, <2>1, <2>2, <2>3, ActiveStep
<1>4. IInv /\ [Next]_vars =>
        [\A c \in Active(campaign) \cap Active(campaign') :
           territory' = territory => WorkMoved(c)]_vars
  BY <1>3
<1> QED
  BY <1>4, Invariance, PTL DEF Spec, ScopeEditMovesWork

(* The steps that act for a campaign move the table on its behalf: its     *)
(* activation, its end, and an edit while it is active.                    *)
LEMMA CampaignMoves ==
    ASSUME IInv, NEW c \in Campaigns,
           \/ SweepActivate(c)
           \/ EndCampaign(c)
           \/ /\ c \in Active(campaign)
              /\ \E w \in Windows, so \in StartOptions, eo \in EndOptions, scope \in Scopes :
                    EditCampaign(c, w, so, eo, scope)
    PROVE  Moved(attribution, attribution', c)
<1>1. CampaignInv /\ RowsSound(attribution, campaign) /\ today \in Days
  BY IInvParts DEF CampaignInv
<1>2. CASE SweepActivate(c)
  <2> DEFINE camp == [campaign EXCEPT ![c].activated = TRUE]
  <2>1. campaign \in CampaignTable /\ campaign[c] \in CampaignRow
    BY <1>1, <1>2, NoneAssumption DEF CampaignInv, CampaignTable, SweepActivate, DueToActivate
  <2>2. /\ camp \in CampaignTable /\ camp[c] # None /\ camp[c].activated
        /\ \A d \in Campaigns : d # c => camp[d] = campaign[d]
    BY <2>1, NoneAssumption DEF CampaignTable, CampaignRow
  <2>3. attribution' \in StartTransition(attribution, camp, c, campaign[c].start,
                                         Effective(campaign[c].scope))
    BY <1>2 DEF SweepActivate
  <2> HIDE DEF camp
  <2>4. RowsSound(attribution, camp)
    BY <1>1, <2>2, CampaignChangeSound
  <2> QED
    BY <1>1, <2>2, <2>3, <2>4, StartTransitionMoved
<1>3. CASE EndCampaign(c)
  <2>1. /\ campaign[c] # None /\ campaign[c].activated
        /\ attribution' = EndTransition(attribution, c, campaign[c].end, Territories)
    BY <1>3 DEF EndCampaign, IsActive
  <2> QED
    BY <1>1, <2>1, EndTransitionMoved
<1>4. ASSUME c \in Active(campaign),
             NEW w \in Windows, NEW so \in StartOptions, NEW eo \in EndOptions, NEW scope \in Scopes,
             EditCampaign(c, w, so, eo, scope)
      PROVE  Moved(attribution, attribution', c)
  <2> DEFINE entering == Effective(scope) \ Effective(campaign[c].scope)
             leaving == Effective(campaign[c].scope) \ Effective(scope)
  <2>1. PICK camp \in CampaignTable :
            /\ camp[c] # None /\ camp[c].activated /\ RowsSound(attribution, camp)
            /\ \E started \in StartTransition(attribution, camp, c, campaign[c].start, entering) :
                  /\ RowsSound(started, camp)
                  /\ attribution' = EndTransition(started, c, campaign[c].end, leaving)
    BY <1>4, EditActiveParts
  <2>2. PICK started \in StartTransition(attribution, camp, c, campaign[c].start, entering) :
            /\ RowsSound(started, camp)
            /\ attribution' = EndTransition(started, c, campaign[c].end, leaving)
    BY <2>1
  <2>3. /\ Moved(attribution, started, c)
        /\ \A a \in Attributions : attribution[a] = None =>
              started[a] = None \/ (started[a].territoryId \in entering /\ started[a].campaignId = c)
    BY <1>1, <2>1, <2>2, StartTransitionMoved
  <2>4. /\ Moved(started, attribution', c)
        /\ \A a \in Attributions : started[a] = None => attribution'[a] = None
        /\ \A a \in Attributions :
              started[a].territoryId \notin leaving => attribution'[a] = started[a]
    <3> DEFINE new == EndTransition(started, c, campaign[c].end, leaving)
    <3> HIDE DEF leaving
    <3>1. /\ Moved(started, new, c)
          /\ \A a \in Attributions : started[a] = None => new[a] = None
          /\ \A a \in Attributions : started[a].territoryId \notin leaving => new[a] = started[a]
      BY <1>1, <2>1, <2>2, EndTransitionMoved
    <3>2. attribution' = new
      BY <2>2 DEF leaving
    <3> QED
      BY <3>1, <3>2
  <2>5. ASSUME NEW a \in Attributions, attribution[a] = None
        PROVE  attribution'[a] = None \/ Opened(attribution'[a])
    <3>1. started[a] = None \/ (Opened(started[a]) /\ started[a].territoryId \in entering)
      BY <2>3, <2>5 DEF Moved
    <3> QED
      BY <2>4, <3>1
  <2> QED
    BY <2>1, <2>3, <2>4, <2>5, MovedTwice
<1> QED
  BY <1>2, <1>3, <1>4

(* What else a campaign request does leaves the rows alone.                *)
LEMMA OtherCampaignRequests ==
    ASSUME NEW c \in Campaigns,
           \/ \E w \in Windows, so \in StartOptions, eo \in EndOptions, scope \in Scopes :
                 CreateCampaign(c, w, so, eo, scope)
           \/ /\ c \notin Active(campaign)
              /\ \E w \in Windows, so \in StartOptions, eo \in EndOptions, scope \in Scopes :
                    EditCampaign(c, w, so, eo, scope)
           \/ DeleteCampaign(c)
    PROVE  attribution' = attribution
BY DEF CreateCampaign, EditCampaign, DeleteCampaign, applyScopeChange, Active

-----------------------------------------------------------------------------
(* Nobody comes out of a campaign retroactively late.                      *)

(* A pause that is lifted, by hand, by a scope change or by the end of the *)
(* campaign, has moved the due date by its length: a row that was not      *)
(* overdue on the day it was paused is not overdue that day. No other step *)
(* lifts a pause, and an edit of the dates does not move it.               *)
THEOREM NobodyLate == Spec => NobodyRetroactivelyLate
<1> DEFINE OnTime(a) ==
      /\ IsPaused(attribution[a])
      /\ IsWorked(attribution'[a])
      /\ ~IsOverdue(attribution[a], attribution[a].pausedAt)
      => ~IsOverdue(attribution'[a], today)
<1>1. ASSUME NEW c, NEW a \in Attributions, Moved(attribution, attribution', c)
      PROVE  OnTime(a)
  <2>1. attribution[a] # None => Follows(attribution[a], attribution'[a], c)
    BY <1>1 DEF Moved
  <2> QED
    BY <2>1 DEF Follows, InTime, IsPaused, IsWorked
<1>2. ASSUME NEW a \in Attributions, attribution'[a] = attribution[a]
      PROVE  OnTime(a)
  BY <1>2 DEF IsWorked
<1>3. ASSUME IInv, NEW a \in Attributions, NEW b \in Attributions, ResumeAttribution(b)
      PROVE  OnTime(a)
  <2>1. /\ attribution \in AttributionTable /\ RowsSound(attribution, campaign)
        /\ today \in Nat
    BY <1>3, IInvParts, BoundsAssumption DEF RowsSound, Typed, CampaignInv, Days
  <2>2. CASE a = b
    <3>1. /\ attribution[a] \in AttributionRow /\ attribution[a].pausedAt # None
          /\ attribution'[a] = Resumed(attribution[a])
      BY <1>3, <2>1, <2>2, RowType DEF ResumeAttribution, IsPaused, Rows, AttributionTable
    <3>2. /\ attribution[a].lateDate \in Nat /\ attribution[a].pausedAt \in Nat
          /\ attribution'[a].lateDate = attribution[a].lateDate + (today - attribution[a].pausedAt)
      BY <3>1, BoundsAssumption DEF Resumed, AttributionRow, Days
    <3> QED
      BY <2>1, <3>2 DEF IsOverdue
  <2>3. CASE a # b
    <3>1. attribution'[a] = attribution[a]
      BY <1>3, <2>1, <2>3 DEF ResumeAttribution, AttributionTable
    <3> QED
      BY <1>2, <3>1
  <2> QED
    BY <2>2, <2>3
<1>4. ASSUME IInv, NEW a \in Attributions, NEW b \in Attributions, AttributionRequest(b),
             ~ResumeAttribution(b)
      PROVE  OnTime(a)
  <2>1. attribution \in AttributionTable
    BY <1>4, IInvParts DEF RowsSound, Typed
  <2>2. ASSUME NEW p \in Publishers, NEW t \in Territories, NEW s \in AssignDays, Assign(b, p, t, s)
        PROVE  OnTime(a)
    <3>1. a = b => ~IsPaused(attribution[a])
      BY <2>2 DEF Assign, IsPaused
    <3>2. a # b => attribution'[a] = attribution[a]
      BY <2>1, <2>2 DEF Assign, AttributionTable
    <3> QED
      BY <1>2, <3>1, <3>2
  <2>3. ASSUME NEW p \in Publishers, NEW s \in AssignDays, NEW e \in ReturnDays \cup {None},
               NEW late \in DueDays \cup {None}, UpdateAttribution(b, p, s, e, late)
        PROVE  OnTime(a)
    <3>1. a # b => attribution'[a] = attribution[a]
      BY <2>1, <2>3 DEF UpdateAttribution, AttributionTable
    <3>2. a = b => attribution'[a].pausedAt = attribution[a].pausedAt
      <4>1. attribution[b] \in AttributionRow
        BY <2>1, <2>3, RowType DEF UpdateAttribution, Rows
      <4> QED
        BY <2>1, <2>3, <4>1 DEF UpdateAttribution, AttributionTable, AttributionRow
    <3> QED
      BY <1>2, <3>1, <3>2 DEF IsPaused, IsWorked, IsOpen
  <2>4. CASE DeleteAttribution(b)
    <3>1. attribution'[a] \in {None, attribution[a]}
      BY <2>1, <2>4 DEF DeleteAttribution, AttributionTable
    <3> QED
      BY <1>2, <3>1 DEF IsWorked, IsOpen
  <2> QED
    BY <1>4, <2>2, <2>3, <2>4 DEF AttributionRequest
<1>5. ASSUME IInv, NEW a \in Attributions, NEW p \in Publishers, ReturnAllOf(p)
      PROVE  OnTime(a)
  <2> DEFINE open == { b \in Rows(attribution) :
                         IsOpen(attribution[b]) /\ attribution[b].publisherId = p }
  <2>1. attribution \in AttributionTable /\ today \in Days
    BY <1>5, IInvParts DEF RowsSound, Typed, CampaignInv
  <2>2. attribution' = CloseRows(attribution, open) /\ open \subseteq Rows(attribution)
    BY <1>5 DEF ReturnAllOf
  <2> HIDE DEF open
  <2>3. CASE a \in open
    <3>1. attribution[a] \in AttributionRow /\ attribution'[a] = [attribution[a] EXCEPT !.endDate = today]
      BY <2>1, <2>2, <2>3, RowType DEF CloseRows
    <3>2. attribution'[a].endDate # None
      BY <2>1, <3>1, NoneAssumption, BoundsAssumption DEF AttributionRow, Days
    <3> QED
      BY <3>2 DEF IsWorked, IsOpen
  <2>4. CASE a \notin open
    BY <1>2, <2>2, <2>4 DEF CloseRows
  <2> QED
    BY <2>3, <2>4
<1>6. ASSUME IInv, NEW a \in Attributions, NEW c \in Campaigns, CampaignRequest(c)
      PROVE  OnTime(a)
  <2>1. \/ Moved(attribution, attribution', c)
        \/ attribution' = attribution
    BY <1>6, CampaignMoves, OtherCampaignRequests DEF CampaignRequest, EndCampaignByHand
  <2> HIDE DEF OnTime
  <2> QED
    BY <1>1, <1>2, <2>1
<1>7. ASSUME IInv, NEW a \in Attributions, Sweep
      PROVE  OnTime(a)
  <2>1. ASSUME NEW c \in Campaigns, SweepActivate(c) \/ SweepEnd(c)
        PROVE  OnTime(a)
    BY <1>1, <1>7, <2>1, CampaignMoves DEF SweepEnd
  <2>2. CASE RunSweep \/ SweepTurn \/ SweepCommit
    BY <1>2, <2>2 DEF RunSweep, SweepTurn, SweepCommit
  <2> QED
    BY <1>7, <2>1, <2>2 DEF Sweep
<1>8. ASSUME NEW a \in Attributions,
             \/ \E t \in Territories : DeleteTerritory(t) \/ CreateTerritory(t)
             \/ NextDay
             \/ UNCHANGED vars
      PROVE  OnTime(a)
  <2>1. attribution' = attribution
    BY <1>8 DEF DeleteTerritory, CreateTerritory, NextDay, vars
  <2> QED
    BY <1>2, <2>1
<1>9. ASSUME IInv, [Next]_vars, NEW a \in Attributions
      PROVE  OnTime(a)
  <2> HIDE DEF OnTime
  <2> QED
    BY <1>3, <1>4, <1>5, <1>6, <1>7, <1>8, <1>9 DEF Next
<1>10. IInv /\ [Next]_vars => [\A a \in Attributions : OnTime(a)]_vars
  BY <1>9
<1> QED
  BY <1>10, Invariance, PTL DEF Spec, NobodyRetroactivelyLate

-----------------------------------------------------------------------------
(* The lifecycle implements TerritoryCustody: every step is one of its     *)
(* steps, or changes neither a custody nor the mode of a campaign.         *)

\* What TerritoryCustody sees of the two tables.
ModeView == [c \in Campaigns |-> ModeOf(campaign[c])]
CustodyView == [a \in Attributions |-> CustodyOf(attribution[a])]

\* An abstract step or a stutter.
Kept == Promise!CustodyNext \/ UNCHANGED <<ModeView, CustodyView>>

LEMMA KeptIsBox == Kept => [Promise!CustodyNext]_(Promise!cvars)
BY DEF Kept, ModeView, CustodyView, Promise!cvars

(* Every row has a custody.                                                *)
LEMMA CustodyTyped ==
    ASSUME NEW att \in AttributionTable, NEW camp, AllOwned(att, camp)
    PROVE  \A a \in Attributions : CustodyOf(att[a]) \in Promise!Custody
<1> SUFFICES ASSUME NEW a \in Attributions PROVE CustodyOf(att[a]) \in Promise!Custody
  OBVIOUS
<1>1. CASE att[a] = None
  BY <1>1, AbsentCustody DEF Promise!Custody
<1>2. CASE att[a] # None
  <2>1. att[a] \in AttributionRow /\ Owned(att[a], camp)
    BY <1>2, RowType DEF AllOwned, Rows
  <2> QED
    BY <2>1, CustodyCases DEF Promise!Custody
<1> QED
  BY <1>1, <1>2

(* The rows of the next state are typed and owned as well.                 *)
LEMMA NextRows ==
    ASSUME IInv'
    PROVE  attribution' \in AttributionTable /\ AllOwned(attribution', campaign')
BY DEF IInv, TypeOK, AttributionTable, AttributionRow, Days, RowsSound, AllOwned, Owned, Rows

(* The initial tables are empty.                                           *)
LEMMA InitKept == Init => Promise!CustodyInit
<1> SUFFICES ASSUME Init PROVE Promise!CustodyInit
  OBVIOUS
<1>1. \A c \in Campaigns : ModeOf(campaign[c]) = "new"
  BY DEF Init, ModeOf
<1>2. \A a \in Attributions : CustodyOf(attribution[a]) = Promise!Absent
  BY AbsentCustody DEF Init
<1> QED
  BY <1>1, <1>2 DEF Promise!CustodyInit

(* A move of the table on behalf of a campaign that begins, is on or ends  *)
(* is a step of this campaign.                                             *)
LEMMA CampaignStepKept ==
    ASSUME IInv, IInv', NEW c \in Campaigns, Moved(attribution, attribution', c),
           \A d \in Campaigns \ {c} : ModeOf(campaign'[d]) = ModeOf(campaign[d]),
           \/ ModeOf(campaign[c]) = "new" /\ ModeOf(campaign'[c]) = "on"
           \/ ModeOf(campaign[c]) = "on" /\ ModeOf(campaign'[c]) = "on"
           \/ ModeOf(campaign[c]) = "on" /\ ModeOf(campaign'[c]) = "over"
    PROVE  Kept
<1> DEFINE m == ModeView
           k == CustodyView
<1>1. /\ \/ m[c] = "new" /\ m' = [m EXCEPT ![c] = "on"]
         \/ m[c] = "on" /\ m' = m
         \/ m[c] = "on" /\ m' = [m EXCEPT ![c] = "over"]
  BY DEF ModeView
<1>2. k' \in [Attributions -> Promise!Custody]
  <2>1. \A a \in Attributions : CustodyOf(attribution'[a]) \in Promise!Custody
    BY NextRows, CustodyTyped
  <2> QED
    BY <2>1 DEF CustodyView
<1>3. ASSUME NEW a \in Attributions
      PROVE  Promise!MoveOf(c, k[a], k'[a])
  <2>1. k[a] = CustodyOf(attribution[a]) /\ k'[a] = CustodyOf(attribution'[a])
    BY DEF CustodyView
  <2>2. CASE attribution[a] # None
    BY <2>1, <2>2 DEF Moved, Follows
  <2>3. CASE attribution[a] = None
    BY <2>1, <2>3, AbsentCustody, OpenedCustody DEF Moved, Promise!MoveOf
  <2> QED
    BY <2>2, <2>3
<1>4. Promise!CampaignStep(c)
  BY <1>1, <1>2, <1>3 DEF Promise!CampaignStep, ModeView, CustodyView
<1> QED
  BY <1>4 DEF Kept, Promise!CustodyNext

(* A request about one attribution is a step of a manager.                 *)
LEMMA ManagerStepKept ==
    ASSUME NEW a \in Attributions, UNCHANGED campaign,
           \A b \in Attributions \ {a} : attribution'[b] = attribution[b],
           LET old == CustodyOf(attribution[a])
               new == CustodyOf(attribution'[a])
           IN  \/ new = old
               \/ old = Promise!Absent /\ new = Promise!Held
               \/ old \notin {Promise!Absent, Promise!Returned} /\ new = Promise!Returned
               \/ \E c \in Campaigns : old = Promise!Suspended(c) /\ new = Promise!Held
               \/ old # Promise!Absent /\ new = Promise!Absent
    PROVE  Kept
<1> DEFINE old == CustodyOf(attribution[a])
           new == CustodyOf(attribution'[a])
<1>1. UNCHANGED ModeView
  BY DEF ModeView
<1>2. CustodyView' = [CustodyView EXCEPT ![a] = new] /\ CustodyView[a] = old
  <2>1. \A b \in Attributions : CustodyOf(attribution'[b]) =
                                    IF b = a THEN new ELSE CustodyOf(attribution[b])
    OBVIOUS
  <2> QED
    BY <2>1 DEF CustodyView
<1> HIDE DEF old, new
<1>3. CASE new = old
  <2>1. UNCHANGED CustodyView
    BY <1>2, <1>3 DEF CustodyView
  <2> QED
    BY <1>1, <2>1 DEF Kept
<1>4. CASE new # old
  <2>1. \/ old = Promise!Absent /\ new = Promise!Held
        \/ old \notin {Promise!Absent, Promise!Returned} /\ new = Promise!Returned
        \/ \E c \in Campaigns : old = Promise!Suspended(c) /\ new = Promise!Held
        \/ old # Promise!Absent /\ new = Promise!Absent
    BY <1>4 DEF old, new
  <2>2. Promise!ManagerStep(a)
    BY <1>1, <1>2, <2>1 DEF Promise!ManagerStep, ModeView, CustodyView
  <2> QED
    BY <2>2 DEF Kept, Promise!CustodyNext
<1> QED
  BY <1>3, <1>4

(* Assigning, editing, resuming and removing one attribution.              *)
LEMMA AttributionRequestKept ==
    ASSUME IInv, IInv', NEW a \in Attributions, AttributionRequest(a)
    PROVE  Kept
<1> USE NoneAssumption
<1>1. attribution \in AttributionTable /\ RowsSound(attribution, campaign)
      /\ campaign \in CampaignTable
  BY IInvParts DEF RowsSound, Typed, CampaignInv
<1>2. attribution[a] # None => attribution[a] \in AttributionRow /\ Owned(attribution[a], campaign)
  BY <1>1, RowType DEF RowsSound, AllOwned, Rows
<1>3. attribution' \in AttributionTable /\ AllOwned(attribution', campaign')
  BY NextRows
<1>4. attribution'[a] # None => attribution'[a] \in AttributionRow /\ Owned(attribution'[a], campaign')
  BY <1>3, RowType DEF AllOwned, Rows
<1>5. ASSUME NEW p \in Publishers, NEW t \in Territories, NEW s \in AssignDays, Assign(a, p, t, s)
      PROVE  Kept
  <2>1. /\ attribution[a] = None /\ UNCHANGED campaign
        /\ \A b \in Attributions \ {a} : attribution'[b] = attribution[b]
    BY <1>1, <1>5 DEF Assign, AttributionTable
  <2>2. attribution'[a] # None /\ attribution'[a].endDate = None /\ attribution'[a].pausedAt = None
    <3>1. PICK c \in CurrentLayers :
              attribution' = [attribution EXCEPT ![a] = NewAttribution(campaign, p, t, s, c)]
      BY <1>5 DEF Assign
    <3>2. c \in Campaigns \cup {None} /\ (c # None => campaign[c] # None)
      BY DEF CurrentLayers, Active, IsActive
    <3>3. attribution'[a] = NewAttribution(campaign, p, t, s, c)
      BY <1>1, <3>1 DEF AttributionTable
    <3>4. s \in Days
      BY InputAssumption
    <3> QED
      BY <1>1, <3>2, <3>3, <3>4, NewAttributionType
  <2>3. CustodyOf(attribution[a]) = Promise!Absent /\ CustodyOf(attribution'[a]) = Promise!Held
    BY <1>4, <2>1, <2>2, AbsentCustody, CustodyCases
  <2> QED
    BY <2>1, <2>3, ManagerStepKept
<1>6. ASSUME NEW p \in Publishers, NEW s \in AssignDays, NEW e \in ReturnDays \cup {None},
             NEW late \in DueDays \cup {None}, UpdateAttribution(a, p, s, e, late)
      PROVE  Kept
  <2>1. /\ attribution[a] # None /\ UNCHANGED campaign
        /\ \A b \in Attributions \ {a} : attribution'[b] = attribution[b]
    BY <1>1, <1>6 DEF UpdateAttribution, AttributionTable
  <2>2. /\ attribution'[a] # None
        /\ attribution'[a].pausedAt = attribution[a].pausedAt
        /\ attribution'[a].pausedByCampaignId = attribution[a].pausedByCampaignId
        /\ attribution'[a].endDate = attribution[a].endDate \/ attribution'[a].endDate # None
    BY <1>6, UpdatedRow
  <2>3. /\ attribution[a].endDate # None => CustodyOf(attribution[a]) = Promise!Returned
        /\ attribution'[a].endDate # None => CustodyOf(attribution'[a]) = Promise!Returned
        /\ attribution[a].endDate = None => CustodyOf(attribution[a]) \notin {Promise!Absent, Promise!Returned}
        /\ attribution'[a].endDate = attribution[a].endDate =>
              CustodyOf(attribution'[a]) = CustodyOf(attribution[a])
    BY <1>2, <1>4, <2>1, <2>2, CustodyCases, AbsentCustody
  <2> QED
    BY <2>1, <2>2, <2>3, ManagerStepKept
<1>7. CASE ResumeAttribution(a)
  <2>1. /\ attribution[a] # None /\ attribution[a].pausedAt # None /\ UNCHANGED campaign
        /\ attribution'[a] = Resumed(attribution[a])
        /\ \A b \in Attributions \ {a} : attribution'[b] = attribution[b]
    BY <1>1, <1>7 DEF ResumeAttribution, IsPaused, AttributionTable
  <2>2. attribution'[a].endDate = attribution[a].endDate /\ attribution'[a].pausedAt = None
    BY <1>2, <2>1 DEF Resumed, AttributionRow
  <2>3. attribution'[a] # None
    <3>1. BulkMove(attribution[a], attribution'[a], attribution[a].pausedByCampaignId)
      BY <1>2, <2>1 DEF BulkMove, Release
    <3>2. today \in Days /\ attribution[a].pausedAt <= today
      BY <1>1, <2>1, IInvParts DEF CampaignInv, RowsSound, Typed, PausedInPast, IsPaused, Rows
    <3>3. attribution'[a] = attribution[a] \/ Shrinks(attribution[a], attribution'[a])
      BY <1>2, <2>1, <3>1, <3>2, BulkMoveShrinks
    <3> QED
      BY <2>1, <3>3 DEF Shrinks
  <2>4. CASE attribution[a].endDate # None
    <3>1. CustodyOf(attribution'[a]) = CustodyOf(attribution[a])
      BY <1>2, <1>4, <2>1, <2>2, <2>3, <2>4, CustodyCases
    <3> QED
      BY <2>1, <3>1, ManagerStepKept
  <2>5. CASE attribution[a].endDate = None
    <3>1. /\ attribution[a].pausedByCampaignId \in Campaigns
          /\ CustodyOf(attribution[a]) = Promise!Suspended(attribution[a].pausedByCampaignId)
      BY <1>2, <2>1, <2>5, CustodyCases
    <3>2. CustodyOf(attribution'[a]) = Promise!Held
      BY <1>4, <2>2, <2>3, <2>5, CustodyCases
    <3> QED
      BY <2>1, <3>1, <3>2, ManagerStepKept
  <2> QED
    BY <2>4, <2>5
<1>8. CASE DeleteAttribution(a)
  <2>1. /\ attribution[a] # None /\ attribution'[a] = None /\ UNCHANGED campaign
        /\ \A b \in Attributions \ {a} : attribution'[b] = attribution[b]
    BY <1>1, <1>8 DEF DeleteAttribution, AttributionTable
  <2>2. CustodyOf(attribution[a]) # Promise!Absent /\ CustodyOf(attribution'[a]) = Promise!Absent
    BY <1>2, <2>1, CustodyCases, AbsentCustody
  <2> QED
    BY <2>1, <2>2, ManagerStepKept
<1> QED
  BY <1>5, <1>6, <1>7, <1>8 DEF AttributionRequest

(* The mode of a campaign depends on two of its columns.                   *)
LEMMA ModeSame ==
    ASSUME NEW old, NEW new, old = None <=> new = None,
           old # None => new.activated = old.activated /\ new.ended = old.ended
    PROVE  ModeOf(new) = ModeOf(old)
BY DEF ModeOf

(* The end of a campaign is a step of this campaign.                       *)
LEMMA EndKept ==
    ASSUME IInv, IInv', NEW c \in Campaigns, EndCampaign(c)
    PROVE  Kept
<1>1. campaign \in CampaignTable
  BY IInvParts DEF CampaignInv
<1>2. /\ campaign[c] \in CampaignRow /\ campaign[c] # None
      /\ campaign[c].activated /\ ~campaign[c].ended
  BY <1>1 DEF EndCampaign, IsActive, CampaignTable
<1>3. /\ campaign'[c] = [campaign[c] EXCEPT !.ended = TRUE]
      /\ \A d \in Campaigns \ {c} : campaign'[d] = campaign[d]
  BY <1>1 DEF EndCampaign, CampaignTable
<1>4. campaign'[c] \in CampaignRow /\ campaign'[c].activated /\ campaign'[c].ended
  BY <1>2, <1>3 DEF CampaignRow
<1>5. ModeOf(campaign[c]) = "on" /\ ModeOf(campaign'[c]) = "over"
  BY <1>2, <1>4, NoneAssumption DEF ModeOf
<1>6. Moved(attribution, attribution', c)
  BY CampaignMoves
<1> QED
  BY <1>3, <1>5, <1>6, CampaignStepKept

(* Steps of the sweep: each acts for one campaign, or only moves on.       *)
LEMMA SweepKept ==
    ASSUME IInv, IInv', Sweep
    PROVE  Kept
<1>1. campaign \in CampaignTable
  BY IInvParts DEF CampaignInv
<1>2. ASSUME NEW c \in Campaigns, SweepActivate(c)
      PROVE  Kept
  <2>1. /\ campaign[c] \in CampaignRow /\ campaign[c] # None
        /\ ~campaign[c].activated /\ ~campaign[c].ended
    BY <1>1, <1>2 DEF SweepActivate, DueToActivate, CampaignTable
  <2>2. /\ campaign'[c] = [campaign[c] EXCEPT !.activated = TRUE]
        /\ \A d \in Campaigns \ {c} : campaign'[d] = campaign[d]
    BY <1>1, <1>2 DEF SweepActivate, CampaignTable
  <2>3. /\ campaign'[c] \in CampaignRow /\ campaign'[c].activated /\ ~campaign'[c].ended
    BY <2>1, <2>2 DEF CampaignRow
  <2>4. ModeOf(campaign[c]) = "new" /\ ModeOf(campaign'[c]) = "on"
    BY <2>1, <2>3, NoneAssumption DEF ModeOf
  <2>5. Moved(attribution, attribution', c)
    BY <1>2, CampaignMoves
  <2> QED
    BY <2>2, <2>4, <2>5, CampaignStepKept
<1>3. ASSUME NEW c \in Campaigns, SweepEnd(c)
      PROVE  Kept
  BY <1>3, EndKept DEF SweepEnd
<1>4. CASE RunSweep \/ SweepTurn \/ SweepCommit
  BY <1>4 DEF RunSweep, SweepTurn, SweepCommit, Kept, ModeView, CustodyView
<1> QED
  BY <1>2, <1>3, <1>4 DEF Sweep

(* Creating, editing, ending and deleting a campaign: one that has not     *)
(* begun moves nothing, and one is deleted only when it holds nothing.     *)
LEMMA CampaignRequestKept ==
    ASSUME IInv, IInv', NEW c \in Campaigns, CampaignRequest(c)
    PROVE  Kept
<1>1. campaign \in CampaignTable /\ AllOwned(attribution, campaign)
      /\ attribution \in AttributionTable
  BY IInvParts DEF CampaignInv, RowsSound, Typed
<1>2. ASSUME NEW w \in Windows, NEW so \in StartOptions, NEW eo \in EndOptions, NEW scope \in Scopes,
             CreateCampaign(c, w, so, eo, scope)
      PROVE  Kept
  <2>1. /\ campaign[c] = None /\ ~campaign'[c].activated
        /\ \A d \in Campaigns \ {c} : campaign'[d] = campaign[d]
        /\ attribution' = attribution
    BY <1>1, <1>2 DEF CreateCampaign, CampaignTable
  <2>2. ModeOf(campaign[c]) = "new" /\ ModeOf(campaign'[c]) = "new"
    BY <2>1 DEF ModeOf
  <2>3. UNCHANGED <<ModeView, CustodyView>>
    BY <2>1, <2>2 DEF ModeView, CustodyView
  <2> QED
    BY <2>3 DEF Kept
<1>3. ASSUME NEW w \in Windows, NEW so \in StartOptions, NEW eo \in EndOptions, NEW scope \in Scopes,
             EditCampaign(c, w, so, eo, scope)
      PROVE  Kept
  <2> DEFINE new == Updated(campaign[c], w, so, eo)
  <2>1. /\ campaign[c] \in CampaignRow /\ campaign[c] # None
        /\ campaign'[c] = [new EXCEPT !.scope = scope]
        /\ \A d \in Campaigns \ {c} : campaign'[d] = campaign[d]
    BY <1>1, <1>3 DEF EditCampaign, CampaignTable
  <2>2. /\ new \in CampaignRow
        /\ new.activated = campaign[c].activated /\ new.ended = campaign[c].ended
    BY <2>1, InputAssumption DEF Updated, CampaignRow
  <2> HIDE DEF new
  <2>3. /\ campaign'[c] \in CampaignRow
        /\ campaign'[c].activated = campaign[c].activated
        /\ campaign'[c].ended = campaign[c].ended
    BY <2>1, <2>2, InputAssumption DEF CampaignRow
  <2>4. \A d \in Campaigns : ModeOf(campaign'[d]) = ModeOf(campaign[d])
    BY <2>1, <2>3, NoneAssumption, ModeSame
  <2>5. CASE c \in Active(campaign)
    <3>1. Moved(attribution, attribution', c)
      BY <1>3, <2>5, CampaignMoves
    <3>2. ModeOf(campaign[c]) = "on"
      BY <2>5 DEF Active, IsActive, ModeOf
    <3> QED
      BY <2>4, <3>1, <3>2, CampaignStepKept
  <2>6. CASE c \notin Active(campaign)
    <3>1. attribution' = attribution
      BY <1>3, <2>6, OtherCampaignRequests
    <3>2. UNCHANGED <<ModeView, CustodyView>>
      BY <2>4, <3>1 DEF ModeView, CustodyView
    <3> QED
      BY <3>2 DEF Kept
  <2> QED
    BY <2>5, <2>6
<1>4. CASE EndCampaignByHand(c)
  BY <1>4, EndKept DEF EndCampaignByHand
<1>5. CASE DeleteCampaign(c)
  <2>1. /\ campaign[c] \in CampaignRow /\ campaign[c] # None /\ campaign'[c] = None
        /\ \A d \in Campaigns \ {c} : campaign'[d] = campaign[d]
        /\ attribution' = attribution /\ ~IsActive(campaign[c])
    BY <1>1, <1>5 DEF DeleteCampaign, CampaignTable
  <2>2. UNCHANGED CustodyView
    BY <2>1 DEF CustodyView
  <2>3. ModeOf(campaign'[c]) = "new"
    BY <2>1 DEF ModeOf
  <2>4. CASE ~campaign[c].activated
    <3>1. ModeOf(campaign[c]) = "new"
      BY <2>4 DEF ModeOf
    <3>2. UNCHANGED ModeView
      BY <2>1, <2>3, <3>1 DEF ModeView
    <3> QED
      BY <2>2, <3>2 DEF Kept
  <2>5. CASE campaign[c].activated
    <3>1. ModeOf(campaign[c]) = "over"
      BY <2>1, <2>5 DEF ModeOf, IsActive
    <3>2. ModeView[c] = "over" /\ ModeView' = [ModeView EXCEPT ![c] = "new"]
      <4>1. \A d \in Campaigns : ModeOf(campaign'[d]) = IF d = c THEN "new" ELSE ModeOf(campaign[d])
        BY <2>1, <2>3
      <4> QED
        BY <3>1, <4>1 DEF ModeView
    <3>3. ASSUME NEW a \in Attributions
          PROVE  CustodyOf(attribution[a]) # Promise!Suspended(c)
      <4>1. CASE attribution[a] = None
        BY <4>1, AbsentCustody
      <4>2. CASE attribution[a] # None
        <5>1. a \in Rows(attribution) /\ c # attribution[a].pausedByCampaignId
          BY <1>5, <4>2 DEF DeleteCampaign, Rows
        <5> QED
          BY <4>2, <5>1, NoneAssumption DEF CustodyOf, Promise!Suspended
      <4> QED
        BY <4>1, <4>2
    <3>4. Promise!Forget(c)
      BY <2>2, <3>2, <3>3 DEF Promise!Forget, ModeView, CustodyView
    <3> QED
      BY <3>4 DEF Kept, Promise!CustodyNext
  <2> QED
    BY <2>4, <2>5
<1> QED
  BY <1>2, <1>3, <1>4, <1>5 DEF CampaignRequest

(* A member who leaves returns everything he holds, suspended or not.      *)
LEMMA ReturnAllOfKept ==
    ASSUME IInv, IInv', NEW p \in Publishers, ReturnAllOf(p)
    PROVE  Kept
<1> DEFINE open == { a \in Rows(attribution) :
                       IsOpen(attribution[a]) /\ attribution[a].publisherId = p }
<1>1. /\ attribution \in AttributionTable /\ AllOwned(attribution, campaign)
      /\ today \in Days /\ today # None
  BY IInvParts, NoneAssumption, BoundsAssumption DEF CampaignInv, RowsSound, Typed, Days
<1>2. /\ attribution' = CloseRows(attribution, open) /\ UNCHANGED campaign
      /\ open \in SUBSET Attributions
  BY DEF ReturnAllOf, Rows
<1>3. ASSUME NEW a \in open
      PROVE  /\ attribution[a] \in AttributionRow /\ attribution[a].endDate = None
             /\ Owned(attribution[a], campaign)
  BY <1>1, RowType DEF AllOwned, IsOpen
<1> HIDE DEF open
<1>4. ASSUME NEW a \in open
      PROVE  /\ CustodyOf(attribution[a]) \notin {Promise!Absent, Promise!Returned}
             /\ CustodyOf(attribution'[a]) = Promise!Returned
  <2>1. CustodyOf(attribution[a]) \notin {Promise!Absent, Promise!Returned}
    BY <1>3, CustodyCases, AbsentCustody
  <2>2. attribution'[a] = [attribution[a] EXCEPT !.endDate = today]
    BY <1>2 DEF CloseRows
  <2>3. attribution'[a] \in AttributionRow /\ attribution'[a].endDate # None
    BY <1>1, <1>3, <2>2 DEF AttributionRow
  <2>4. Owned(attribution'[a], campaign')
    BY <1>2, <2>3, NextRows, NoneAssumption DEF AllOwned, Rows
  <2> QED
    BY <2>1, <2>3, <2>4, CustodyCases
<1>5. \A a \in Attributions : a \notin open => attribution'[a] = attribution[a]
  BY <1>2 DEF CloseRows
<1>6. /\ UNCHANGED ModeView
      /\ \A a \in open : CustodyView[a] \notin {Promise!Absent, Promise!Returned}
      /\ CustodyView' = [a \in Attributions |-> IF a \in open THEN Promise!Returned ELSE CustodyView[a]]
  BY <1>2, <1>4, <1>5 DEF ModeView, CustodyView
<1>7. Promise!ReturnMany(open)
  BY <1>6 DEF Promise!ReturnMany, ModeView, CustodyView
<1> QED
  BY <1>2, <1>7 DEF Kept, Promise!CustodyNext

(* The removal of a territory, a new one and another day change no custody *)
(* and no mode.                                                            *)
LEMMA QuietStepsKept ==
    ASSUME IInv,
           \/ \E t \in Territories : DeleteTerritory(t) \/ CreateTerritory(t)
           \/ NextDay
           \/ UNCHANGED vars
    PROVE  Kept
<1>1. campaign \in CampaignTable
  BY IInvParts DEF CampaignInv
<1>2. attribution' = attribution
  BY DEF DeleteTerritory, CreateTerritory, NextDay, vars
<1>3. \A c \in Campaigns : ModeOf(campaign'[c]) = ModeOf(campaign[c])
  <2>1. ASSUME NEW t \in Territories, DeleteTerritory(t), NEW c \in Campaigns
        PROVE  ModeOf(campaign'[c]) = ModeOf(campaign[c])
    <3>1. CASE campaign[c] = None
      BY <2>1, <3>1 DEF DeleteTerritory
    <3>2. CASE campaign[c] # None
      <4>1. campaign[c] \in CampaignRow
        BY <1>1, <3>2 DEF CampaignTable
      <4>2. campaign'[c] = [campaign[c] EXCEPT !.scope = campaign[c].scope \ {t}]
        BY <2>1, <3>2, <4>1 DEF DeleteTerritory, CampaignRow
      <4>3. campaign[c].scope \ {t} \in SUBSET Territories
        BY <4>1 DEF CampaignRow
      <4>4. /\ campaign'[c] \in CampaignRow
            /\ campaign'[c].activated = campaign[c].activated
            /\ campaign'[c].ended = campaign[c].ended
        BY <4>1, <4>2, <4>3 DEF CampaignRow
      <4> QED
        BY <3>2, <4>4, NoneAssumption, ModeSame
    <3> QED
      BY <3>1, <3>2
  <2>2. CASE campaign' = campaign
    BY <2>2
  <2> QED
    BY <2>1, <2>2 DEF CreateTerritory, NextDay, vars
<1>4. UNCHANGED <<ModeView, CustodyView>>
  BY <1>2, <1>3 DEF ModeView, CustodyView
<1> QED
  BY <1>4 DEF Kept

(* The lifecycle keeps the promises of TerritoryCustody: a campaign gives  *)
(* back only what it suspended itself, nothing is opened again once it is  *)
(* returned, and a campaign is forgotten only when it holds nothing.       *)
THEOREM CustodyIsKept == Spec => CustodyKept
<1>1. ASSUME IInv, IInv', [Next]_vars PROVE Kept
  BY <1>1, SweepKept, CampaignRequestKept, AttributionRequestKept, ReturnAllOfKept, QuietStepsKept
  DEF Next
<1>2. IInv /\ IInv' /\ [Next]_vars => [Promise!CustodyNext]_(Promise!cvars)
  BY <1>1, KeptIsBox
<1> QED
  BY <1>2, InitKept, Invariance, PTL DEF Spec, CustodyKept, Promise!CustodySpec
=============================================================================
