------------------------- MODULE TerritoryCampaigns -------------------------
(***************************************************************************)
(* Publishing campaigns and territory attributions of one congregation     *)
(* (src/app/features/territories).                                         *)
(*                                                                         *)
(* The state is the committed content of three tables: Territory,          *)
(* Campaign (with its CampaignTerritory scope) and Attribution.  A request *)
(* is one database transaction and is one action, except that the requests *)
(* that end in the campaign lifecycle sweep (the daily job, creating and   *)
(* editing a campaign) are cut at the transitions of the single campaigns: *)
(* "phase" is the place the sweep has reached, and nothing else runs until *)
(* it is back to "idle".  A transaction that is rolled back changes        *)
(* nothing, so it is no step.  Concurrent transactions are the subject of  *)
(* CampaignTransactions.                                                   *)
(*                                                                         *)
(* Time is counted in days: the campaign windows are day-granular, and an  *)
(* instant inside day d is the number d.                                   *)
(***************************************************************************)
EXTENDS Integers, FiniteSets

CONSTANTS
    Publishers,     \* members who can hold a territory
    Territories,    \* identities a territory can have
    Campaigns,      \* identities a campaign can have
    Attributions,   \* identities an attribution can have
    None,           \* SQL NULL, and the absence of a row
    MaxDay,         \* bound: the last day of the calendar
    Duration,       \* days a territory is lent for (a congregation setting)
    Windows,        \* the <<startDate, endDate>> a manager enters for a campaign
    StartOptions,   \* the start options a manager enters
    EndOptions,     \* the end options a manager enters
    Scopes,         \* the territory selections a manager enters
    AssignDays,     \* the start dates a manager enters for an attribution
    ReturnDays,     \* the return dates a manager enters for an attribution
    DueDays         \* the due dates a manager enters for an attribution

Days == 0..MaxDay

\* campaign.schema.ts: auto-reassign is only accepted together with Pause.
StartOption ==
    { o \in [startRegularAction : {"Pause", "Close", "Leave"}, startAutoReassign : BOOLEAN] :
        o.startAutoReassign => o.startRegularAction = "Pause" }

EndOption ==
    [endCloseCampaign : BOOLEAN, endRegularAction : {"Resume", "KeepPaused", "Close"}]

CampaignRow ==
    [ startDate : Days, endDate : Days,
      start : StartOption, end : EndOption,
      scope : SUBSET Territories,           \* {} means every territory
      activated : BOOLEAN, ended : BOOLEAN ] \* activatedAt / endedAt is stamped

AttributionRow ==
    [ publisherId : Publishers, territoryId : Territories,
      startDate : Days, endDate : Days \cup {None}, lateDate : Nat,
      campaignId : Campaigns \cup {None},
      pausedAt : Days \cup {None}, pausedByCampaignId : Campaigns \cup {None} ]

ASSUME BoundsAssumption == MaxDay \in Nat /\ Duration \in Nat

ASSUME InputAssumption ==
    /\ Windows \subseteq { w \in Days \X Days : w[1] <= w[2] }
    /\ StartOptions \subseteq StartOption
    /\ EndOptions \subseteq EndOption
    /\ Scopes \subseteq SUBSET Territories
    /\ AssignDays \subseteq Days /\ ReturnDays \subseteq Days /\ DueDays \subseteq Nat

ASSUME NoneAssumption ==
    None \notin Nat \cup Campaigns \cup CampaignRow \cup AttributionRow

VARIABLES
    today,        \* the current day
    territory,    \* the territories that exist
    campaign,     \* campaign[c]: the row of campaign c, or None
    attribution,  \* attribution[a]: the row of attribution a, or None
    phase         \* "idle", or where a running lifecycle sweep is

vars == <<today, territory, campaign, attribution, phase>>

TypeOK ==
    /\ today \in Days
    /\ territory \subseteq Territories
    /\ campaign \in [Campaigns -> CampaignRow \cup {None}]
    /\ attribution \in [Attributions -> AttributionRow \cup {None}]
    /\ phase \in {"idle", "activating", "ending"}

Init ==
    /\ today = 0
    /\ territory = Territories
    /\ campaign = [c \in Campaigns |-> None]
    /\ attribution = [a \in Attributions |-> None]
    /\ phase = "idle"

-----------------------------------------------------------------------------
(* Reading the tables.  "att" and "camp" are contents of the two tables.   *)

Rows(att) == { a \in Attributions : att[a] # None }
FreeIds(att) == { a \in Attributions : att[a] = None }

IsActive(row) == row # None /\ row.activated /\ ~row.ended

\* getActiveCampaign is a findFirst without an order: any member may be returned.
Active(camp) == { c \in Campaigns : IsActive(camp[c]) }

IsOpen(row) == row # None /\ row.endDate = None
IsPaused(row) == row # None /\ row.pausedAt # None
IsWorked(row) == IsOpen(row) /\ ~IsPaused(row)

\* An empty scope stands for every territory.
Effective(scope) == IF scope = {} THEN territory ELSE scope

\* The end of an interval, NULL standing for +infinity, is not before a day.
ReachesDay(endDate, day) == endDate = None \/ endDate >= day

attributionsOverlap(s1, e1, s2, e2) == ReachesDay(e1, s2) /\ ReachesDay(e2, s1)

\* Mutant: windows that share one day are accepted.
campaignWindowsOverlapStrict(s1, e1, s2, e2) == s1 < e2 /\ s2 < e1

campaignWindowsOverlap(s1, e1, s2, e2) == s1 <= e2 /\ s2 <= e1

\* Mutant: only open rows are compared.
LayerConflictOpenOnly(att, except, p, t, layer, s, e) ==
    \E b \in Rows(att) \ except :
        /\ IsOpen(att[b])
        /\ att[b].publisherId = p
        /\ att[b].territoryId = t
        /\ att[b].campaignId = layer
        /\ attributionsOverlap(s, e, att[b].startDate, att[b].endDate)

\* _assertNoActiveOverlap throws: a row other than those of "except" has the
\* same publisher, territory and layer (campaignId) and an overlapping interval.
LayerConflict(att, except, p, t, layer, s, e) ==
    \E b \in Rows(att) \ except :
        /\ att[b].publisherId = p
        /\ att[b].territoryId = t
        /\ att[b].campaignId = layer
        /\ attributionsOverlap(s, e, att[b].startDate, att[b].endDate)

\* Mutant: only regular work occupies a territory.
IsOccupiedByRegular(att, t) ==
    \E b \in Rows(att) :
        att[b].territoryId = t /\ att[b].campaignId = None /\ IsWorked(att[b])

\* The open, unpaused attribution that keeps a territory out of a campaign.
IsOccupied(att, t) == \E b \in Rows(att) : att[b].territoryId = t /\ IsWorked(att[b])

\* _assertNoWindowOverlap throws.
WindowConflict(except, s, e) ==
    \E d \in Campaigns \ except :
        /\ campaign[d] # None
        /\ campaignWindowsOverlap(s, e, campaign[d].startDate, campaign[d].endDate)

\* The row "assign" inserts in layer c of the campaign table camp.
NewAttribution(camp, p, t, s, c) ==
    [ publisherId |-> p, territoryId |-> t, startDate |-> s, endDate |-> None,
      lateDate |-> IF c # None /\ camp[c].end.endCloseCampaign
                   THEN camp[c].endDate + 1
                   ELSE s + Duration,
      campaignId |-> c, pausedAt |-> None, pausedByCampaignId |-> None ]

-----------------------------------------------------------------------------
(* The bulk transitions of attribution-pause.aggregate, each restricted to *)
(* a set S of territories.                                                 *)

OpenRegulars(att, S) ==
    { a \in Rows(att) : IsOpen(att[a]) /\ att[a].campaignId = None /\ att[a].territoryId \in S }

\* Mutant: whoever paused it.
OpenPausedByAnyone(att, c, S) ==
    { a \in Rows(att) : IsOpen(att[a]) /\ IsPaused(att[a]) /\ att[a].territoryId \in S }

OpenPausedBy(att, c, S) ==
    { a \in Rows(att) : IsOpen(att[a]) /\ att[a].pausedByCampaignId = c /\ att[a].territoryId \in S }

OpenWorkOf(att, c, S) ==
    { a \in Rows(att) : IsOpen(att[a]) /\ att[a].campaignId = c /\ att[a].territoryId \in S }

ToPause(att, S) == { a \in OpenRegulars(att, S) : ~IsPaused(att[a]) }

pauseOpenRegulars(att, c, S) ==
    [ a \in Attributions |->
        IF a \in ToPause(att, S)
        THEN [att[a] EXCEPT !.pausedAt = today, !.pausedByCampaignId = c]
        ELSE att[a] ]

\* closeOpenRegulars and closeOpenCampaignAttributions: only endDate is set.
CloseRows(att, rows) ==
    [ a \in Attributions |-> IF a \in rows THEN [att[a] EXCEPT !.endDate = today] ELSE att[a] ]

\* What lifting a pause writes: the due date moves by the time spent paused.
Resumed(row) ==
    [row EXCEPT !.pausedAt = None, !.pausedByCampaignId = None,
                !.lateDate = IF row.pausedAt = None THEN @ ELSE @ + (today - row.pausedAt)]

\* Mutant: the due date is not moved.
resumePausedByUnshifted(att, c, S) ==
    [ a \in Attributions |->
        IF a \in OpenPausedBy(att, c, S)
        THEN [att[a] EXCEPT !.pausedAt = None, !.pausedByCampaignId = None]
        ELSE att[a] ]

resumePausedBy(att, c, S) ==
    [ a \in Attributions |-> IF a \in OpenPausedBy(att, c, S) THEN Resumed(att[a]) ELSE att[a] ]

closePausedBy(att, c, S) ==
    [ a \in Attributions |->
        IF a \in OpenPausedBy(att, c, S)
        THEN [att[a] EXCEPT !.endDate = today, !.pausedAt = None, !.pausedByCampaignId = None]
        ELSE att[a] ]

-----------------------------------------------------------------------------
(* _reassignIntoCampaign calls "assign" for each paused row, in no stated  *)
(* order, and swallows the conflicts.  Every call of a territory that      *)
(* succeeds makes the later calls for this territory fail, so on each      *)
(* territory exactly one of the admissible rows is carried over.  "from"   *)
(* maps the new identities to the rows they are copied from.               *)

CanCarryOver(att, c, r) ==
    /\ ~IsOccupied(att, att[r].territoryId)
    /\ ~LayerConflict(att, {}, att[r].publisherId, att[r].territoryId, c, today, None)

IsCarryOver(att, paused, c, from) ==
    /\ \A a \in DOMAIN from : CanCarryOver(att, c, from[a])
    /\ \A a, b \in DOMAIN from :
          att[from[a]].territoryId = att[from[b]].territoryId => a = b
    /\ \A r \in paused : CanCarryOver(att, c, r) =>
          \E a \in DOMAIN from : att[from[a]].territoryId = att[r].territoryId

Carried(att, camp, c, from) ==
    [ a \in Attributions |->
        IF a \in DOMAIN from
        THEN NewAttribution(camp, att[from[a]].publisherId, att[from[a]].territoryId, today, c)
        ELSE att[a] ]

\* The tables the loop can leave.  "assign" rejects every call when the active
\* campaign it reads is another one.
reassignIntoCampaign(att, camp, c, paused) ==
    LET carryOvers == { from \in UNION { [ids -> paused] : ids \in SUBSET FreeIds(att) } :
                            IsCarryOver(att, paused, c, from) }
    IN  (IF c \in Active(camp) THEN { Carried(att, camp, c, from) : from \in carryOvers } ELSE {})
            \cup (IF Active(camp) \ {c} # {} THEN {att} ELSE {})

\* The start behaviour of campaign c, with the start options o, on territories S:
\* the set of tables it can leave.
StartTransition(att, camp, c, o, S) ==
    IF o.startRegularAction = "Pause"
    THEN IF o.startAutoReassign
         THEN reassignIntoCampaign(pauseOpenRegulars(att, c, S), camp, c, ToPause(att, S))
         ELSE {pauseOpenRegulars(att, c, S)}
    ELSE IF o.startRegularAction = "Close"
         THEN {CloseRows(att, OpenRegulars(att, S))}
         ELSE {att}

\* Mutant: the regular work is only looked at when the campaign is left open.
EndTransitionElse(att, c, o, S) ==
    IF o.endCloseCampaign THEN CloseRows(att, OpenWorkOf(att, c, S))
    ELSE IF o.endRegularAction = "Resume" THEN resumePausedBy(att, c, S)
    ELSE IF o.endRegularAction = "Close" THEN closePausedBy(att, c, S)
    ELSE att

\* The end behaviour of campaign c, with the end options o, on territories S.
EndTransition(att, c, o, S) ==
    LET closed == IF o.endCloseCampaign THEN CloseRows(att, OpenWorkOf(att, c, S)) ELSE att
    IN  IF o.endRegularAction = "Resume" THEN resumePausedBy(closed, c, S)
        ELSE IF o.endRegularAction = "Close" THEN closePausedBy(closed, c, S)
        ELSE closed

\* Mutant: an empty scope is taken as no territory.
applyScopeChangeRaw(att, camp, c, old, scope) ==
    IF ~IsActive(old) THEN {att}
    ELSE { EndTransition(started, c, old.end, old.scope \ scope) :
             started \in StartTransition(att, camp, c, old.start, scope \ old.scope) }

\* applyScopeChange on the campaign object "old" the request read before the
\* update: an active campaign runs its start behaviour on the territories that
\* enter its scope and its end behaviour on those that leave it.
applyScopeChange(att, camp, c, old, scope) ==
    IF ~IsActive(old) THEN {att}
    ELSE { EndTransition(started, c, old.end, Effective(old.scope) \ Effective(scope)) :
             started \in StartTransition(att, camp, c, old.start,
                                         Effective(scope) \ Effective(old.scope)) }

\* Bound of the model: a sweep starts only if identities are left for the rows it
\* could carry over, at most one on each territory.
HasRoom ==
    Cardinality(FreeIds(attribution)) >=
        Cardinality({ attribution[a].territoryId : a \in OpenRegulars(attribution, Territories) })

-----------------------------------------------------------------------------
(* The lifecycle sweep.                                                    *)

DueToActivate ==
    { c \in Campaigns : /\ campaign[c] # None
                        /\ ~campaign[c].activated /\ ~campaign[c].ended
                        /\ campaign[c].startDate <= today }

\* Mutant: only the campaigns whose last day was yesterday.
DueToEndYesterday ==
    { c \in Campaigns : IsActive(campaign[c]) /\ campaign[c].endDate = today - 1 }

DueToEnd == { c \in Campaigns : IsActive(campaign[c]) /\ campaign[c].endDate < today }

\* The daily job, and the catch-up at worker start.  A sweep that finds
\* nothing due changes nothing and is left out.
RunSweep ==
    /\ phase = "idle"
    /\ DueToActivate \cup DueToEnd # {}
    /\ HasRoom
    /\ phase' = "activating"
    /\ UNCHANGED <<today, territory, campaign, attribution>>

\* activateCampaign: activatedAt is stamped first.
SweepActivate(c) ==
    LET camp == [campaign EXCEPT ![c].activated = TRUE]
    IN  /\ phase = "activating"
        /\ c \in DueToActivate
        /\ campaign' = camp
        /\ attribution' \in StartTransition(attribution, camp, c, campaign[c].start,
                                            Effective(campaign[c].scope))
        /\ UNCHANGED <<today, territory, phase>>

SweepTurn ==
    /\ phase = "activating"
    /\ DueToActivate = {}
    /\ phase' = "ending"
    /\ UNCHANGED <<today, territory, campaign, attribution>>

\* Mutant: the end behaviour is restricted to the scope.
EndCampaignInScope(c) ==
    /\ IsActive(campaign[c])
    /\ campaign' = [campaign EXCEPT ![c].ended = TRUE]
    /\ attribution' = EndTransition(attribution, c, campaign[c].end,
                                    Effective(campaign[c].scope))
    /\ UNCHANGED <<today, territory, phase>>

\* endCampaign: endedAt is stamped, and the end behaviour runs whatever the scope.
EndCampaign(c) ==
    /\ IsActive(campaign[c])
    /\ campaign' = [campaign EXCEPT ![c].ended = TRUE]
    /\ attribution' = EndTransition(attribution, c, campaign[c].end, Territories)
    /\ UNCHANGED <<today, territory, phase>>

SweepEnd(c) ==
    /\ phase = "ending"
    /\ c \in DueToEnd
    /\ EndCampaign(c)

SweepCommit ==
    /\ phase = "ending"
    /\ DueToEnd = {}
    /\ phase' = "idle"
    /\ UNCHANGED <<today, territory, campaign, attribution>>

-----------------------------------------------------------------------------
(* The requests of the managers.                                           *)

\* routes/campaigns/new: the campaign is created, then the sweep runs.
CreateCampaign(c, w, so, eo, scope) ==
    /\ phase = "idle" /\ HasRoom
    /\ campaign[c] = None
    /\ scope \subseteq territory
    /\ ~WindowConflict({}, w[1], w[2])
    /\ campaign' = [campaign EXCEPT ![c] =
                      [ startDate |-> w[1], endDate |-> w[2], start |-> so, end |-> eo,
                        scope |-> scope, activated |-> FALSE, ended |-> FALSE ]]
    /\ phase' = "activating"
    /\ UNCHANGED <<today, territory, attribution>>

\* updateCampaign: once activated, the start date and the start options stay.
Updated(old, w, so, eo) ==
    [old EXCEPT !.startDate = IF old.activated THEN @ ELSE w[1],
                !.endDate = w[2],
                !.start = IF old.activated THEN @ ELSE so,
                !.end = eo]

\* routes/campaigns/edit: the update, the scope change, then the sweep.
EditCampaign(c, w, so, eo, scope) ==
    /\ phase = "idle" /\ HasRoom
    /\ campaign[c] # None
    /\ scope \subseteq territory
    /\ LET new == Updated(campaign[c], w, so, eo)
       IN  /\ ~WindowConflict({c}, new.startDate, new.endDate)
           /\ attribution' \in applyScopeChange(attribution, [campaign EXCEPT ![c] = new],
                                                c, campaign[c], scope)
           /\ campaign' = [campaign EXCEPT ![c] = [new EXCEPT !.scope = scope]]
    /\ phase' = "activating"
    /\ UNCHANGED <<today, territory>>

\* routes/campaigns/view: the manual end.
EndCampaignByHand(c) ==
    /\ phase = "idle"
    /\ EndCampaign(c)

\* Mutant: the pauses are not counted as references.
DeleteCampaignPausing(c) ==
    /\ phase = "idle"
    /\ campaign[c] # None
    /\ ~IsActive(campaign[c])
    /\ \A a \in Rows(attribution) : c # attribution[a].campaignId
    /\ campaign' = [campaign EXCEPT ![c] = None]
    /\ UNCHANGED <<today, territory, attribution, phase>>

\* deleteCampaign.
DeleteCampaign(c) ==
    /\ phase = "idle"
    /\ campaign[c] # None
    /\ ~IsActive(campaign[c])
    /\ \A a \in Rows(attribution) :
          c # attribution[a].campaignId /\ c # attribution[a].pausedByCampaignId
    /\ campaign' = [campaign EXCEPT ![c] = None]
    /\ UNCHANGED <<today, territory, attribution, phase>>

\* routes/attributions/new: the attribution joins the campaign that is active,
\* or is regular work when none is.
CurrentLayers == IF Active(campaign) = {} THEN {None} ELSE Active(campaign)

Assign(a, p, t, s) ==
    /\ phase = "idle"
    /\ attribution[a] = None
    /\ t \in territory
    /\ \E c \in CurrentLayers :
          /\ c # None => ~IsOccupied(attribution, t)
          /\ ~LayerConflict(attribution, {}, p, t, c, s, None)
          /\ attribution' = [attribution EXCEPT ![a] = NewAttribution(campaign, p, t, s, c)]
    /\ UNCHANGED <<today, territory, campaign, phase>>

\* routes/attributions/edit: the dates left empty (None) keep their value.
\* The pause is not looked at.
UpdateAttribution(a, p, s, e, late) ==
    LET row == attribution[a]
        nextEnd == IF e # None THEN e ELSE row.endDate
        moved == p # row.publisherId \/ s # row.startDate \/ nextEnd # row.endDate
    IN  /\ phase = "idle"
        /\ row # None
        /\ moved => ~LayerConflict(attribution, {a}, p, row.territoryId, row.campaignId, s, nextEnd)
        /\ attribution' = [attribution EXCEPT ![a] =
                             [row EXCEPT !.publisherId = p, !.startDate = s, !.endDate = nextEnd,
                                         !.lateDate = IF late # None THEN late ELSE @]]
        /\ UNCHANGED <<today, territory, campaign, phase>>

\* routes/attributions/resume: only the pause is looked at, not the return date.
ResumeAttribution(a) ==
    /\ phase = "idle"
    /\ IsPaused(attribution[a])
    /\ attribution' = [attribution EXCEPT ![a] = Resumed(@)]
    /\ UNCHANGED <<today, territory, campaign, phase>>

\* markReturnedForPublisher, when a member is anonymised.
ReturnAllOf(p) ==
    LET open == { a \in Rows(attribution) : IsOpen(attribution[a]) /\ attribution[a].publisherId = p }
    IN  /\ phase = "idle"
        /\ open # {}
        /\ attribution' = CloseRows(attribution, open)
        /\ UNCHANGED <<today, territory, campaign, phase>>

\* archive: a hard delete.
DeleteAttribution(a) ==
    /\ phase = "idle"
    /\ attribution[a] # None
    /\ attribution' = [attribution EXCEPT ![a] = None]
    /\ UNCHANGED <<today, territory, campaign, phase>>

\* deleteTerritory: refused by the foreign key of Attribution, cascading to
\* the campaign scopes.
DeleteTerritory(t) ==
    /\ phase = "idle"
    /\ t \in territory
    /\ \A a \in Rows(attribution) : attribution[a].territoryId # t
    /\ territory' = territory \ {t}
    /\ campaign' = [c \in Campaigns |->
                      IF campaign[c] = None THEN None
                      ELSE [campaign[c] EXCEPT !.scope = @ \ {t}]]
    /\ UNCHANGED <<today, attribution, phase>>

\* No row refers to a deleted territory, so an identity that comes back stands
\* for a fresh one.
CreateTerritory(t) ==
    /\ phase = "idle"
    /\ t \notin territory
    /\ territory' = territory \cup {t}
    /\ UNCHANGED <<today, campaign, attribution, phase>>

NextDay ==
    /\ phase = "idle"
    /\ today < MaxDay
    /\ today' = today + 1
    /\ UNCHANGED <<territory, campaign, attribution, phase>>

-----------------------------------------------------------------------------

Sweep ==
    \/ RunSweep
    \/ \E c \in Campaigns : SweepActivate(c)
    \/ SweepTurn
    \/ \E c \in Campaigns : SweepEnd(c)
    \/ SweepCommit

CampaignRequest(c) ==
    \/ \E w \in Windows, so \in StartOptions, eo \in EndOptions, scope \in Scopes :
          CreateCampaign(c, w, so, eo, scope) \/ EditCampaign(c, w, so, eo, scope)
    \/ EndCampaignByHand(c)
    \/ DeleteCampaign(c)

AttributionRequest(a) ==
    \/ \E p \in Publishers, t \in Territories, s \in AssignDays : Assign(a, p, t, s)
    \/ \E p \in Publishers, s \in AssignDays, e \in ReturnDays \cup {None},
          late \in DueDays \cup {None} : UpdateAttribution(a, p, s, e, late)
    \/ ResumeAttribution(a)
    \/ DeleteAttribution(a)

Next ==
    \/ Sweep
    \/ \E c \in Campaigns : CampaignRequest(c)
    \/ \E a \in Attributions : AttributionRequest(a)
    \/ \E p \in Publishers : ReturnAllOf(p)
    \/ \E t \in Territories : DeleteTerritory(t) \/ CreateTerritory(t)
    \/ NextDay

Spec == Init /\ [][Next]_vars

\* The daily job is enqueued every day and caught up when the worker starts, and
\* a transaction that has begun goes on; the clock is stopped by nobody, however
\* many requests there are.
FairSpec == Spec /\ WF_vars(Sweep) /\ SF_vars(NextDay)

-----------------------------------------------------------------------------
(* Properties.                                                             *)

(* Two attributions of the same publisher, territory and layer never       *)
(* overlap, whatever sequence of assignments, edits, bulk returns, pauses  *)
(* and carry-overs led there (_assertNoActiveOverlap checks the row being  *)
(* written, every other write has to be harmless by itself).               *)
LayersNeverOverlap ==
    \A a, b \in Rows(attribution) :
        LET x == attribution[a]  y == attribution[b]
        IN  /\ a # b
            /\ x.publisherId = y.publisherId
            /\ x.territoryId = y.territoryId
            /\ x.campaignId = y.campaignId
            => ~attributionsOverlap(x.startDate, x.endDate, y.startDate, y.endDate)

(* Campaign mode is a single on/off: outside a running sweep at most one   *)
(* campaign is active, although windows are edited, campaigns are ended    *)
(* early and the sweep may come days late (campaignWindowsOverlap).        *)
OneActiveCampaign ==
    phase = "idle" => \A c, d \in Active(campaign) : c = d

(* A territory is worked once in the campaigns: no two open attributions   *)
(* of campaigns, the same one or not, on one territory (the occupied check *)
(* of "assign", which the carry-over relies on when it swallows conflicts).*)
TerritoryWorkedOnce ==
    \A a, b \in Rows(attribution) :
        LET x == attribution[a]  y == attribution[b]
        IN  /\ IsOpen(x) /\ x.campaignId # None
            /\ IsOpen(y) /\ y.campaignId # None
            /\ x.territoryId = y.territoryId
            => a = b

(* Every pause has an owner, only regular work is paused, and both campaign*)
(* references of a row lead to a campaign that exists and has begun, so a  *)
(* deletion never leaves a pause that nobody can release (deleteCampaign). *)
PausesHaveOwners ==
    \A a \in Rows(attribution) :
        LET row == attribution[a]
        IN  /\ row.pausedAt # None <=> row.pausedByCampaignId # None
            /\ row.pausedAt # None => row.campaignId = None
            /\ \A c \in {row.campaignId, row.pausedByCampaignId} \ {None} :
                  campaign[c] # None /\ campaign[c].activated

(* Editing the scope of an active campaign moves the work of the           *)
(* territories that enter or leave it, an empty scope counting as all of   *)
(* them: none is worked as regular when it enters a scope that pauses, and *)
(* nothing stays open where it leaves that the end options would close or  *)
(* resume (applyScopeChange).                                              *)
ScopeEditMovesWork ==
    [][ \A c \in Active(campaign) \cap Active(campaign') :
          LET before == Effective(campaign[c].scope)
              after == Effective(campaign'[c].scope)
          IN  territory' = territory =>
                /\ campaign[c].start.startRegularAction = "Pause" =>
                     ToPause(attribution', after \ before) = {}
                /\ campaign[c].end.endCloseCampaign =>
                     OpenWorkOf(attribution', c, before \ after) = {}
                /\ campaign[c].end.endRegularAction # "KeepPaused" =>
                     OpenPausedBy(attribution', c, before \ after) = {} ]_vars

(* A campaign that ends leaves nothing behind that its end options do not  *)
(* allow: no open row it had paused unless they are kept paused, no open   *)
(* work of its own when it closes automatically; also for rows outside the *)
(* scope it has by then (endCampaign passes territoryIds null).            *)
EndCleansUp ==
    [][ \A c \in Campaigns :
          IsActive(campaign[c]) /\ ~IsActive(campaign'[c]) =>
            /\ campaign[c].end.endRegularAction # "KeepPaused" =>
                 OpenPausedBy(attribution', c, Territories) = {}
            /\ campaign[c].end.endCloseCampaign =>
                 OpenWorkOf(attribution', c, Territories) = {} ]_vars

IsOverdue(row, day) == row.lateDate <= day

(* "Nobody comes out of a campaign retroactively late": a row that was not *)
(* overdue on the day it was paused is not overdue when the pause is       *)
(* lifted, by hand, by a scope change or by the end of the campaign.       *)
NobodyRetroactivelyLate ==
    [][ \A a \in Attributions :
          /\ IsPaused(attribution[a])
          /\ IsWorked(attribution'[a])
          /\ ~IsOverdue(attribution[a], attribution[a].pausedAt)
          => ~IsOverdue(attribution'[a], today) ]_vars

(* An attribution that a running campaign paused is not forgotten: as the  *)
(* days pass it is released, returned or removed, unless the campaign is   *)
(* meanwhile told to keep it paused.  HasRoom is the bound of the model.   *)
PausedWorkIsReleased ==
    \A a \in Attributions, c \in Campaigns :
        LET PausedBy == IsOpen(attribution[a]) /\ attribution[a].pausedByCampaignId = c
        IN  PausedBy /\ IsActive(campaign[c])
                     ~> \/ ~PausedBy
                        \/ campaign[c].end.endRegularAction = "KeepPaused"
                        \/ ~HasRoom

(* The lifecycle keeps the promises of TerritoryCustody.                   *)
ModeOf(row) ==
    IF row = None \/ ~row.activated THEN "new" ELSE IF row.ended THEN "over" ELSE "on"

CustodyOf(row) ==
    [ state |-> IF row = None THEN "absent"
                ELSE IF row.endDate # None THEN "returned"
                ELSE IF row.pausedAt # None THEN "suspended" ELSE "held",
      by |-> IF IsOpen(row) THEN row.pausedByCampaignId ELSE None ]

Promise == INSTANCE TerritoryCustody
    WITH mode <- [c \in Campaigns |-> ModeOf(campaign[c])],
         custody <- [a \in Attributions |-> CustodyOf(attribution[a])]

CustodyKept == Promise!CustodySpec

-----------------------------------------------------------------------------
(* A statement of the documentation that the code does not keep, checked   *)
(* by a run that expects a violation.                                      *)

(* "Suspendre: they are paused, ... and the territory becomes assignable   *)
(* within the campaign" (docs/product/territories.md:188): the end of one  *)
(* campaign in a sweep does not put regular work paused on an earlier day  *)
(* back in the scope of a campaign that is active and pauses it.           *)
PausedUnderActiveCampaign ==
    [][ phase = "ending" =>
          \A a \in Attributions :
             /\ IsPaused(attribution[a]) /\ attribution[a].pausedAt < today
             /\ IsWorked(attribution'[a])
             => ~ \E c \in Active(campaign') :
                    /\ campaign'[c].start.startRegularAction = "Pause"
                    /\ attribution'[a].territoryId \in Effective(campaign'[c].scope) ]_vars
=============================================================================
