------------------------ MODULE CampaignTransactions ------------------------
(***************************************************************************)
(* The campaign requests of one congregation running at the same time.     *)
(*                                                                         *)
(* withScope runs a request in one PostgreSQL transaction at the default   *)
(* isolation, READ COMMITTED: a statement reads what is committed when it  *)
(* runs and what its own transaction wrote; a row that is written is       *)
(* locked until the transaction ends; an UPDATE that waited for a lock     *)
(* writes its columns on the version it finds then; an inserted or updated *)
(* foreign key holds off the deletion of the row it names.  TerritoryCam-  *)
(* paigns has the same requests one after the other, with their dates and  *)
(* options; here the options are Pause, endCloseCampaign and Resume (the   *)
(* defaults of the schema), an attribution is open, suspended or returned, *)
(* and an action is one statement, or the reads of one check.              *)
(***************************************************************************)
EXTENDS Integers, FiniteSets

CONSTANTS
    Transactions,   \* connections that run requests
    Publishers, Territories, Campaigns, Attributions,
    None,
    Windows,        \* the <<startDate, endDate>> a manager enters
    Scopes,         \* the selections a manager enters; {} means every territory
    MaxDay,         \* bound: the last day of the calendar
    Kinds,          \* the requests that occur: which of RequestKinds
    startAutoReassign,
    InitialCampaigns, InitialAttributions   \* the committed tables of the first day

RequestKinds == {"sweep", "create", "edit", "end", "delete", "assign", "resume"}

CampaignRow ==
    [ startDate : 0..MaxDay, endDate : 0..MaxDay, scope : SUBSET Territories,
      status : {"scheduled", "active", "ended"} ]

AttributionRow ==
    [ publisherId : Publishers, territoryId : Territories, open : BOOLEAN,
      campaignId : Campaigns \cup {None}, pausedByCampaignId : Campaigns \cup {None} ]

ASSUME ConcurrencyAssumption ==
    /\ MaxDay \in Nat /\ Kinds \subseteq RequestKinds /\ startAutoReassign \in BOOLEAN
    /\ Windows \subseteq (0..MaxDay) \X (0..MaxDay) /\ Scopes \subseteq SUBSET Territories
    /\ InitialCampaigns \subseteq [Campaigns -> CampaignRow \cup {None}]
    /\ InitialAttributions \subseteq [Attributions -> AttributionRow \cup {None}]
    /\ None \notin Campaigns \cup CampaignRow \cup AttributionRow

VARIABLES
    today,
    campaign,      \* the committed rows
    attribution,
    campaignW,     \* campaignW[x]: the rows transaction x wrote and holds locked
    attributionW,
    tx             \* tx[x]: where transaction x is, and what it remembers

vars == <<today, campaign, attribution, campaignW, attributionW, tx>>

\* Functions on a part of K.
Partial(K, R) == UNION { [S -> R] : S \in SUBSET K }

\* What a transaction remembers between two statements.
Memory ==
    [ at : {"idle", "due", "activate", "pick", "pause", "carry", "insert", "over", "ending",
            "close", "release", "update", "replace", "create", "delete", "resume", "commit"},
      kind : RequestKinds,
      seen : Partial(Campaigns, CampaignRow),  \* the campaign objects it read
      c : Campaigns \cup {None},               \* the campaign it works on
      area : SUBSET Territories,               \* the territories of the transition
      scope : SUBSET Territories,              \* the scope to be saved
      rows : SUBSET Attributions,              \* the ids a findMany returned
      new : AttributionRow \cup {None},        \* the row to be inserted
      fresh : CampaignRow \cup {None} ]        \* the campaign to be inserted

Nothing == [k \in {} |-> None]
Idle == [at |-> "idle", kind |-> "sweep", seen |-> Nothing, c |-> None, area |-> {}, scope |-> {},
         rows |-> {}, new |-> None, fresh |-> None]

Init ==
    /\ today = 0
    /\ campaign \in InitialCampaigns
    /\ attribution \in InitialAttributions
    /\ campaignW = [x \in Transactions |-> Nothing]
    /\ attributionW = [x \in Transactions |-> Nothing]
    /\ tx = [x \in Transactions |-> Idle]

-----------------------------------------------------------------------------
(* READ COMMITTED.                                                         *)

Over(table, written) ==
    [k \in DOMAIN table |-> IF k \in DOMAIN written THEN written[k] ELSE table[k]]

Camp(x) == Over(campaign, campaignW[x])
Att(x) == Over(attribution, attributionW[x])

Others(x) == Transactions \ {x}
CampaignFree(x, c) == \A y \in Others(x) : c \notin DOMAIN campaignW[y]
AttributionFree(x, a) == \A y \in Others(x) : a \notin DOMAIN attributionW[y]

Refs(row) == IF row = None THEN {} ELSE {row.campaignId, row.pausedByCampaignId} \ {None}

Begun(version) == version # None /\ version.status # "scheduled"

\* On the first day the attributions name campaigns that have begun.
ASSUME InitialReferencesAssumption ==
    \A camp \in InitialCampaigns, att \in InitialAttributions :
        \A a \in Attributions : \A c \in Refs(att[a]) : Begun(camp[c])

\* The foreign keys of Attribution: the campaigns named exist and nobody is
\* deleting them; a campaign that is named, also by a row not yet committed,
\* cannot be deleted.
KeysHold(x, row) ==
    \A c \in Refs(row) :
        /\ Camp(x)[c] # None
        /\ \A y \in Others(x) : c \in DOMAIN campaignW[y] => campaignW[y][c] # None

Unreferenced(x, c) ==
    /\ \A a \in Attributions : c \notin Refs(Att(x)[a])
    /\ \A y \in Others(x) : \A a \in DOMAIN attributionW[y] : c \notin Refs(attributionW[y][a])

\* What transaction x writes, on top of what it wrote before.
Put(old, new) ==
    [k \in DOMAIN old \cup DOMAIN new |-> IF k \in DOMAIN new THEN new[k] ELSE old[k]]

WriteCampaign(x, c, row) ==
    campaignW' = [campaignW EXCEPT ![x] = Put(@, [k \in {c} |-> row])]

WriteAttributions(x, rows) == attributionW' = [attributionW EXCEPT ![x] = Put(@, rows)]

At(x, place) == tx[x].at = place
Go(x, memory) == tx' = [tx EXCEPT ![x] = memory]
Reads == UNCHANGED <<today, campaign, attribution, campaignW, attributionW>>
WritesCampaign == UNCHANGED <<today, campaign, attribution, attributionW>>
WritesAttributions == UNCHANGED <<today, campaign, attribution, campaignW>>

-----------------------------------------------------------------------------
(* The queries.                                                            *)

Effective(scope) == IF scope = {} THEN Territories ELSE scope

DueToActivate(camp) ==
    { c \in Campaigns : camp[c] # None /\ camp[c].status = "scheduled" /\ camp[c].startDate <= today }

DueToEnd(camp) ==
    { c \in Campaigns : camp[c] # None /\ camp[c].status = "active" /\ camp[c].endDate < today }

Active(camp) == { c \in Campaigns : camp[c] # None /\ camp[c].status = "active" }

Suspended(row) == row.pausedByCampaignId # None
Worked(row) == row.open /\ ~Suspended(row)

OpenRegulars(att, S) ==
    { a \in Attributions : /\ att[a] # None /\ Worked(att[a])
                           /\ att[a].campaignId = None /\ att[a].territoryId \in S }

OpenWorkOf(att, c, S) ==
    { a \in Attributions : /\ att[a] # None /\ att[a].open
                           /\ att[a].campaignId = c /\ att[a].territoryId \in S }

OpenPausedBy(att, c, S) ==
    { a \in Attributions : /\ att[a] # None /\ att[a].open
                           /\ att[a].pausedByCampaignId = c /\ att[a].territoryId \in S }

WindowTaken(camp, s, e) ==
    \E d \in Campaigns : camp[d] # None /\ s <= camp[d].endDate /\ camp[d].startDate <= e

\* Mutant: a worked territory is taken into the campaign a second time.
MayAssignWorked(camp, att, p, t, layer) ==
    /\ IF layer = None THEN Active(camp) = {} ELSE layer \in Active(camp)
    /\ ~\E a \in Attributions :
          /\ att[a] # None /\ att[a].open
          /\ att[a].publisherId = p /\ att[a].territoryId = t /\ att[a].campaignId = layer

\* The checks of "assign": the layer is that of the active campaign it reads, a
\* worked territory stays out of a campaign, and the pair has no open row in the
\* layer (returned rows lie in the past).
MayAssign(camp, att, p, t, layer) ==
    /\ IF layer = None THEN Active(camp) = {} ELSE layer \in Active(camp)
    /\ layer # None =>
          ~\E a \in Attributions : att[a] # None /\ att[a].territoryId = t /\ Worked(att[a])
    /\ ~\E a \in Attributions :
          /\ att[a] # None /\ att[a].open
          /\ att[a].publisherId = p /\ att[a].territoryId = t /\ att[a].campaignId = layer

NewAttribution(p, t, layer) ==
    [publisherId |-> p, territoryId |-> t, open |-> TRUE, campaignId |-> layer,
     pausedByCampaignId |-> None]

-----------------------------------------------------------------------------
(* The sweep.  The campaigns are read once and worked off as read; a sweep *)
(* that finds none changes nothing and is left out.                        *)

Snapshot(camp, cs) == [c \in cs |-> camp[c]]
Forget(seen, c) == [d \in DOMAIN seen \ {c} |-> seen[d]]

BeginSweep(x) ==
    /\ "sweep" \in Kinds /\ At(x, "idle")
    /\ DueToActivate(Camp(x)) \cup DueToEnd(Camp(x)) # {}
    /\ Go(x, [Idle EXCEPT !.at = "due", !.kind = "sweep"])
    /\ Reads

FindDue(x) ==
    /\ At(x, "due")
    /\ Go(x, [Idle EXCEPT !.at = "activate", !.kind = "sweep",
                          !.seen = Snapshot(Camp(x), DueToActivate(Camp(x)))])
    /\ Reads

\* Mutant: the stamp also clears the end.
MarkActivatedAnew(x, c) ==
    /\ At(x, "activate") /\ c \in DOMAIN tx[x].seen
    /\ CampaignFree(x, c) /\ Camp(x)[c] # None
    /\ WriteCampaign(x, c, [Camp(x)[c] EXCEPT !.status = "active"])
    /\ Go(x, [tx[x] EXCEPT !.at = "pick", !.c = c, !.seen = Forget(@, c),
                           !.area = Effective(tx[x].seen[c].scope)])
    /\ WritesCampaign

\* activateCampaign: the stamp comes first.  It sets activatedAt on the version
\* it finds, so an ended campaign stays ended.
MarkActivated(x, c) ==
    /\ At(x, "activate") /\ c \in DOMAIN tx[x].seen
    /\ CampaignFree(x, c) /\ Camp(x)[c] # None
    /\ WriteCampaign(x, c, [Camp(x)[c] EXCEPT !.status = IF @ = "scheduled" THEN "active" ELSE @])
    /\ Go(x, [tx[x] EXCEPT !.at = "pick", !.c = c, !.seen = Forget(@, c),
                           !.area = Effective(tx[x].seen[c].scope)])
    /\ WritesCampaign

\* pauseOpenRegulars: the ids are read, then written.
FindRegulars(x) ==
    /\ At(x, "pick")
    /\ Go(x, [tx[x] EXCEPT !.at = "pause", !.rows = OpenRegulars(Att(x), tx[x].area)])
    /\ Reads

PauseRows(x) ==
    LET rows == { a \in tx[x].rows : Att(x)[a] # None }
    IN  /\ At(x, "pause")
        /\ \A a \in rows : AttributionFree(x, a)
        /\ WriteAttributions(x, [a \in rows |->
              [Att(x)[a] EXCEPT !.pausedByCampaignId = tx[x].c]])
        /\ Go(x, [tx[x] EXCEPT !.at = IF startAutoReassign THEN "carry" ELSE "over", !.rows = rows])
        /\ WritesAttributions

\* _reassignIntoCampaign: the checks of one row; a conflict is swallowed.
CarryOver(x, a) ==
    LET row == Att(x)[a]
    IN  /\ At(x, "carry") /\ a \in tx[x].rows
        /\ IF MayAssign(Camp(x), Att(x), row.publisherId, row.territoryId, tx[x].c)
           THEN Go(x, [tx[x] EXCEPT !.at = "insert", !.rows = @ \ {a},
                         !.new = NewAttribution(row.publisherId, row.territoryId, tx[x].c)])
           ELSE Go(x, [tx[x] EXCEPT !.rows = @ \ {a}])
        /\ Reads

InsertAttribution(x, a) ==
    /\ At(x, "insert")
    /\ attribution[a] = None /\ a \notin UNION { DOMAIN attributionW[y] : y \in Transactions }
    /\ KeysHold(x, tx[x].new)
    /\ WriteAttributions(x, [k \in {a} |-> tx[x].new])
    /\ Go(x, [tx[x] EXCEPT !.at = IF tx[x].kind = "assign" THEN "commit" ELSE "carry", !.new = None])
    /\ WritesAttributions

CarriedOver(x) ==
    /\ At(x, "carry") /\ tx[x].rows = {}
    /\ Go(x, [tx[x] EXCEPT !.at = "over"])
    /\ Reads

\* The start behaviour is over: the next campaign, or the other half of the edit.
NextActivation(x) ==
    /\ \/ At(x, "over") /\ tx[x].kind = "sweep"
       \/ At(x, "activate") /\ DOMAIN tx[x].seen = {}
    /\ IF DOMAIN tx[x].seen # {}
       THEN Go(x, [tx[x] EXCEPT !.at = "activate"])
       ELSE Go(x, [tx[x] EXCEPT !.at = "ending",
                                !.seen = Snapshot(Camp(x), DueToEnd(Camp(x)))])
    /\ Reads

\* endCampaign: the stamp, then the end behaviour on every territory.
MarkEnded(x, c) ==
    /\ At(x, "ending") /\ c \in DOMAIN tx[x].seen
    /\ CampaignFree(x, c) /\ Camp(x)[c] # None
    /\ WriteCampaign(x, c, [Camp(x)[c] EXCEPT !.status = "ended"])
    /\ Go(x, [tx[x] EXCEPT !.at = "close", !.c = c, !.seen = Forget(@, c), !.area = Territories])
    /\ WritesCampaign

\* The rows to close and to release are read and written in one step: what a
\* resume changes between the two is what the write sets.
CloseWork(x) ==
    LET rows == OpenWorkOf(Att(x), tx[x].c, tx[x].area)
    IN  /\ At(x, "close")
        /\ \A a \in rows : AttributionFree(x, a)
        /\ WriteAttributions(x, [a \in rows |-> [Att(x)[a] EXCEPT !.open = FALSE]])
        /\ Go(x, [tx[x] EXCEPT !.at = "release"])
        /\ WritesAttributions

ReleaseRows(x) ==
    LET rows == OpenPausedBy(Att(x), tx[x].c, tx[x].area)
    IN  /\ At(x, "release")
        /\ \A a \in rows : AttributionFree(x, a)
        /\ WriteAttributions(x, [a \in rows |-> [Att(x)[a] EXCEPT !.pausedByCampaignId = None]])
        /\ Go(x, [tx[x] EXCEPT !.at = IF tx[x].kind = "edit" THEN "replace" ELSE "ending"])
        /\ WritesAttributions

Finish(x) ==
    /\ At(x, "ending") /\ DOMAIN tx[x].seen = {}
    /\ Go(x, [tx[x] EXCEPT !.at = "commit"])
    /\ Reads

-----------------------------------------------------------------------------
(* The requests.                                                           *)

\* routes/campaigns/new: the windows are read, the row is inserted, the sweep runs.
BeginCreate(x, w, scope) ==
    /\ "create" \in Kinds /\ At(x, "idle")
    /\ ~WindowTaken(Camp(x), w[1], w[2])
    /\ Go(x, [Idle EXCEPT !.at = "create", !.kind = "create",
                !.fresh = [startDate |-> w[1], endDate |-> w[2], scope |-> scope,
                           status |-> "scheduled"]])
    /\ Reads

\* The identity comes from a sequence: a deleted campaign's is given again only
\* when no transaction can tell the difference.
Remembered(y) == {tx[y].c} \cup DOMAIN tx[y].seen \cup Refs(tx[y].new)

InsertCampaign(x, c) ==
    /\ At(x, "create")
    /\ campaign[c] = None /\ CampaignFree(x, c)
    /\ \A y \in Others(x) : c \notin Remembered(y)
    /\ WriteCampaign(x, c, tx[x].fresh)
    /\ Go(x, [Idle EXCEPT !.at = "due"])
    /\ WritesCampaign

\* routes/campaigns/edit: the campaign is read, updated, its scope change is
\* worked off on what was read, the scope is replaced and the sweep runs.
BeginEdit(x, c, scope) ==
    /\ "edit" \in Kinds /\ At(x, "idle")
    /\ Camp(x)[c] # None
    /\ Go(x, [Idle EXCEPT !.at = "update", !.kind = "edit", !.c = c, !.scope = scope,
                          !.seen = Snapshot(Camp(x), {c})])
    /\ Reads

UpdateCampaign(x) ==
    LET c == tx[x].c
        old == tx[x].seen[c]
    IN  /\ At(x, "update")
        /\ CampaignFree(x, c) /\ Camp(x)[c] # None
        /\ WriteCampaign(x, c, Camp(x)[c])
        /\ Go(x, [tx[x] EXCEPT !.at = IF old.status = "active" THEN "pick" ELSE "replace",
                               !.area = Effective(tx[x].scope) \ Effective(old.scope)])
        /\ WritesCampaign

TurnToRemoved(x) ==
    /\ At(x, "over") /\ tx[x].kind = "edit"
    /\ Go(x, [tx[x] EXCEPT !.at = "close",
                 !.area = Effective(tx[x].seen[tx[x].c].scope) \ Effective(tx[x].scope)])
    /\ Reads

ReplaceScope(x) ==
    LET c == tx[x].c
    IN  /\ At(x, "replace")
        /\ WriteCampaign(x, c, [Camp(x)[c] EXCEPT !.scope = tx[x].scope])
        /\ Go(x, [Idle EXCEPT !.at = "due"])
        /\ WritesCampaign

\* routes/campaigns/view: endCampaign on the campaign that was read.
BeginEnd(x, c) ==
    /\ "end" \in Kinds /\ At(x, "idle")
    /\ c \in Active(Camp(x))
    /\ Go(x, [Idle EXCEPT !.at = "ending", !.kind = "end", !.seen = Snapshot(Camp(x), {c})])
    /\ Reads

\* deleteCampaign: the count, then the delete under the foreign keys.
BeginDelete(x, c) ==
    /\ "delete" \in Kinds /\ At(x, "idle")
    /\ Camp(x)[c] # None /\ c \notin Active(Camp(x))
    /\ \A a \in Attributions : c \notin Refs(Att(x)[a])
    /\ Go(x, [Idle EXCEPT !.at = "delete", !.kind = "delete", !.c = c])
    /\ Reads

\* Mutant: relations without a foreign key, the count alone stands guard.
DeleteRowUnguarded(x) ==
    LET c == tx[x].c
    IN  /\ At(x, "delete")
        /\ CampaignFree(x, c) /\ Camp(x)[c] # None
        /\ WriteCampaign(x, c, None)
        /\ Go(x, [tx[x] EXCEPT !.at = "commit"])
        /\ WritesCampaign

DeleteRow(x) ==
    LET c == tx[x].c
    IN  /\ At(x, "delete")
        /\ CampaignFree(x, c) /\ Camp(x)[c] # None /\ Unreferenced(x, c)
        /\ WriteCampaign(x, c, None)
        /\ Go(x, [tx[x] EXCEPT !.at = "commit"])
        /\ WritesCampaign

\* routes/attributions/new: the active campaign is read, the checks of "assign"
\* are made, and the row is inserted.
BeginAssign(x, p, t, layer) ==
    /\ "assign" \in Kinds /\ At(x, "idle")
    /\ MayAssign(Camp(x), Att(x), p, t, layer)
    /\ Go(x, [Idle EXCEPT !.at = "insert", !.kind = "assign", !.new = NewAttribution(p, t, layer)])
    /\ Reads

\* routes/attributions/resume: the pause is read, then lifted by id.
BeginResume(x, a) ==
    /\ "resume" \in Kinds /\ At(x, "idle")
    /\ Att(x)[a] # None /\ Suspended(Att(x)[a])
    /\ Go(x, [Idle EXCEPT !.at = "resume", !.kind = "resume", !.rows = {a}])
    /\ Reads

LiftPause(x) ==
    LET rows == tx[x].rows
    IN  /\ At(x, "resume")
        /\ \A a \in rows : AttributionFree(x, a) /\ Att(x)[a] # None
        /\ WriteAttributions(x, [a \in rows |-> [Att(x)[a] EXCEPT !.pausedByCampaignId = None]])
        /\ Go(x, [tx[x] EXCEPT !.at = "commit"])
        /\ WritesAttributions

-----------------------------------------------------------------------------
(* The end of a transaction.                                               *)

Release(x) ==
    /\ campaignW' = [campaignW EXCEPT ![x] = Nothing]
    /\ attributionW' = [attributionW EXCEPT ![x] = Nothing]
    /\ Go(x, Idle)

Commit(x) ==
    /\ At(x, "commit")
    /\ campaign' = Camp(x)
    /\ attribution' = Att(x)
    /\ Release(x)
    /\ UNCHANGED today

\* A failed check, a missing row, a deadlock victim, the timeout of the
\* transaction, a lost connection: nothing stays.
Rollback(x) ==
    /\ ~At(x, "idle")
    /\ Release(x)
    /\ UNCHANGED <<today, campaign, attribution>>

\* Requests take seconds; one that runs over midnight is left out.
NextDay ==
    /\ \A x \in Transactions : At(x, "idle")
    /\ today < MaxDay
    /\ today' = today + 1
    /\ UNCHANGED <<campaign, attribution, campaignW, attributionW, tx>>

Begin(x) ==
    \/ BeginSweep(x)
    \/ \E scope \in Scopes :
          \/ \E w \in Windows : BeginCreate(x, w, scope)
          \/ \E c \in Campaigns : BeginEdit(x, c, scope)
    \/ \E c \in Campaigns : BeginEnd(x, c) \/ BeginDelete(x, c)
    \/ \E p \in Publishers, t \in Territories, layer \in Campaigns \cup {None} :
          BeginAssign(x, p, t, layer)
    \/ \E a \in Attributions : BeginResume(x, a)

Statement(x) ==
    \/ FindDue(x) \/ FindRegulars(x) \/ PauseRows(x) \/ CarriedOver(x) \/ NextActivation(x)
    \/ CloseWork(x) \/ ReleaseRows(x) \/ Finish(x)
    \/ \E c \in Campaigns : MarkActivated(x, c) \/ MarkEnded(x, c) \/ InsertCampaign(x, c)
    \/ \E a \in Attributions : CarryOver(x, a) \/ InsertAttribution(x, a)
    \/ UpdateCampaign(x) \/ TurnToRemoved(x) \/ ReplaceScope(x)
    \/ DeleteRow(x) \/ LiftPause(x)

Next ==
    \/ \E x \in Transactions : Begin(x) \/ Statement(x) \/ Commit(x) \/ Rollback(x)
    \/ NextDay

Spec == Init /\ [][Next]_vars

-----------------------------------------------------------------------------
(* Properties of the committed tables.                                     *)

\* The tables keep to the schema, also what is not yet committed.
TypeOK ==
    /\ today \in 0..MaxDay
    /\ campaign \in [Campaigns -> CampaignRow \cup {None}]
    /\ attribution \in [Attributions -> AttributionRow \cup {None}]
    /\ campaignW \in [Transactions -> Partial(Campaigns, CampaignRow \cup {None})]
    /\ attributionW \in [Transactions -> Partial(Attributions, AttributionRow)]
    /\ tx \in [Transactions -> Memory]

\* A row that works or is suspended in the name of a campaign names one that
\* exists and has begun, whatever deleteCampaign raced with: its count may be
\* out of date when it deletes, the foreign keys may not.
ReferencesHold ==
    \A a \in Attributions : \A c \in Refs(attribution[a]) : Begun(campaign[c])

\* A campaign that has ended stays ended, also when a sweep that read it as due
\* stamps it after it was activated and ended by others.
EndedStaysEnded ==
    [][\A c \in Campaigns : campaign[c] # None /\ campaign[c].status = "ended" =>
          campaign'[c] = None \/ campaign'[c].status = "ended"]_vars

\* The start behaviour of two sweeps, and of a sweep and a scope edit, never
\* carries one territory into campaigns twice: the later one waits for the
\* stamp, or for the rows, and its checks then see the work of the earlier one.
CarriedOnce ==
    \A a, b \in Attributions :
        a # b /\ attribution[a] # None /\ attribution[b] # None =>
           ~(/\ attribution[a].open /\ attribution[a].campaignId # None
             /\ attribution[b].open /\ attribution[b].campaignId # None
             /\ attribution[a].territoryId = attribution[b].territoryId)
=============================================================================
