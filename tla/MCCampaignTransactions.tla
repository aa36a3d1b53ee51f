----------------------- MODULE MCCampaignTransactions -----------------------
(***************************************************************************)
(* An instance of CampaignTransactions for TLC.  In some behaviours every  *)
(* request meets every other one on one publisher's row; in the others     *)
(* sweeps and scope edits meet on a territory that two publishers hold.    *)
(***************************************************************************)
EXTENDS CampaignTransactions, TLC

CONSTANTS p1, p2, t1, t2, c1, c2, a1, a2, a3, a4

\* The tables of the first day.
Planned(s, e, scope) == [startDate |-> s, endDate |-> e, scope |-> scope, status |-> "scheduled"]
Running(s, e, scope) == [startDate |-> s, endDate |-> e, scope |-> scope, status |-> "active"]
Regular(p, t) ==
    [publisherId |-> p, territoryId |-> t, open |-> TRUE, campaignId |-> None,
     pausedByCampaignId |-> None]

Rows(given, all) == [k \in all |-> IF k \in DOMAIN given THEN given[k] ELSE None]

\* One campaign that is due, or one that is due or already runs on one territory.
DueOrRunning ==
    { Rows(c1 :> row, Campaigns) :
        row \in {Planned(0, 0, {}), Planned(0, 0, {t1}), Running(0, 0, {t1})} }

\* One publisher with a regular row, or two who hold the other territory.
OneOrTwoHolders ==
    { Rows(a1 :> Regular(p1, t1), Attributions),
      Rows(a1 :> Regular(p1, t2) @@ a2 :> Regular(p2, t2), Attributions) }

TwoWindows == { <<0, 0>>, <<1, 1>> }
AnyScope == { {}, {t1}, {t1, t2} }

\* Bounds of the two kinds of behaviours.
Shared == \E a \in Attributions : attribution[a] # None /\ attribution[a].publisherId = p2
Carrying == { "sweep", "edit", "end", "resume" }

AllRequests(q) ==
    /\ q.scope = {}
    /\ q.fresh # None => q.fresh.scope = {}
    /\ q.new # None => q.new.publisherId = p1

CarryingRequests(q) == q.kind \in Carrying /\ (q.at = "update" => q.scope # {})

Bounded ==
    IF Shared THEN \A x \in Transactions : CarryingRequests(tx[x])
    ELSE /\ \A x \in Transactions : AllRequests(tx[x])
         /\ \A x \in Transactions : DOMAIN attributionW[x] \subseteq {a1, a2, a3}

ConcurrentInit == Init /\ (Shared <=> campaign[c1].scope # {})
ConcurrentNext == Next /\ Bounded'
ConcurrentSpec == ConcurrentInit /\ [][ConcurrentNext]_vars

TransactionSymmetry == Permutations(Transactions)
=============================================================================
