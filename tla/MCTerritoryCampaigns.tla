------------------------ MODULE MCTerritoryCampaigns ------------------------
(***************************************************************************)
(* Instances of TerritoryCampaigns for TLC.                                *)
(***************************************************************************)
EXTENDS TerritoryCampaigns, TLC

\* Option choices.
PauseOnly == [startRegularAction |-> "Pause", startAutoReassign |-> FALSE]
PauseAndReassign == [startRegularAction |-> "Pause", startAutoReassign |-> TRUE]
CloseRegulars == [startRegularAction |-> "Close", startAutoReassign |-> FALSE]
LeaveRegulars == [startRegularAction |-> "Leave", startAutoReassign |-> FALSE]

AutoResume == [endCloseCampaign |-> TRUE, endRegularAction |-> "Resume"]
ManualKeep == [endCloseCampaign |-> FALSE, endRegularAction |-> "KeepPaused"]
AutoClose == [endCloseCampaign |-> TRUE, endRegularAction |-> "Close"]

WholeScope == {{}}

\* Two campaigns one after the other, or one that is extended over the days of the other.
SuccessionWindows == {<<0, 0>>, <<1, 1>>}
SuccessionStart == {PauseAndReassign}
SuccessionEnd == {AutoResume, ManualKeep, AutoClose}

\* Two publishers, and a scope of two territories that grows and shrinks.
ContentionWindows == {<<0, 0>>}
ContentionStart == {PauseAndReassign, CloseRegulars, LeaveRegulars}
ContentionEnd == {AutoResume, ManualKeep}

\* The sweep between two campaigns.
PauseStart == {PauseOnly}
ResumeEnd == {AutoResume}

ScopeChoices == SUBSET Territories

IdSymmetry ==
    Permutations(Publishers) \cup Permutations(Territories)
        \cup Permutations(Campaigns) \cup Permutations(Attributions)
=============================================================================
