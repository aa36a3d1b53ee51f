\* One publisher, one territory, two campaigns; also liveness, so no symmetry.
CONSTANTS
    Publishers = {p1}
    Territories = {t1}
    Campaigns = {c1, c2}
    Attributions = {a1, a2}
    None = None
    MaxDay = 2
    Duration = 1
    Windows <- SuccessionWindows
    StartOptions <- SuccessionStart
    EndOptions <- SuccessionEnd
    Scopes <- WholeScope
    AssignDays = {0}
    ReturnDays = {}
    DueDays = {}

SPECIFICATION FairSpec

INVARIANTS
    OneActiveCampaign
PROPERTIES
    EndCleansUp
    CustodyKept
    PausedWorkIsReleased
