\* Two campaigns on consecutive days.
CONSTANTS
    Publishers = {p1}
    Territories = {t1}
    Campaigns = {c1, c2}
    Attributions = {a1, a2, a3}
    None = None
    MaxDay = 2
    Duration = 1
    Windows <- SuccessionWindows
    StartOptions <- PauseStart
    EndOptions <- ResumeEnd
    Scopes <- WholeScope
    AssignDays = {0}
    ReturnDays = {}
    DueDays = {}

SPECIFICATION Spec
SYMMETRY IdSymmetry

PROPERTIES
    PausedUnderActiveCampaign
