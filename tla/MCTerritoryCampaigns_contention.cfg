\* Two publishers, two territories, one campaign whose scope changes.
CONSTANTS
    Publishers = {p1, p2}
    Territories = {t1, t2}
    Campaigns = {c1}
    Attributions = {a1, a2, a3}
    None = None
    MaxDay = 1
    Duration = 1
    Windows <- ContentionWindows
    StartOptions <- ContentionStart
    EndOptions <- ContentionEnd
    Scopes <- ScopeChoices
    AssignDays = {0}
    ReturnDays = {1}
    DueDays = {1}

SPECIFICATION Spec
SYMMETRY IdSymmetry

INVARIANTS
    LayersNeverOverlap
    TerritoryWorkedOnce
    PausesHaveOwners
PROPERTIES
    NobodyRetroactivelyLate
    ScopeEditMovesWork
    EndCleansUp
