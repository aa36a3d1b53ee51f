\* Two callers, overlapping runs of the cron, retries and one fault.
CONSTANTS
    Callers = {x1, x2}
    Guarded = {x1, x2}
    Crons = {y1, y2}
    Keys = {k1}
    digestOf <- OneDigest
    Types = {"created", "updated", "deleted"}
    routing <- BoardRouting
    None = None
    MaxRows = 2
    MaxDigests = 2
    MaxInstants = 1
    BatchSize = 2
    Attempts = 2
    MaxFaults = 1

SPECIFICATION Spec
SYMMETRY AllSymmetry

INVARIANTS
    TypeOK
    ExtraMailsNeedFaults
    NothingSentIsLost
    OnePendingPerKey

PROPERTIES
    KeepsPromises
    RetractionLeavesNothing

CHECK_DEADLOCK FALSE
