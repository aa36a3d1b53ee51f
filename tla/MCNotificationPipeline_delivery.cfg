\* Liveness: one caller at a time, overlapping runs of the cron, a job may die.
CONSTANTS
    Callers = {x1}
    Guarded = {x1}
    Crons = {y1, y2}
    Keys = {k1}
    digestOf <- OneDigest
    Types = {"assigned", "unassigned"}
    routing <- AssignmentRouting
    None = None
    MaxRows = 2
    MaxDigests = 2
    MaxInstants = 1
    BatchSize = 1
    Attempts = 1
    MaxFaults = 1

SPECIFICATION Spec

PROPERTIES
    EveryRowIsAnswered

CHECK_DEADLOCK FALSE
