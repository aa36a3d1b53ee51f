\* Two reports in three months, with one of three missed months unreported.
CONSTANTS
    Horizon = 4
    MaxReports = 2
    Threshold = 3
    Never = Never

SPECIFICATION ReportsSpec

PROPERTIES
    OnlyEntriesCount

CHECK_DEADLOCK FALSE
