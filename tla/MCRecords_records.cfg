\* Two requests at a time on a member with two stints; up to three reports in five
\* months; up to four rows of a member who is imported; and two requests at a time on
\* a document that is uploaded three times and drawn twice.
CONSTANTS
    Desks = {x, y}
    Stints = {i1, i2}
    LastMonth = 1
    MaxOverlaps = 1
    None = None
    Horizon = 4
    MaxReports = 3
    Threshold = 2
    Never = Never
    LastReport = 2
    MaxActivities = 4
    d1 = d1
    f1 = f1
    a1 = a1
    Connections = {x, y}
    Documents = {d1}
    Pdfs = {f1, f2, f3}
    Jobs = {i1, i2}
    Authors = {a1}
    Editors = {a2}
    Attempts = 1
    MaxVersion = 3
    FirstDays <- OneOrNone
    BoardKinds = {"create", "replace", "restore", "remove", "bulk"}
    Absent = Absent
    Gone = Gone

SPECIFICATION RecordsSpec
SYMMETRY Alike

INVARIANTS
    NoSharedMonth
    RolesFollow
    NobodyIsOverlooked
    BackfillTellsTheReports
    FilesStand
    LatestIsCurrent
    ThumbnailTells

PROPERTIES
    ReportsFlagByTheRule
    OwnerStays

CHECK_DEADLOCK FALSE
