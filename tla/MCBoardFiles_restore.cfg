\* One request at a time: a document is uploaded, replaced and restored.
CONSTANTS
    d1 = d1
    f1 = f1
    a1 = a1
    Connections = {x1}
    Documents = {d1}
    Pdfs = {f1, f2}
    Jobs = {j1, j2, j3}
    Authors = {a1}
    Editors = {a1}
    Attempts = 1
    MaxVersion = 3
    FirstDays <- NoDocument
    BoardKinds = {"create", "replace", "restore"}
    Absent = Absent
    Gone = Gone

SPECIFICATION BoardSpec

PROPERTIES
    RestoreBringsBack

CHECK_DEADLOCK FALSE
