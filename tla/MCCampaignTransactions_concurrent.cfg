\* Two requests at a time: every one against every other one, or sweeps and scope edits
\* on a territory that two publishers hold.
CONSTANTS
    p1 = p1
    p2 = p2
    t1 = t1
    t2 = t2
    c1 = c1
    c2 = c2
    a1 = a1
    a2 = a2
    a3 = a3
    a4 = a4
    Transactions = {x, y}
    Publishers = {p1, p2}
    Territories = {t1, t2}
    Campaigns = {c1, c2}
    Attributions = {a1, a2, a3, a4}
    None = None
    MaxDay = 1
    Windows <- TwoWindows
    Scopes <- AnyScope
    Kinds = {"sweep", "create", "edit", "end", "delete", "assign", "resume"}
    startAutoReassign = TRUE
    InitialCampaigns <- DueOrRunning
    InitialAttributions <- OneOrTwoHolders

SPECIFICATION ConcurrentSpec
SYMMETRY TransactionSymmetry

INVARIANTS
    ReferencesHold
    CarriedOnce
PROPERTIES
    EndedStaysEnded
