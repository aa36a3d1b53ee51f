\* Two desks, any request beside any other: mails of members with an account, one of
\* them eligible as speaker and as reader; and absences of a speaker and the reader.
CONSTANTS
    ann = ann
    bob = bob
    cat = cat
    eve = eve
    talk = talk
    Desks = {x1, x2}
    Parts = {talk}
    Members = {ann, bob, cat, eve}
    speakers <- AllSpeakers
    readers <- AllReaders
    Accounts = {ann, bob}
    Absences <- SomeAbsences
    Days = {0, 1, 2}
    None = None
    MaxFaults = 1

SPECIFICATION EventSpec
SYMMETRY DeskSymmetry

INVARIANTS
    NobodyIsForgotten
    OnlyAssigneesAreTold
    ConflictFlagsHold

PROPERTIES
    NoAbsenceIsPublished
