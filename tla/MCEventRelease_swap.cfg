\* One desk; a member is eligible as speaker and as reader.
CONSTANTS
    ann = ann
    bob = bob
    cat = cat
    eve = eve
    talk = talk
    Desks = {x1}
    Parts = {talk}
    Members = {ann, bob}
    speakers <- SharedSpeakers
    readers <- SharedReaders
    Accounts = {ann, bob}
    Absences <- NoAbsences
    Days = {0}
    None = None
    MaxFaults = 0

SPECIFICATION Spec

INVARIANTS
    CurrentAssigneesAreTold
