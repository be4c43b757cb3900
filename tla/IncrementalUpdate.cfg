SPECIFICATION Spec
CONSTANTS
    v1 = v1
    v2 = v2
    NoVal = NoVal
    Vals <- MCVals
    Gens = {0, 1}
    InitialFiles <- MCFiles
    NewObjects <- MCNewObjects
    OpLimit = 5
    RevisionLimit = 3
INVARIANTS
    UpdateReloads
    PlainInMemory
PROPERTIES
    NewIdsUnused
CHECK_DEADLOCK FALSE
