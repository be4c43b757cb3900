SPECIFICATION Spec
CONSTANTS
    v1 = v1
    NoVal = NoVal
    Vals <- MCVals
    States <- MCStates
    Numbers = {1, 2, 3, 4, 5, 6, 7}
    OpLimit = 7
INVARIANTS
    SealedOnceOrPlain
    FileIsConsistent
CHECK_DEADLOCK FALSE
