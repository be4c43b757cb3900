SPECIFICATION Spec
CONSTANTS
    Gens = {0}
    DepthLimit = 1
    Documents <- MCDocuments
INVARIANTS
    LeavesInOrder
    PagesBounded
PROPERTIES
    WalkEnds
CHECK_DEADLOCK FALSE
