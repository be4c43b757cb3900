SPECIFICATION Spec
CONSTANTS
    Vals <- MCVals
    NoVal <- MCNoVal
    Gens <- MCGens
    Sources <- MCSources
    Workers = {w1, w2}
INVARIANTS
    LoadedAsLocated
PROPERTIES
    KeepsPromise
    LoadEnds
CHECK_DEADLOCK FALSE
