SPECIFICATION Spec
CONSTANTS
    Nums <- MCNums
    Len <- MCLen
    Window <- MCWindow
    MaxTrailers <- MCMaxTrailers
    Files <- MCFiles
INVARIANTS
    NewestWins
    FirstListedWins
    
PROPERTIES
    LoadEnds
CHECK_DEADLOCK FALSE
