CONSTANTS
    v1 = v1
    v2 = v2
    NoVal = NoVal
    Vals <- MCVals
    Gens = {0, 1}
    MaxObjectsPerStream = 2
    InitialFiles <- MCInitialFiles
    InitialXrefTypes = {"table", "stream"}
    NewObjects <- MCNewObjects
    NewValues <- MCNewValues
    IdLimit = 6
    EditLimit = 4
SPECIFICATION Spec
CHECK_DEADLOCK FALSE
INVARIANTS
    SavedFilesConform
    ReloadRestores
    SizeCoversEntries
PROPERTY
    DanglingStaysDangling
