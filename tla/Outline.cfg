SPECIFICATION Spec
CONSTANTS
    Pages <- MCPages
    Marks <- MCMarks
    WideTitles = {"w"}
    Foreign <- MCForeign
    MaxNesting = 2
    BookmarkLimit = 4
    OpLimit = 6
INVARIANTS
    TocIsOutline
    WellLinked
PROPERTIES
    ZeroPagesAdjusted
    
CHECK_DEADLOCK FALSE
