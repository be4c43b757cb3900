SPECIFICATION Spec
CONSTANTS
    Gens = {0, 1}
    DepthLimit = 2
    Documents <- MCDocuments
    MaxNesting = 4
    Starts = {1, 4}
    OpLimit = 3
INVARIANT
    LiveRefsResolve
PROPERTIES
    NothingLost
    PagesKeepOrder
    PagesDeletedAsNumbered
    BookmarksFollow
CHECK_DEADLOCK FALSE
