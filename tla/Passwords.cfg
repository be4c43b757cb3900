SPECIFICATION Spec
CONSTANTS
    Chars <- MCChars
    PdfDoc <- MCPdfDoc
    Utf8 <- MCUtf8
    Prep <- MCPrep
    Prohibited <- MCProhibited
    Padding <- MCPadding
    MaxUtf8 = 4
    Rounds = 2
    Objects = {1, 2, 3}
    Strings = {2}
    Requests <- MCRequests
    Tries <- MCTries
    OpLimit = 4
INVARIANTS
    EitherOpens
    NobodyElseOpens
    ContentsRestored
CHECK_DEADLOCK FALSE
