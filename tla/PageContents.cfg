SPECIFICATION Spec
CONSTANTS
    Packed = 1
    Overhead = 1
    JpegData <- MCJpeg
    Byte = 4
    Unit = 7
    Replacement = 6
    PdfDoc <- MCPdfDoc
    Sets <- MCSets
    Space = 8
    NewLine = 9
    Pages <- MCPages
    Documents <- MCDocuments
    Contents <- MCContents
    Searches <- MCSearches
    Default <- MCDefault
    Limits = {0, 1, 4, 7}
    MaxNesting = 2
    OpLimit = 2
INVARIANTS
    ContentsKept
    TextReplaced
    DrawnKept
    LimitsHold
CHECK_DEADLOCK FALSE
