SPECIFICATION Spec
CONSTANTS
    MaxBracket = 1
    MaxDepth = 2
    Byte = 4
    Radix = 4
    Ascii = 4
    Hex = 2
    Unit = 7
    Replacement = 6
    Standard <- MCStandard
    PdfDoc <- MCPdfDoc
    Limit <- MCLimit
    StringChars <- MCStringChars
    NameChars <- MCNameChars
    StreamChars <- MCStreamChars
    Leaves <- MCLeaves
    EntrySet <- MCEntrySet
    Encoded <- MCEncoded
    Mappings <- MCMappings
    DiffItems <- MCDiffItems
    MaxReconstructed = 2
    Bodies <- MCBodies
INVARIANTS
    ObjectsReadBack
    StreamsReadBack
    EntriesReadBack
    FiltersExact
    TextReadsBack
CHECK_DEADLOCK FALSE
