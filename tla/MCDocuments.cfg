CONSTANTS
    AllSchemas <- MCSchemas
    MaxDepth = 3
    MaxIndexes = 2
    MaxDocs = 2
    Asserts = TRUE
SPECIFICATION DocumentsSpec
INVARIANTS
    ColumnsAreTheReadable ColumnIsOfTheDocument IndexedAsParsed
PROPERTY WalkEnds
CHECK_DEADLOCK FALSE
