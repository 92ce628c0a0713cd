CONSTANTS
    AllSchemas <- MCSchemas
    MaxDepth = 3
    MaxIndexes = 2
    MaxDocs = 2
    Asserts = TRUE
SPECIFICATION DocumentsSpec
INVARIANT NeverOverflows
CHECK_DEADLOCK FALSE
