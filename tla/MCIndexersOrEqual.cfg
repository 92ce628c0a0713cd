CONSTANTS
    Columns <- MCColumns
    Type <- MCType
    Kind <- MCKind
    Width = 2
    Blobs <- MCBlobs
    Documents <- MCDocuments
    Queries <- DoubleQueries
    MaxDocs = 1
SPECIFICATION Spec
INVARIANT OperandIsIncluded
CHECK_DEADLOCK FALSE
