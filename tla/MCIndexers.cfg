CONSTANTS
    Columns <- MCColumns
    Type <- MCType
    Kind <- MCKind
    Width = 2
    Blobs <- MCBlobs
    Documents <- MCDocuments
    Queries <- MCQueries
    MaxDocs = 3
SPECIFICATION Spec
INVARIANT FilterIsSql
CHECK_DEADLOCK FALSE
