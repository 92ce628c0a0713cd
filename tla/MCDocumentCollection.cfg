CONSTANTS
    Docs = {d1, d2, d3, d4}
    Inserters = {w1, w2}
    Asserts = TRUE
    MaxBatch = 2
    MaxFaults = 2
    MaxCrashes = 1
SPECIFICATION Spec
SYMMETRY Symmetry
INVARIANTS
    IndexedAsMapped StoredIdsNameTheDeleted InsertedAreFound DeletedStayDeleted RowsCanBeFetched
PROPERTY ImplementsDocumentStore
