CONSTANTS
    Docs = {d1, d2, d3}
    Inserters = {w1}
    Asserts = FALSE
    MaxBatch = 2
    MaxFaults = 1
    MaxCrashes = 0
SPECIFICATION Spec
SYMMETRY Symmetry
INVARIANT StoredIdsNameTheDeleted
