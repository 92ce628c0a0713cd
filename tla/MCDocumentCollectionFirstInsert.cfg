CONSTANTS
    Docs = {d1, d2, d3}
    Inserters = {w1}
    Asserts = TRUE
    MaxBatch = 2
    MaxFaults = 1
    MaxCrashes = 0
SPECIFICATION Spec
SYMMETRY Symmetry
INVARIANT DeletedIdsAreKnown
