CONSTANTS
    Clients = {c1, c2, c3}
    Connections = {k1, k2, k3, k4}
    InitialSize = 1
    Capacity = 2
    MaxRows = 2
    MaxFailures = 1
SPECIFICATION Spec
SYMMETRY Symmetry
INVARIANTS
    FinalizeReturnsOk
