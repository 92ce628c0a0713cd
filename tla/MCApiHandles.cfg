CONSTANTS
    Kinds = {"Options", "IndexInfo", "Buffer", "ResultSet"}
    Vars = {v1, v2, v3}
    Contents = {"a", "b"}
    MaxMade = 4
    v1 = v1
    v2 = v2
    v3 = v3
SYMMETRY Symmetric
SPECIFICATION ApiSpec
INVARIANTS
    HandlesAreOwned ObjectsAreValues ErrorsArriveAsThrown
