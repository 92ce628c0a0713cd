CONSTANTS
    DBs = {d1, d2}
    DBName <- OneName
    ConnStr <- TwoConnStrs
    Names = {n1, n2}
    Slots = {1, 2}
    PoolSize = 1
    PoolCapacity = 1
    MaxOpen = 1
    MaxMade = 4
    d1 = d1
    d2 = d2
    n1 = n1
    n2 = n2
SPECIFICATION Spec
INVARIANTS
    CollectionsAgree SharedWithTheDatabase StoredWholeOrNotAtAll
