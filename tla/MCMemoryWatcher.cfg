CONSTANTS
    r1 = r1
    r2 = r2
    Readers = {r1, r2}
    FirstFile = 1
    LastFile = 2
    MaxCacheSize = 2
    MaxUses = 5
    NumCollections = 3
    Mine = 1
    MaxStatFailures = 1
SPECIFICATION Spec
INVARIANTS
    CurrentFileIsCached VictimsAreLeastRecentlyUsed
PROPERTIES
    EvictionLeavesMax RoundRobin CloseEnds CacheShrinks
