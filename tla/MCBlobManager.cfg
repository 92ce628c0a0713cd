CONSTANTS
    small = small
    Blobs = {small, large}
    Oversized = {}
    Size <- MCSize
    Estimate <- MCEstimate
    MaxDataFileSize = 3
    MaxFileKey = 3
    MaxBatch = 2
    MaxAcked = 3
    MaxFaults = 1
    MaxCrashes = 1
SPECIFICATION Spec
INVARIANTS
    TypeOK AckedDurable CommittedTiled CommittedFlushed OpenableUnlessTorn ReloadKeepsOrder
PROPERTIES
    CommittedNeverRewritten ImplementsBlobLog
