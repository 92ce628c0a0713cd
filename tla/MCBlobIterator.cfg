SPECIFICATION Spec
CONSTANTS
    Base = 4
    MaxVarintBytes = 10
    Expansion = 1
    MaxDataFileSize = 24
    Sizes <- MCSizes
    BatchSize = 2
    MaxBlobs = 4
INVARIANTS FileWithinMapping BlobsAreReadAsWritten
CHECK_DEADLOCK FALSE
