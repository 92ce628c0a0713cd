CONSTANTS
    small = small
    Blobs = {small, large, huge}
    Oversized = {huge}
    Size <- MCSize
    Estimate <- MCEstimate
    MaxDataFileSize = 3
    MaxFileKey = 2
    MaxBatch = 2
    MaxAcked = 2
    MaxFaults = 0
    MaxCrashes = 1
SPECIFICATION Spec
INVARIANT AckedDurable
