CONSTANTS
    small = small
    Blobs = {small, huge}
    Oversized = {huge}
    Size <- MCSize
    Estimate <- MCEstimate
    MaxDataFileSize = 3
    MaxFileKey = 2
    MaxBatch = 2
    MaxAcked = 3
    MaxFaults = 0
    MaxCrashes = 0
SPECIFICATION Spec
INVARIANT CommittedFlushed
