SPECIFICATION BufSpec
CONSTANTS
    BlockSize = 3
    MaxBlockNo = 2
    PushSizes = {0, 1, 2, 3, 8}
    PullSizes = {1, 2, 4}
    MaxBytes = 14
CHECK_DEADLOCK FALSE
INVARIANTS
    WellFormed
    CopyWhole
PROPERTIES
    ImplementsStream
