SPECIFICATION FairQueueSpec
CONSTANTS
    Producers = {p1, p2}
    Consumers = {c1}
    BlockSize = 6
    MaxBlockNo = 2
    BodySizes = {1, 3, 5}
    MaxMessages = 4
CHECK_DEADLOCK FALSE
INVARIANTS
    WellFormed
PROPERTIES
    ImplementsFifo
    PushSucceeds
