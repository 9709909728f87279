SPECIFICATION FairSpec
CONSTANTS
    Threads = {t1, t2}
    SeqSize = 2
    ServerSize = 2
    MaxTimestamp = 2
    ServerId = 1
    Epoch = 2
    Tolerance = 2
    WaitLimit = 3
    ErrorLimit = 4
    StartClock = 2
    MaxCalls = 3
    ClockLead = 2
    MaxBack = 4
    MaxBacks = 1
CHECK_DEADLOCK FALSE
INVARIANTS
    TypeOK
    IdsIncrease
    ParseInverts
PROPERTY
    NextIdReturns
