SPECIFICATION FairSpec
CONSTANTS
    Clients = {c1, c2}
    Workers = {w1, w2}
    FirstWorker = w1
    Plans <- AllPlans
    MaxStarts = 2
CHECK_DEADLOCK FALSE
INVARIANTS
    TypeOK
    PromiseAlive
    CountBalanced
PROPERTIES
    WaitStopDrains
    SyncReturns
    WaitStopReturns
