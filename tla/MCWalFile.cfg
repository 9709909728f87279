SPECIFICATION Spec
CONSTANTS
    FirstSeq = 9
    SyncInterval = 2
    Cutoffs = {10}
    Afters = {0, 9}
    BatchSizes = {0, 2}
    MaxAppends = 3
    MaxSessions = 3
    MaxReads = 1
CHECK_DEADLOCK FALSE
INVARIANTS
    TypeOK
    SeqsNotReused
    DurableKept
    ReadAfterNoGap
