SPECIFICATION FairSpec
CONSTANTS
    BufferSize = 10
    Sizes = {3, 4}
    Modes = {"next", "unconfirmed"}
    MaxCount = 2
    MaxAppends = 4
    MaxCrashes = 1
INVARIANTS
    DeliveredInOrder
    UnconfirmedIntact
    RecoveryComplete
    ConfirmedWereHanded
PROPERTY
    AppendSucceeds
