SPECIFICATION Spec
CONSTANTS
    Minute = 2
    Hour = 4
    Day = 8
    UintMod = 1048576
    Kilo = 2
    Starts <- MCStarts
    FineStarts <- MCFineStarts
    Parsed <- MCParsed
    Window <- MCWindow
    Settings <- MCSettings
    Offsets <- MCOffsets
    NanoOffsets <- MCNanoOffsets
    ZoneOffset = 2
    Summer <- MCSummer
CHECK_DEADLOCK FALSE
INVARIANTS
    FieldsRight
    SettersNormalise
    CacheCoherent
