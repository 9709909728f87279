SPECIFICATION Spec
CONSTANTS
    p1 = p1
    p2 = p2
    Procs = {p1, p2}
    Programs <- MCPrograms
    w1 = w1
    w2 = w2
    Words = {w1, w2}
    MaxSegments = 3
    MaxItems = 2
    MaxStops = 3
    MaxResets = 1
SYMMETRY Symmetry
INVARIANTS
    OneSegment
    RestartKeeps
    ReadShmCurrent
CHECK_DEADLOCK FALSE
