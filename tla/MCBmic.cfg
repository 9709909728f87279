SPECIFICATION BmicSpec
CONSTANTS
    Nodes = {n1, n2, n3}
    End = End
    Values <- MCValues
    HashedMembers <- MCHashedMembers
    OrderedMembers <- MCOrderedMembers
    Epsilon = 2
SYMMETRY Symmetry
CHECK_DEADLOCK FALSE
INVARIANTS
    IndexesAgree
    UpdateRangeExact
PROPERTIES
    UpdateAllOrNothing
