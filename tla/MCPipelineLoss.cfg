SPECIFICATION Spec
CONSTANTS
    Updates = 4
    NumSymbols = 2
    TicksPerOrder = 1
    MdCapacity = 3
    OrderCapacity = 3
INVARIANT NothingLost
