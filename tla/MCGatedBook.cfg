SPECIFICATION GatedSpec
CONSTANTS
    Prices = {1, 2}
    OrderQtys <- MCQtys
    Symbols = {"ADA"}
    MaxOrderQty = 2
    MaxPositionQty = 3
    RiskWired = TRUE
    MaxOrders = 4
    NoCall = NoCall
INVARIANT PositionLimited
CHECK_DEADLOCK TRUE
