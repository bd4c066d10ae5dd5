SPECIFICATION Spec
CONSTANTS
    Prices = {1, 2}
    OrderQtys <- MCQtys
    Symbols = {"ADA", "BTC"}
    MaxOrderQty = 2
    MaxPositionQty = 3
    RiskWired = TRUE
    MaxOrders = 4
    NoCall = NoCall
INVARIANTS TypeOK BookSound NotCrossed IndexCoversBook
PROPERTIES ImplementsPriceTime AddOrderReturns
CHECK_DEADLOCK TRUE
