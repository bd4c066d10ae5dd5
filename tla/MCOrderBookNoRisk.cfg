SPECIFICATION Spec
CONSTANTS
    Prices = {1, 2, 3, 5}
    OrderQtys = {0, 1, 3}
    Symbols = {"ADA"}
    MaxOrderQty = 1
    MaxPositionQty = 1
    RiskWired = FALSE
    MaxOrders = 4
    NoCall = NoCall
    Rank <- MCRank
    NoPrice = NoPrice
    IntLimit = 8
    Whole = 2
INVARIANTS DepthsAgree ImbalanceSound QuotesInOrder AlterationsShow
PROPERTY ImplementsPriceTime
CHECK_DEADLOCK TRUE
