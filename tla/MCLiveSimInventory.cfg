SPECIFICATION Spec
CONSTANTS
    Symbols <- MCSymbols
    Proxy = "BTC"
    Configs <- MCConfigs
    Options <- MCOptions
    FileSets <- MCFileSets
    Deltas = {1, 2}
    MaxImpact = 6
    KillPnL <- MCKillPnL
    KillVar = 5
    KillSpreadMult = 2
    VolWindow = 3
    BaselineWin = 2
    MaxInventory = 6
INVARIANT InventoryBounded
CHECK_DEADLOCK FALSE
