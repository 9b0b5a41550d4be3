\* kills at any time, statements that fail, boots that are interrupted
SPECIFICATION StoreSpec
CONSTANTS
    BTC = BTC
    Null = Null
    Symbols = {BTC}
    SymbolList = {BTC}
    Signals <- BothSides
    Prices <- StorePrices
    MaxSignals = 2
    StartingBalance = 500000
    MaxPositions = 1
    MaxLeverage = 5
    Scale = 2500
    PositionRate = 250
    LossRate = 75
    DrawdownRate = 375
    TakerRate = 1
    MmrRate = 10
    CloseReasons <- LiteralReasons
    MayBeKilled = TRUE
    StoreMayFail = TRUE
INVARIANTS StoreTypeOK RowClosedOnlyAfterTrade RowClosedOnce NoOrphanOnceUp
