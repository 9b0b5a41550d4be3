\* nothing fails: the two PUBLISHes of one trade arrive in the other order
SPECIFICATION StoreSpec
CONSTANTS
    BTC = BTC
    Null = Null
    Symbols = {BTC}
    SymbolList = {BTC}
    Signals <- LongOnly
    Prices <- StorePrices
    MaxSignals = 2
    StartingBalance = 500000
    MaxPositions = 1
    MaxLeverage = 5
    Scale = 2500
    PositionRate = 250
    LossRate = 75
    DrawdownRate = 375
    TakerRate = 1
    MmrRate = 10
    CloseReasons <- LiteralReasons
    MayBeKilled = FALSE
    StoreMayFail = FALSE
INVARIANTS ClosureReachesRow
