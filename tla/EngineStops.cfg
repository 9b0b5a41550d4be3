\* signals of the Director alone, filled after the price has moved
SPECIFICATION Spec
CONSTANTS
    BTC = BTC
    ETH = ETH
    Null = Null
    Symbols = {BTC}
    SymbolList = {BTC}
    Signals <- DirectedSignals
    Prices <- MCPrices
    MaxSignals = 2
    StartingBalance = 500000
    MaxPositions = 1
    MaxLeverage = 5
    Scale = 2500
    PositionRate = 250
    LossRate = 75
    DrawdownRate = 375
    TakerRate = 1
    MmrRate = 10
    CloseReasons <- LiteralReasons
    MayBeKilled = FALSE
INVARIANTS StopNeverGains
