\* one symbol, three trades, of which two can lose the daily limit; every close reason is accepted, so that a flip goes through
SPECIFICATION Spec
CONSTANTS
    BTC = BTC
    ETH = ETH
    Null = Null
    Symbols = {BTC}
    SymbolList = {BTC}
    Signals <- OneSignals
    Prices <- MCPrices
    MaxSignals = 3
    StartingBalance = 500000
    MaxPositions = 1
    MaxLeverage = 5
    Scale = 2500
    PositionRate = 250
    LossRate = 75
    DrawdownRate = 375
    TakerRate = 1
    MmrRate = 10
    CloseReasons <- AllReasons
    MayBeKilled = FALSE
INVARIANTS EveryCloseCounted LossTripsBreaker IsolatedLoss
PROPERTIES FillPastLimitOnlyMidClose NoFillWhileTripped
