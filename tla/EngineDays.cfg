\* two losing days, neither of which reaches the limit
SPECIFICATION DaySpec
CONSTANTS
    BTC = BTC
    Null = Null
    Symbols = {BTC}
    SymbolList = {BTC}
    Signals <- DaySignals
    Prices <- DayPrices
    MaxSignals = 2
    StartingBalance = 500000
    MaxPositions = 1
    MaxLeverage = 5
    Scale = 2500
    PositionRate = 250
    LossRate = 75
    DrawdownRate = 375
    TakerRate = 1
    MmrRate = 10
    CloseReasons <- LiteralReasons
    MayBeKilled = FALSE
PROPERTIES DailyMeansToday
