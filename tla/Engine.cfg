\* two symbols competing for one slot, the close reasons of messages.py, kills
SPECIFICATION Spec
CONSTANTS
    BTC = BTC
    ETH = ETH
    Null = Null
    Symbols = {BTC, ETH}
    SymbolList = {BTC, ETH}
    Signals <- FaultySignals
    Prices <- MCPrices
    MaxSignals = 2
    StartingBalance = 500000
    MaxPositions = 1
    MaxLeverage = 5
    Scale = 2500
    PositionRate = 250
    LossRate = 75
    DrawdownRate = 375
    TakerRate = 1
    MmrRate = 10
    CloseReasons <- LiteralReasons
    MayBeKilled = TRUE
SYMMETRY SymbolSymmetry
INVARIANTS TypeOK PositionCap LiveIffHeld MoneyConserved NoSignalDropped
PROPERTIES ImplementsTrades
