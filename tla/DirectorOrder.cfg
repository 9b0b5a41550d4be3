\* one cycle of one symbol: a decision and its signal
SPECIFICATION Spec
CONSTANTS
    SymbolList <- OneSymbol
    Agents <- Panel
    Portfolio = "portfolio"
    MaxCycles = 1
CHECK_DEADLOCK FALSE
INVARIANTS SignalBeforeRow
