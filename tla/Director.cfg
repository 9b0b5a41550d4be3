\* two overlapping cycles of one symbol, three of the five agents
SPECIFICATION FairSpec
CONSTANTS
    SymbolList <- OneSymbol
    Agents <- Panel
    Portfolio = "portfolio"
    MaxCycles = 2
CHECK_DEADLOCK FALSE
INVARIANTS TypeOK NothingLeaks FullPanel OneSignalPerCooldown
PROPERTIES AnalysesEnd
