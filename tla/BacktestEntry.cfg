SPECIFICATION Spec
CONSTANTS
    Scripts <- MCScripts
    Histories <- MCHistories
    Limit = 2
    DailyLimit = 4
    Interval = 2
    Start = 2
    End = 14
    Den = 4
    SlPct = 1
    TpPct = 2
    SeqLen = 1
    PredLen = 2
    Step = 1
    Days = 6
    Folds <- MCFolds
    Grid <- MCGrid
    Leverages <- MCLeverages
    Signals <- MCSignals
    Readings <- MCReadings
INVARIANT ReplayStartsAfterEntry
CHECK_DEADLOCK FALSE
