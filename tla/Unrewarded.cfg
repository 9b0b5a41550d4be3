SPECIFICATION ServicesSpec
CONSTANTS
    Parts = {"learning"}
    Prices = {1, 2}
    FundingEvery = 2
    BackoffInitial = 1
    BackoffFactor = 2
    BackoffMax = 2
    Bars = 2
    FeatureBars = 1
    MinBars = 1
    ShortHorizon = 2
    Forecasts <- MCForecasts
    MaxMinute = 2
    MaxSocket = 1
    MaxBus = 1
    NewsSymbols = {"BTC", "ETH"}
    Urls = {"u"}
    Relevances <- MCRelevances
    Scores <- MCScores
    One = 2
    MinRelevance = 2
    IndexScores <- MCIndexScores
    IndexTTL = 1
    MaxArticles = 1
    MaxRows = 3
    Wiring <- MCNoWiring
    Markets = {"BTC"}
    Outcomes <- MCOutcomes
    Ratios = {2}
    MinTrain = 2
    MaxBuffer = 2
    MaxTrades = 2
    MaxVersions = 3
    Pages = {"p", "q"}
    SendBuffer = 1
    MaxConns = 2
INVARIANT HandledCloseIsRewarded
