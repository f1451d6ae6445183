SPECIFICATION FairServicesSpec
CONSTANTS
    a = a
    b = b
    c = c
    MaxTime = 8
    Symbols = {a}
    Coarse <- CoarseIntervals
    Lookback = 3
    FineStaleAfter = 0
    MinCoverage = 95
    PageLimit = 2
    Permits = 1
    MaxFaults = 2
    ScanSymbols = {a}
    ScanLookback = 5
    SpotEnough = 2
    FuturesEnough = 2
    FreshFor = 1
    NotLoaded = NotLoaded
    Callers = {a, b}
    TTL = 2
    NoList = NoList
    Listed = {a, b}
    Malformed = {c}
    MaxSymbols = 2
    Requests <- AskedFor
    FirstDelay = 1
    MaxDelay = 3
    StaleAfterSeconds = 1
    Lag = 1
    NoPrice = NoPrice
    FeedSymbols = {a}
    Retention = 2
    FeedLookback = 1
    Late = 2
    Ahead = 1
    MaxEvents = 3
    MediumNotional = 2
    HighNotional = 3
INVARIANTS
    OneBackfillPerKey
    FinishedBackfillHasNoGap
    AnswersAreFresh
    StreamServesOrWarns
    PressureIsComplete
PROPERTIES
    BackfillCatchesUp
    FuturesScanIsFresh
    PricesArrive
CHECK_DEADLOCK FALSE
