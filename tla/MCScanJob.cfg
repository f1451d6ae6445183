SPECIFICATION MarketFairSpec
CONSTANTS
    Candidates = 3
    BatchSize = 2
    Concurrency = 1
    Unknown = Unknown
    Readings <- MCReadings
    Request <- MCRequest
    PastRuns <- MCPastRuns
INVARIANTS
    TypeOK
    CancelledForGood
    ProgressIsBacked
    ReadyIsComplete
PROPERTIES
    CancelKeepsResults
    EveryScanEnds
CHECK_DEADLOCK FALSE
