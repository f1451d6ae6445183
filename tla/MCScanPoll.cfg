SPECIFICATION MarketSpec
CONSTANTS
    Candidates = 3
    BatchSize = 2
    Concurrency = 1
    Unknown = Unknown
    Readings <- MCReadings
    Request <- MCRequest
    PastRuns <- MCPastRuns
INVARIANT CompletedPollIsFinal
CHECK_DEADLOCK FALSE
