SPECIFICATION ResearchSpec
CONSTANTS
    MaxTime = 8
    Grains <- GrainLengths
    SearchOrder <- ScannerOrder
    Lookahead = 2
    None = None
    Horizons = {1}
    SignalKinds <- Kinds
    Paths <- PricePaths
    MaxSnapshots = 1
    MaxSkips = 1
    btc = btc
    eth = eth
    DayLength = 10
    TunedSymbols = {btc}
    Seen <- Observations
    MaxSets = 2
    MaxRuns = 2
    NoTuning = NoTuning
INVARIANTS
    OutcomeJudgesItsHorizon
    OnePendingTuning
    SessionRunsItsTuning
    ThresholdsNeverDrift
    ComparisonAddsUp
    CandidatesAreSound
    ReportsAgree
PROPERTIES
    SignalsGetSettled
CHECK_DEADLOCK FALSE
