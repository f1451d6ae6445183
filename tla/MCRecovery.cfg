SPECIFICATION Spec
CONSTANTS
    BTC = BTC
    ETH = ETH
    Symbols = {BTC, ETH}
    None = None
    Times = {1, 2}
    WarmUp = 1
    MaxSessions = 2
    MaxFills = 2
    MaxRestarts = 2
    StorageFails = FALSE
    ResetMayFail = TRUE
    CycleFails = TRUE
SYMMETRY Symmetry
INVARIANTS
    StatusIsHonest
    MemoryIsSaved
    RowsBeforeAccount
    SessionsAreFinished
CHECK_DEADLOCK FALSE
