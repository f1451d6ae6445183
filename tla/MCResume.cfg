SPECIFICATION Spec
CONSTANTS
    BTC = BTC
    ETH = ETH
    Symbols = {BTC}
    None = None
    Times = {1, 2}
    WarmUp = 1
    MaxSessions = 2
    MaxFills = 2
    MaxRestarts = 1
    StorageFails = FALSE
    ResetMayFail = FALSE
    CycleFails = FALSE
INVARIANT RecoveredCanResume
CHECK_DEADLOCK FALSE
