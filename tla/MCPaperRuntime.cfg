SPECIFICATION Spec
CONSTANTS
    BTC = BTC
    ETH = ETH
    Symbols = {BTC}
    None = None
    Times = {1, 2}
    WarmUp = 1
    MaxSessions = 2
    MaxFills = 1
    MaxRestarts = 1
    StorageFails = TRUE
    ResetMayFail = FALSE
    CycleFails = TRUE
INVARIANTS
    TypeOK
    LiveTaskIsAnnounced
PROPERTIES
    TradesOnlyWhenAsked
    InOrderWithinSession
CHECK_DEADLOCK FALSE
