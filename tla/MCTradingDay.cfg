SPECIFICATION DaySpec
CONSTANTS
    BTC = BTC
    Symbols = {BTC}
    Prices = {0, 100}
    Quantities = {0, 1}
    LargestOrder = 1
    EntryDen = 4
    InitialCash = 1000
    RateDen = 100
    FeeNum = 1
    SlipNum = 0
    MaxOrders = 4
    Features <- MCFeatures
    OrderQuantity = 2
    StopMult = 2
    TakeMult = 3
    MinAtrNum = 5
    MaxAtrNum = 40
    EdgeNum = 5
    LossNum = 20
    RiskNum = 5
    MinStopNum = 2
    QuantityStep = 1
    MaxOpenPositions = 2
    LastDay = 1
PROPERTIES
    LossLimitIsDaily
CHECK_DEADLOCK FALSE
