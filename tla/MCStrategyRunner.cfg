SPECIFICATION Spec
CONSTANTS
    BTC = BTC
    ETH = ETH
    XRP = XRP
    Symbols = {BTC, ETH, XRP}
    Prices = {0, 100}
    Quantities = {0, 1}
    LargestOrder = 1
    EntryDen = 4
    InitialCash = 1000
    RateDen = 100
    FeeNum = 1
    SlipNum = 0
    MaxOrders = 4
    Features <- MCFeatures
    OrderQuantity = 3
    StopMult = 2
    TakeMult = 3
    MinAtrNum = 5
    MaxAtrNum = 40
    EdgeNum = 5
    LossNum = 20
    RiskNum = 10
    MinStopNum = 2
    QuantityStep = 1
    MaxOpenPositions = 2
SYMMETRY Symmetry
INVARIANTS
    OpenPositionLimit
PROPERTIES
    ExitsAlwaysGoThrough
    StopLossHonoured
    NoEntryAfterLossLimit
    RiskPerTradeBounded
    AutoNeverPyramids
CHECK_DEADLOCK FALSE
