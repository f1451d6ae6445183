SPECIFICATION BrokerSpec
CONSTANTS
    BTC = BTC
    ETH = ETH
    Symbols = {BTC, ETH}
    Prices = {0, 100, 200}
    Quantities = {0, 1, 2, 3}
    LargestOrder = 3
    EntryDen = 4
    InitialCash = 700
    RateDen = 10
    FeeNum = 1
    SlipNum = 1
    MaxOrders = 6
SYMMETRY Symmetry
INVARIANTS
    BrokerTypeOK
    MoneyConserved
    FlatIsEmpty
PROPERTIES
    RefinesLedger
CHECK_DEADLOCK FALSE
