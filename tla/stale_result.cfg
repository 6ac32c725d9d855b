SPECIFICATION Spec
CONSTANTS
    Assets = {btc}
    btc = btc
    Quotes <- OnePrice
    Prices <- OnePrice
    Improvements <- NoImprovement
    MinProfitMargin = 50000
    MinEntryPrice = 550000
    MaxEntryPrice = 920000
    MaxPositions = 1
    Interval = 3
    MinEntryTime = 1
    MaxEntryTime = 1
    ForceCloseSecs = 1
    MaxMarkets = 2
    MaxOrders = 5
    SignalRoom = 1
INVARIANT ResultsStayInMarket
CHECK_DEADLOCK FALSE
