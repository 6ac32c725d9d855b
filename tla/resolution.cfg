SPECIFICATION FairSpec
CONSTANTS
    Assets = {btc}
    btc = btc
    Quotes <- NoQuotes
    Prices <- ManyPrices
    Improvements <- NoImprovement
    MinProfitMargin = 50000
    MinEntryPrice = 450000
    MaxEntryPrice = 920000
    MaxPositions = 1
    Interval = 2
    MinEntryTime = 0
    MaxEntryTime = 0
    ForceCloseSecs = 1
    MaxMarkets = 2
    MaxOrders = 4
    SignalRoom = 3
CONSTRAINT FirstSideYes
INVARIANT LockedMargin
PROPERTIES
    Leg2Resolves
    TradeConcludes
CHECK_DEADLOCK FALSE
