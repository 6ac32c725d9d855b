SPECIFICATION Spec
CONSTANTS
    Assets = {btc}
    btc = btc
    Quotes <- OnePrice
    Prices <- OnePrice
    Improvements <- NoImprovement
    MinProfitMargin = 50000
    MinEntryPrice = 550000
    MaxEntryPrice = 920000
    MaxPositions = 1
    Interval = 1
    MinEntryTime = 0
    MaxEntryTime = 0
    ForceCloseSecs = 0
    MaxMarkets = 2
    MaxOrders = 5
    SignalRoom = 2
CONSTRAINTS
    FirstSideYes
    OneMisled
INVARIANTS
    TypeOK
    OneOrderPerLeg
    LockedIsHedged
    ForceCloseSellsLeg1
    NoSecondHedge
    PositionLimit
    PositionAccounting
    IdleIsFlat
    HoldingsRedeemed
PROPERTY IsHedgedTrade
CHECK_DEADLOCK FALSE
