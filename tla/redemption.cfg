SPECIFICATION FairSpec
CONSTANTS
    m1 = m1
    m2 = m2
    Conditions = {m1, m2}
    MarketEnd <- Ends
    RedeemDelay = 2
    RetryDelay = 2
    MaxAttempts = 3
    Period = 1
    MaxLag = 2
    MaxTick = 3
    MaxTime = 25
INVARIANTS
    TypeOK
    HeldOnce
PROPERTIES
    IsRedemption
    Concluded
CHECK_DEADLOCK FALSE
