SPECIFICATION FairSpec
CONSTANTS
    btc = btc
    Assets = {btc}
    Books <- FourBooks
    DepthLevels = 2
    BpsThreshold = 200
    ImbThreshold = 30
    ChainlinkEnabled = TRUE
    ChainlinkPrices <- OneReport
    MaxMarkets = 2
    MaxWire = 1
    MaxEvents = 2
    MaxReports = 1
INVARIANTS
    TypeOK
    PriceCurrent
PROPERTIES
    SignalIsMove
    PriceCatchesUp
