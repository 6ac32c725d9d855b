SPECIFICATION Spec
CONSTANTS
    Prices = {p, q}
    NoPrice = none
    MaxMarkets = 2
    MaxWire = 2
    MaxEvents = 2
INVARIANTS
    TypeOK
    TokensInOrder
    SubscriptionComplete
    PriceCurrent
PROPERTY PricesCatchUp
