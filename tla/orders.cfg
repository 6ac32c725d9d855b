SPECIFICATION FairSpec
CONSTANTS
    Requests = {r1, r2}
    MaxCreds = 3
INVARIANTS
    TypeOK
    TwiceOnlyMisread
    FreshRetry
PROPERTIES
    IsOrderExecution
    EveryRequestAnswered
    CacheCatchesUp
