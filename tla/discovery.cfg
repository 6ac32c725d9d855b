SPECIFICATION Spec
CONSTANTS
    Assets <- TwoAssets
    Interval = 5
    Advance = 2
    MaxRetries = 3
    MinEntryTime = 2
    MaxEntryTime = 4
    MaxBacklog = 1
    MaxTime = 19
INVARIANTS
    TypeOK
    HandedOverOnTime
PROPERTIES
    RotatesForward
    ConsecutiveMarkets
    NotReplacedEarly
CHECK_DEADLOCK FALSE
