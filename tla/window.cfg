SPECIFICATION Spec
CONSTANTS
    Values = {x, y, z}
    NoValue = none
    Capacity = 4
INVARIANTS
    TypeOK
    ReadersAgree
PROPERTY IsSlidingWindow
