SPECIFICATION Spec
CONSTANTS
    Start = 3
    MaxSize = 8
    Sizes = {1, 2, 3}
    Reserves = {0, 3}
INVARIANTS
    TypeOK
    RightList
    ListsExact
    Served
PROPERTIES
    IsRangePool
