SPECIFICATION FailingSpec
CONSTANTS
    EntryIds = {e1, e2}
    DftIds = {}
    EntryCount = 3
    DftMax = 0
    ReorderRatio = 3
    RememberBase = 2
    MagicMargin = 2
    CountBound = 3
    Null = Null
    ID_HEAD = ID_HEAD
    ID_TAIL = ID_TAIL
INVARIANTS
    FreeCountExact
