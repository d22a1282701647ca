SPECIFICATION Spec
CONSTANTS
    EntryIds = {e1, e2, e3, e4, e5}
    DftIds = {}
    EntryCount = 11
    DftMax = 0
    ReorderRatio = 11
    RememberBase = 0
    MagicMargin = 2
    CountBound = 1
    Null = Null
    ID_HEAD = ID_HEAD
    ID_TAIL = ID_TAIL
SYMMETRY Symmetry
INVARIANTS
    OrderAlways
