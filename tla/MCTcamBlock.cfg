SPECIFICATION Spec
CONSTANTS
    EntryIds = {e1, e2, e3, e4}
    DftIds = {d1}
    EntryCount = 6
    DftMax = 1
    ReorderRatio = 3
    RememberBase = 2
    MagicMargin = 2
    CountBound = 4
    Null = Null
    ID_HEAD = ID_HEAD
    ID_TAIL = ID_TAIL
INVARIANTS
    TypeOK
    NoEntryLost
    FreeCountExact
    ChipIsShadow
PROPERTIES
    InsertEnds
    BlockIsList
