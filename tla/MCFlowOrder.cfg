SPECIFICATION Spec
CONSTANTS
    Rules = {r1, r2, r3}
    Prios = {1, 2, 4, 5}
    Ids = {1, 2, 3, 11, 12, 13}
    PoolIds <- MCPools
    EtherTypes = {arp}
    EtherSlots = 1
    FlowIds = {}
    StatsPtrs = {0, 1, 2}
    Actions = {a1}
    MaxNum = 3
    ID_HEAD = 0
    Null = Null
SYMMETRY Symmetry
INVARIANTS
    TypeOK
    PriorityOrder
    DbIsHw
PROPERTIES
    FailureUndone
    IsOpenFlowTable
