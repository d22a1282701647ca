SPECIFICATION RefusingSpec
CONSTANTS
    Rules = {r1, r2, r3}
    Prios = {1}
    Ids = {1, 2, 3, 11, 12, 13}
    PoolIds <- MCPools
    EtherTypes = {arp, lldp, ptp}
    EtherSlots = 2
    FlowIds = {10, 11}
    StatsPtrs = {0, 1, 2}
    Actions = {a1, a2}
    MaxNum = 2
    ID_HEAD = 0
    Null = Null
SYMMETRY Symmetry
INVARIANTS
    StatsOwned
