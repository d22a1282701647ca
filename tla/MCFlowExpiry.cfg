SPECIFICATION Spec
CONSTANTS
    Rules = {r1}
    IdleTimeouts = {0, 4, 7}
    HardTimeouts = {0, 3}
    Tick = 5
    NFlowIds = 3
    MaxAge = 14
    Null = Null
INVARIANTS
    TypeOK
    GoneInTime
PROPERTIES
    NeverEarly
    StaysOnlyMatched
    IdsComeBack
