SPECIFICATION Spec
CONSTANTS
    r1 = r1
    r2 = r2
    r3 = r3
    Rules = {r1, r2, r3}
    Lists <- MCLists
    InPort <- MCInPort
    AnyType = {r2, r3}
    NPorts = 2
    NhIds = {10, 11, 12, 13, 14}
    Words = {5, 6, 7, 8}
    Mets = {3, 4}
    MaxOutput = 3
    OutputMax = 4
    GreMax = 1
    QinqMax = 1
    Null = Null
CONSTRAINTS Apart Once
INVARIANTS
    TypeOK
    Exclusive
    ForwardsAsAsked
    CountersCover
PROPERTIES
    OnlyFailuresLeak
