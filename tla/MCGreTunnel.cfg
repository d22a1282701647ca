SPECIFICATION Spec
CONSTANTS
    Ports = {p1, p2, p3}
    Locals = {l1, l2, l3}
    Remotes = {r1, r2}
    BindPorts = {b1, b2}
    ILoops = {1, 2, 3}
    NhIds = {5, 6, 7, 8, 9, 10}
    MaxLocal = 2
    Null = Null
SYMMETRY Symmetry
INVARIANTS
    TypeOK
    Undisturbed
    NoDeadEnd
    BooksExact
