CONSTANTS
    c1 = c1
    c2 = c2
    c3 = c3
    Clients = {c1, c2, c3}
    w1 = w1
    Wakers = {w1}
    NoWaker = NoWaker
    Null = Null
    Requests = {1, 2}
    Amounts = {1, 2}
    InitPermits = 1
    UsizeMax = 2
    MaxSupply = 3
    MaxLeaked = 0
SYMMETRY Symmetry
SPECIFICATION Spec
INVARIANTS
    TypeOK
    WellLinked
    NoDangling
    LoopInRange
    NoPermitCreated
PROPERTY Refines
