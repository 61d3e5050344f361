CONSTANTS
    c1 = c1
    c2 = c2
    c3 = c3
    Clients = {c1, c2, c3}
    w1 = w1
    w2 = w2
    Wakers = {w1, w2}
    NoWaker = NoWaker
    Requests = {0, 1, 2}
    Amounts = {0, 1, 2}
    InitPermits = 1
    UsizeMax = 3
    MaxSupply = 3
    MaxLeaked = 1
SYMMETRY Symmetry
SPECIFICATION Spec
INVARIANT WakeupDelivered
