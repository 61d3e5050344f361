CONSTANTS
    c1 = c1
    c2 = c2
    c3 = c3
    Clients = {c1, c2, c3}
    w1 = w1
    Wakers = {w1}
    NoWaker = NoWaker
    Requests = {1, 2}
    Amounts = {}
    InitPermits = 2
    UsizeMax = 2
    MaxSupply = 2
    MaxLeaked = 0
SPECIFICATION FairSpec
PROPERTY NoStarvation
