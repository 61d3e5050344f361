CONSTANTS
    t1 = t1
    t2 = t2
    Tasks = {t1, t2}
    Capacity = 1
    UsizeMax = 7
    Upsets = {}
    MaxUpset = 0
SPECIFICATION FairSpec
PROPERTIES
    SendResolves
    ElementReceived
    EndReached
CHECK_DEADLOCK FALSE
