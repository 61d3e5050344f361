CONSTANTS
    t1 = t1
    t2 = t2
    t3 = t3
    Tasks = {t1, t2, t3}
    UsizeMax = 5
    MaxQueue = 2
SPECIFICATION FairSpec
INVARIANTS
    TypeOK
    MaskExact
    ReceiverWoken
PROPERTIES
    Refines
    EndReached
CHECK_DEADLOCK FALSE
