CONSTANTS
    v1 = v1
    v2 = v2
    Values = {v1, v2}
    NoValue = NoValue
    w1 = w1
    w2 = w2
    Wakers = {w1, w2}
    NoWaker = NoWaker
    MaxSplits = 2
SPECIFICATION FairSpec
INVARIANTS
    TypeOK
    ValueKept
    EndIsFinal
    ReceiverWoken
    SenderWoken
PROPERTIES
    NoSendIntoVoid
    ValueReceived
    ClosedResolves
CHECK_DEADLOCK FALSE
