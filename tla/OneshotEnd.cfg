CONSTANTS
    v1 = v1
    Values = {v1}
    NoValue = NoValue
    w1 = w1
    Wakers = {w1}
    NoWaker = NoWaker
    MaxSplits = 1
SPECIFICATION Spec
INVARIANT ReceiverWokenAtEnd
CHECK_DEADLOCK FALSE
