CONSTANTS
    t1 = t1
    t2 = t2
    t3 = t3
    Tasks = {t1, t2, t3}
    Capacity = 2
    UsizeMax = 7
    Upsets = {"split", "forget", "panic"}
    MaxUpset = 1
SYMMETRY Symmetry
SPECIFICATION Spec
INVARIANTS
    TypeOK
    SlotsAccounted
    SendersWoken
    ReceiverNotified
    ErrorsAgree
PROPERTIES
    NoLateSend
    NoOvertaking
    Refines
CHECK_DEADLOCK FALSE
