CONSTANTS
    t1 = t1
    t2 = t2
    Tasks = {t1, t2}
    Capacity = 1
    UsizeMax = 7
    Upsets = {"split"}
    MaxUpset = 1
SYMMETRY Symmetry
SPECIFICATION Spec
INVARIANT NeverAboveCapacity
CHECK_DEADLOCK FALSE
