SPECIFICATION Spec
CONSTANTS
    v = v
    w = w
    x = x
    y = y
    Vectors <- MCVectors
    Items <- MCItems
    NaN = NaN
    Garbage = Garbage
    DV_INITIAL_CAPACITY = 4
    MaxSize = 4
    Reserved <- MCReserved
INVARIANTS
    WritesInside
CHECK_DEADLOCK FALSE
