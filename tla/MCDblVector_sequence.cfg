SPECIFICATION Spec
CONSTANTS
    v = v
    w = w
    x = x
    y = y
    Vectors <- MCVectors
    Items <- MCItems
    NaN = NaN
    Garbage = Garbage
    DV_INITIAL_CAPACITY = 2
    MaxSize = 3
    Reserved <- MCReserved
INVARIANTS
    TypeOK
    ElementsWritten
PROPERTIES
    IsSequence
    GrowsGeometrically
SYMMETRY MCSymmetry
CHECK_DEADLOCK FALSE
