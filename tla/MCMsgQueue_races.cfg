SPECIFICATION FairSpec
CONSTANTS
    p1 = p1
    p2 = p2
    c1 = c1
    c2 = c2
    Producers = {p1, p2}
    Consumers = {c1, c2}
    BUFFER_SIZE = 2
    Crews <- MCCrews
    MinPosition <- MCMinPosition
    MaxPosition = 3
INVARIANTS
    TypeOK
    AloneKeepsBounds
PROPERTIES
    EndOrCaught
CHECK_DEADLOCK FALSE
