SPECIFICATION FairSpec
CONSTANTS
    p1 = p1
    p2 = p2
    c1 = c1
    c2 = c2
    Producers = {p1}
    Consumers = {c1}
    BUFFER_SIZE = 5
    Crews <- MCPair
    MinPosition <- MCMinPosition
    MaxPosition = 7
PROPERTIES
    StopsOnEnter
CHECK_DEADLOCK FALSE
