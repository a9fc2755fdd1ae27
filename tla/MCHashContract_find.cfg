SPECIFICATION Spec
CONSTANTS
    ITEMS = 6
    BUCKETS = 4
    Values <- MCValues
INVARIANTS
    FindPost
CHECK_DEADLOCK FALSE
