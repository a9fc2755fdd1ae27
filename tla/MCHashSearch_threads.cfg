SPECIFICATION Spec
CONSTANTS
    ITEMS = 5
    BUCKETS = 4
    THREADS = 2
    search = 0
    Values <- MCValues
INVARIANTS
    TypeOK
    SearchedInTime
    FreedInOrder
CHECK_DEADLOCK FALSE
