SPECIFICATION FairSpec
CONSTANTS
    p1 = p1
    p2 = p2
    c1 = c1
    c2 = c2
    x = x
    y = y
    Producers <- MCProducers
    Consumers <- MCConsumers
    Items <- MCItems
    BUFFER_SIZE = 3
    Zero = Zero
    MinusOne = MinusOne
INVARIANTS
    TypeOK
    SemaphoresBalance
    SlotsAsPromised
    PointersMatchCount
PROPERTIES
    IsBoundedBuffer
    KeepsFlowing
