SPECIFICATION FairSpec
CONSTANTS
    p1 = p1
    p2 = p2
    c1 = c1
    c2 = c2
    Producers <- MCProducers
    Consumers <- MCConsumers
    BUFFER_SIZE = 5
INVARIANTS
    TypeOK
    FlagsMatchPointers
    NoLostWakeup
PROPERTIES
    IsBoundedBuffer
    KeepsFlowing
