SPECIFICATION FairSpec
CONSTANTS
    NumProcesses = 5
    quantum = 2
    Bursts <- MCBursts
    MaxTurns = 15
INVARIANTS
    TypeOK
    FairTurns
PROPERTIES
    IsRoundRobin
    TimeIsKept
    Completes
CHECK_DEADLOCK FALSE
