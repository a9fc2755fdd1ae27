SPECIFICATION FairSpec
CONSTANTS
    MatchCases <- MCMatchCases
    Floors <- MCFloors
    Interrupts = TRUE
    CallsMayFail = TRUE
    Presses = 2
    TestFloors <- MCFirstFloor
    TestStatuses <- MCTestStatuses
    TestExcesses <- MCTestExcesses
INVARIANTS
    TypeOK
    OneInside
    SafetyPassComplete
PROPERTIES
    
    PressReset
    ConnectsWhenSafe
CHECK_DEADLOCK FALSE
