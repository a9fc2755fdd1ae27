SPECIFICATION FairSpec
CONSTANTS
    MatchCases <- MCAsCompiled
    Floors <- MCFloorsAsCompiled
    Interrupts = FALSE
    CallsMayFail = FALSE
    Presses = 1
    TestFloors = {}
    TestStatuses = {}
    TestExcesses = {}
PROPERTIES
    StopHandled
CHECK_DEADLOCK FALSE
