SPECIFICATION FairSpec
CONSTANTS
    op_add = op_add
    op_sub = op_sub
    op_mul = op_mul
    op_div = op_div
    op_quit = op_quit
    x = x
    y = y
    Operands <- MCOperands
    Zero = x
    NumRequests = 2
    CallsMayFail = TRUE
INVARIANTS
    TypeOK
    OneToken
    NoDataRace
    ResultMatchesRequest
PROPERTIES
    RpcSafety
    AnsweredUnlessOrphaned
    AttachedThenFinish
CHECK_DEADLOCK FALSE
