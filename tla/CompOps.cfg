SPECIFICATION FairSpec
CONSTANTS
    Call = {c1, c2}
    ENABLE_RETRY_MAX_TIMES = 1
    DISABLE_RETRY_MAX_TIMES = 2
    InOrder = TRUE
INVARIANT SuccessAgrees
PROPERTY EveryCallReturns
CHECK_DEADLOCK FALSE
