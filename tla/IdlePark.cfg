SPECIFICATION FairSpec
CONSTANTS
    MaxOps = 5
    MaxIdles = 4
    MayFail = TRUE
INVARIANTS TypeOK SleepsOnlyIdle
PROPERTIES EveryDoorbellPosted StopReturns
CHECK_DEADLOCK FALSE
