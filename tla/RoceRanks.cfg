SPECIFICATION Spec
CONSTANTS
    World = 3
    HcaCount = 1
    Grid <- OneBlock
    MaxBlocks = 1
    SeqMod = 4
    Guard = 3
    Depth = 2
    MayTimeOut = FALSE
    MaxFaults = 0
    MaxStops <- NoStops
INVARIANTS ReducesOwnOp SendSlotIntact LockStep
CHECK_DEADLOCK FALSE
