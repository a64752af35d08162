SPECIFICATION Spec
CONSTANTS
    World = 2
    HcaCount = 1
    Grid <- MixedGrid
    MaxBlocks = 2
    SeqMod = 4
    Guard = 3
    Depth = 1
    MayTimeOut = TRUE
    MaxFaults = 1
    MaxStops <- FirstStops
INVARIANTS TypeOK ReducesOwnOp HealthyIsComplete
PROPERTIES EpochOverFailure
CHECK_DEADLOCK FALSE
