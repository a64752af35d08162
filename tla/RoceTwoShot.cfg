SPECIFICATION PipeSpec
CONSTANTS
    World = 2
    HcaCount = 1
    Grid <- OneBlock
    MaxBlocks = 2
    SeqMod = 4
    Guard = 3
    Depth = 4
    MayTimeOut = TRUE
    MaxFaults = 1
    MaxStops <- OneStop
    Plans <- MixedPlans
    MaxPacks = 4
    ChunkMin = 1
    MaxChunks = 2
INVARIANTS PipeReadsOwnOp PipeSendIntact OpensAsLaunched HealthyIsWhole
CHECK_DEADLOCK FALSE
