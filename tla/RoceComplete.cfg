SPECIFICATION FairPipeSpec
CONSTANTS
    World = 2
    HcaCount = 2
    Grid <- OneBlock
    MaxBlocks = 1
    SeqMod = 4
    Guard = 4
    Depth = 1
    MayTimeOut = FALSE
    MaxFaults = 0
    MaxStops <- OneStop
    Plans <- StopPlans
    MaxPacks = 2
    ChunkMin = 1
    MaxChunks = 1
INVARIANTS ReducesOwnOp PipeReadsOwnOp PipeSendIntact
PROPERTIES PipeComplete
CHECK_DEADLOCK FALSE
