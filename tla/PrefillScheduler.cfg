SPECIFICATION FairSpec
CONSTANTS
    longReq = longReq
    midReq = midReq
    shortReq = shortReq
    None = None
    Reqs <- MCReqs
    Tokens <- MCTokens
    ChunkSize = 2
    Limit = 1
    ScanLimit = 2
    Interval = 1
    MinBs = 1
    Pct = 50
    MaxSteps = 3
    ChunkBase = 6
    PrefixCost = 1
    StepBase = 1
    StepPerReq = 1
INVARIANTS PrefixComputed ChunkAlone FirstToken
PROPERTIES ShareHonoured YieldIsOwed LongServed
