SPECIFICATION FairSpec
CONSTANTS
    c1 = c1
    c2 = c2
    w1 = w1
    w2 = w2
    None = None
    Callers <- MCCallers
    Workers <- MCWorkers
    Counts <- MCCounts
    SerialBelow = 2
    MaxGenerations = 2
INVARIANTS TypeOK NoStaleDrain ServedOnce ReturnedComplete
PROPERTIES NoLateWrite LookupSpec EveryLookupReturns
CHECK_DEADLOCK FALSE
