SPECIFICATION Spec
CONSTANTS
    t1 = t1
    t2 = t2
    None = None
    Threads <- MCThreads
    NumRows = 9
    Rank = 1
    Tp = 2
    Sets = 2
    Ways = 2
    Locks = 1
    MaxLookups = 5
SYMMETRY Symmetry
INVARIANTS TypeOK RowExact CacheCoherent
CHECK_DEADLOCK FALSE
