SPECIFICATION Spec
CONSTANTS
    Versions <- MCVersions
    Rows <- MCRows
    ChunkRows = 2
    MaxFaults = 0
INVARIANTS ServedCurrent
CHECK_DEADLOCK FALSE
