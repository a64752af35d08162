SPECIFICATION FairSpec
CONSTANTS
    Versions <- MCVersions
    Rows <- MCRows
    ChunkRows = 2
    MaxFaults = 2
INVARIANTS ServedWhole TornIsShort
PROPERTIES PackCompletes
