SPECIFICATION LoadSpec
CONSTANTS
    NBlocks = 6
    ChunksPerBlock = 2
    NReservedBlocks = 2
    CheckptBlocks = 1
    MaxId = 5
    Vals = {a}
    Zero = zero
    Hole = hole
    SmallHole = 1
    GcMaxCopies = 2
    MaxSeq = 6
    MaxCrashes = 1
INVARIANTS
    ScanFindsContent
    ReserveSuffices
CHECK_DEADLOCK FALSE
