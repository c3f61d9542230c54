SPECIFICATION Spec
CONSTANTS
    NBlocks = 6
    ChunksPerBlock = 2
    NReservedBlocks = 2
    CheckptBlocks = 0
    MaxId = 2
    Vals = {a}
    Zero = zero
    Hole = hole
    SmallHole = 2
    GcMaxCopies = 1
    MaxSeq = 4
    MaxCrashes = 1
INVARIANTS
    ScanFindsFile
    Accounted
PROPERTIES
    ImplementsStore
CHECK_DEADLOCK FALSE
