SPECIFICATION Spec
CONSTANTS
    NBlocks = 4
    ChunksPerBlock = 2
    NReservedBlocks = 1
    CheckptBlocks = 2
    ListDivisor = 3
    Ids = {i, j}
    None = none
    MaxWrites = 3
    MaxCrashes = 2
    MaxFaults = 1
INVARIANTS
    RestoredIsCurrent
    BlocksCounted
    SavedIsReadable
PROPERTIES
    GoneBeforeChange
SYMMETRY Symmetric
CONSTRAINT NotSpoilt
CHECK_DEADLOCK FALSE
