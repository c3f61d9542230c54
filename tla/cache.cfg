SPECIFICATION FewSpec
CONSTANTS
    Files = {f}
    NCaches = 2
    MaxId = 3
    ChunkSize = 2
    Vals = {a}
    Zero = zero
    Hole = hole
    None = none
    SmallHole = 2
    Room = 4
    BypassAligned = TRUE
    MaxFaults = 1
INVARIANTS
    BuffersSound
    ReserveOverdraft
PROPERTIES
    ImplementsBytes
CHECK_DEADLOCK FALSE
