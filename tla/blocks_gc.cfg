SPECIFICATION BoundedSpec
CONSTANTS
    NBlocks = 6
    ChunksPerBlock = 2
    NReservedBlocks = 2
    CheckptBlocks = 1
    WrAttempts = 1
    AlwaysCheckErased = FALSE
    GcMaxCopies = 1
    MaxSeq = 4
    MaxFaults = 1
    MaxCalls = 0
INVARIANTS
    OneAllocatingBlock
    OldestDirtySound
    SequenceNumbersDistinct
    ChunksOwned
    CountersExact
PROPERTIES
    ShrinkHeaderOutlivesData
    NoLiveBlockErased
CHECK_DEADLOCK FALSE
