SPECIFICATION CallsSpec
CONSTANTS
    NBlocks = 6
    ChunksPerBlock = 2
    NReservedBlocks = 2
    CheckptBlocks = 0
    WrAttempts = 0
    AlwaysCheckErased = FALSE
    GcMaxCopies = 1
    MaxSeq = 100
    MaxFaults = 100
    MaxCalls = 3
PROPERTIES
    CallReturns
