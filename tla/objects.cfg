SPECIFICATION ShelteredSpec
CONSTANTS
    Ids = {a, b, c}
    Names = {x, y}
    None = None
    MaxCalls = 4
    MaxCrashes = 1
    MaxCopies = 1
SYMMETRY Symmetric
INVARIANTS
    ScanTells
    MemorySound
PROPERTIES
    ImplementsNames
CHECK_DEADLOCK FALSE
