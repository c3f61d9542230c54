SPECIFICATION SuperSpec
CONSTANTS
    Files = {f}
    Dirs = {d}
    Procs = {p, q}
    HZ = 1
    AutoCheckpoint = 5
    MaxCalls = 3
INVARIANTS
    FlagTellsAll
    SyncWritesAll
PROPERTIES
    WorkGetsDone
CHECK_DEADLOCK FALSE
