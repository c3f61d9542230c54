SPECIFICATION OrderlySpec
CONSTANTS
    Devs = {d}
    Objs = {f, g}
    Names = {x, y}
    Threads = {s}
    NHandles = 2
    NDsc = 1
    Modes <- FewModes
    MaxSize = 2
    None = None
SYMMETRY Symmetric
INVARIANTS
    TablesAgree
    CallKeepsFile
    EntriesOnce
CHECK_DEADLOCK FALSE
