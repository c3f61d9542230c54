SPECIFICATION VfsSpec

CONSTANTS
    d1 = d1
    d2 = d2
    a = a
    b = b
    c = c
    Dirs = {d1, d2}
    DirOf <- TwoDirs
    Ids = {i1, i2, i3}
    Procs = {p, q}
    MaxOpens = 1
    None = None
    Negative = Negative
    NCells = 3
    PageCells = 2
    Data = {0, 1}
    Unknown = Unknown

SYMMETRY Symmetric

INVARIANTS
    CachesTell
    SearchStandsOnEntry
    PagesTell

CHECK_DEADLOCK TRUE
