SPECIFICATION Spec

CONSTANTS
    Files = {1, 2}
    Ids = {1}
    Names = {a, b}
    Vals = {u, v}
    Hole = Hole
    NoFile = NoFile
    NBlocks = 5
    PagesPerBlock = 2
    GcMaxCopies = 2
    MaxCalls = 5
    MaxCrashes = 1

SYMMETRY Symmetric

INVARIANTS
    Referenced

PROPERTIES
    CallsAreAtomic
