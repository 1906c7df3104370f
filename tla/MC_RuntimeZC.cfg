CONSTANTS
    N = 2
    Buf = {b1, b2, b3}
    NoBuf = NoBuf
    ClearProbe = ClearProbe
    Shutdown = Shutdown
    SeedDst = {0, 1, 2}
    MaxSeeds = 2
    MaxResets = 1
    MaxCount = 1
    MaxCaller = 1
SPECIFICATION Spec
SYMMETRY Symmetry
INVARIANTS TypeOK OneOwner Drained ExcludesWarmup PanicsSurface
CHECK_DEADLOCK FALSE
PROPERTIES CountsMeasured
