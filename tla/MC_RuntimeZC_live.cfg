CONSTANTS
    N = 2
    Buf = {b1, b2}
    NoBuf = NoBuf
    ClearProbe = ClearProbe
    Shutdown = Shutdown
    SeedDst = {0,1}
    MaxSeeds = 2
    MaxResets = 1
    MaxCount = 0
    MaxCaller = 0
SPECIFICATION FairSpec
PROPERTIES Terminates ShutdownDrains
CHECK_DEADLOCK FALSE
