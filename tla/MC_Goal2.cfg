CONSTANTS
    N = 2
    SeedDst = {0, 1, 2}
    MaxSeeds = 2
    MaxCount = 2
    MaxQueued = 2
    peer_id <- EachOther
SPECIFICATION GSpec
INVARIANTS TypeOK OneInFlight
PROPERTIES CountsMeasured ProbesMeasured Terminates ThreadsEnd
CHECK_DEADLOCK FALSE
