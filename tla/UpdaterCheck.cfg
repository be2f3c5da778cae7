CONSTANTS
    p1 = p1
    p2 = p2
    Site <- MCSite
    Starts <- MCStarts
    Procs = {p1}
    Archive <- MCArchive
    MaxRelease = 1
    MaxRuns = 2
    MaxFaults = 1
    UserWritable = TRUE
    AllowInsecure = FALSE
SPECIFICATION MCSpec
INVARIANTS NewVersionIsNew
CHECK_DEADLOCK FALSE
