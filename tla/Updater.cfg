CONSTANTS
    p1 = p1
    p2 = p2
    Site <- MCSite
    Starts <- MCStarts
    Procs = {p1, p2}
    Archive <- MCArchive
    MaxRelease = 1
    MaxRuns = 2
    MaxFaults = 2
    UserWritable = FALSE
    AllowInsecure = TRUE
SPECIFICATION MCSpec
INVARIANTS NeverTorn NewestFirst OnlySigned ResponseExact FailureHasCause
PROPERTIES UpdatedMeansAll
CHECK_DEADLOCK FALSE
