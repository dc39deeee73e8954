CONSTANTS
    MaxAttempts = 2
    ProbeFailLimit = 1
    Foreign = {2}
    Platforms = {"linux", "windows", "darwin"}
    MayCrash = TRUE
SPECIFICATION FairSpec
INVARIANTS TypeOK NoOrphan KillIsReported
PROPERTIES ImplementsLife ThreadsEnd
CHECK_DEADLOCK FALSE
