CONSTANTS
    MaxAttempts = 2
    ProbeFailLimit = 1
    Foreign = {2}
    Platforms = {"linux"}
    MayCrash = FALSE
SPECIFICATION Spec
INVARIANT BreakerSparesHarness
CHECK_DEADLOCK FALSE
