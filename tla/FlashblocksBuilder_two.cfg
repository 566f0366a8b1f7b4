\* Two jobs, so that a build overlaps the one that replaces it.
CONSTANTS
    MaxJobs = 2
    EnsureOnlyOnePayload = TRUE
    BuiltCap = 1
    P2pEnabled = FALSE
    P2pCap = 1
    FlashblocksPerBlock = 1
    Targets = {1}
    BuildAtIntervalEnd = TRUE
    MaxRetries = 0
    MaxTicks = 1
SPECIFICATION Spec
INVARIANTS
    AtMostOneLate
CHECK_DEADLOCK FALSE
