\* One job, with every error path, queues at their limits and two target counts.
CONSTANTS
    MaxJobs = 1
    EnsureOnlyOnePayload = TRUE
    BuiltCap = 1
    P2pEnabled = TRUE
    P2pCap = 1
    FlashblocksPerBlock = 2
    Targets = {0, 1, 2}
    BuildAtIntervalEnd = FALSE
    MaxRetries = 2
    MaxTicks = 4
SPECIFICATION FairSpec
INVARIANTS
    TypeOK
    AnswerNearStream
    
    PacedByTimer
PROPERTIES
    StreamSpec
    BuildEnds
    TimerEnds
    AnswerComes
CHECK_DEADLOCK FALSE
