\* The comment at payload.rs:898 on what getPayload returns.
CONSTANTS
    MaxJobs = 1
    EnsureOnlyOnePayload = TRUE
    BuiltCap = 1
    P2pEnabled = TRUE
    P2pCap = 1
    FlashblocksPerBlock = 2
    Targets = {1, 2}
    BuildAtIntervalEnd = FALSE
    MaxRetries = 0
    MaxTicks = 2
SPECIFICATION Spec
INVARIANT AnswerIsLastPublished
CHECK_DEADLOCK FALSE
