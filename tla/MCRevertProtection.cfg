CONSTANTS
    b1 = b1
    b2 = b2
    Bundles = {b1, b2}
    NONE = NONE
    Requests <- MCRequests
    MAX_BLOCK_RANGE_BLOCKS = 2
    FlashblockCount = 2
    BlockTime = 1
    CacheCapacity = 1
    LogPool = TRUE
    MaxSends = 2
    MaxHead = 3
SPECIFICATION Spec
CHECK_DEADLOCK FALSE
INVARIANTS  MinedAsRequested 
PROPERTIES DroppedIsFinal LeavesPool DropIsReported
