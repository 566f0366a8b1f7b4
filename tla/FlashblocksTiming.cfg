\* Three flashblocks a block, every mode, settings and arrival around the edges.
CONSTANTS
    BlockTime = 12
    Interval = 4
    Leeways = {0, 1, 3}
    EndBuffers = {0, 1, 4}
    MaxOffset = 2
    MaxLag = 1
SPECIFICATION Spec
INVARIANTS
    TargetSignalled
    SendNeverBlocks
    LeewayKept
CHECK_DEADLOCK FALSE
