\* The cleanup of stale buckets documented at mod.rs:117 and args.rs:25.
CONSTANTS
    Addresses = {a1, a2}
    Threads = {t1, t2}
    max_gas_per_address = 3
    refill_rate_per_block = 2
    cleanup_interval = 2
    Word = 16
    Requests = {0, 1, 2, 4}
    MaxRefreshes = 3
    MaxBlock = 2
SPECIFICATION Spec
PROPERTY StaleBucketsRemoved
CHECK_DEADLOCK FALSE
