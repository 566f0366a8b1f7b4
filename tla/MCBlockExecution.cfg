CONSTANTS
    PoolTxs = {"a0", "a1", "b0"}
    SidecarTxs = {"a0", "x0"}
    Required = {"x0"}
    Info <- MCInfo
    FlashblockCount = 2
    BlockGasLimit = 12
    MaxDaBlockSize = 8
    Scalar = 1
    DepositGas = 1
    BuilderGas = 1
    BuilderDa = 1
    NumberContracts = {TRUE, FALSE}
    Flashtestations = TRUE
SPECIFICATION Spec
INVARIANTS
    WithinLimits
    FlashblocksMakeBlock
    NoTxTwice
    RequiredIncluded
CHECK_DEADLOCK FALSE
