SPECIFICATION Spec
CONSTANTS
    k1 = k1
    k2 = k2
    NONE = NONE
    Keys = {k1, k2}
    Gas <- MCGas
    PoolTxs <- MCPoolTxs
    Genesis <- MCGenesis
    Flashtestations = TRUE
    EnableBlockProofs = TRUE
    BuilderKinds = {"standard", "flashblocks", "number"}
    FlashblockCount = 2
    BlockGasLimit = 10
    MaxSent = 1
    MaxHeight = 3
    MaxPool = 1
INVARIANTS ProofCoversBlock ProofWhenPossible RegisteredWasSeen 
           GasWithinLimit
CHECK_DEADLOCK FALSE
