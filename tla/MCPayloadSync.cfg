SPECIFICATION Spec
CONSTANTS
    a = a
    b = b
    NONE = NONE
    Nodes = {a, b}
    Builders = {a}
    Conns = {c1}
    KnownPeers <- MCKnownPeers
    Body <- MCBody
    Messages <- MCMessages
    Stoppable = {a}
    Visible = {a}
    MaxPeers = 2
    Window = 1
    OutCap = 1
    InCap = 1
    MaxGasPerTxn = 2
    DisableRoot = FALSE
INVARIANTS  StreamsNeedConnection 
PROPERTIES HandlerFree Reconnects CancelEnds
CHECK_DEADLOCK FALSE
