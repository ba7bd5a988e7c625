SPECIFICATION Spec
CONSTANTS
    Txs <- AllTxs
    PendingTxs <- OneSwap
    FilterEnabled = TRUE
    MinValue = 1
    TargetSelectors <- Targets
    MonitorBuffer = 1
    HashBuffer = 1
    CoreAttached = FALSE
    Body <- BodyEmpty
    MaxHeight = 1
    MaxReorgs = 0
    MaxPolled = 0
    MaxLag = 0
    HeadBuffer = 1
    HeaderBuffer = 1
    TxBuffer = 1
    ScanSlots = 1
    Workers = {w1, w2}
    OutputBuffer = 1
    NoTx = NoTx
    MergeBuffer = 1
CHECK_DEADLOCK FALSE
INVARIANT
    MempoolFeedArrives
