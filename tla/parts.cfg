SPECIFICATION PartsSpec
CONSTANTS
    Txs <- AllTxs
    PendingTxs <- OneSwap
    FilterEnabled = TRUE
    MinValue = 1
    TargetSelectors <- Targets
    MonitorBuffer = 1
    HashBuffer = 1
    CoreAttached = FALSE
    Body <- BodySwap
    MaxHeight = 1
    MaxReorgs = 0
    MaxPolled = 0
    MaxLag = 0
    HeadBuffer = 1
    HeaderBuffer = 1
    TxBuffer = 2
    ScanSlots = 1
    Workers = {w1}
    OutputBuffer = 1
    NoTx = NoTx
    MergeBuffer = 1
    LoneWorkers = {w2, w3, w4}
    PoolThreads = {t1, t2}
CHECK_DEADLOCK FALSE
INVARIANTS
    NodeInv
    PipelineInv
    
PROPERTIES
    PipelineQuietAfterStop
