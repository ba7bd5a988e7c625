SPECIFICATION FairSpec
CONSTANTS
    Workers <- MCWorkers
    Txs <- MCTxs
    Inputs <- MCInputs
    Loads <- MCLoads
    Updates <- MCUpdates
    Tokens <- MCTokens
    PreLoaded = 1
    BatchSize = 2
    WorkCap = 1
    OppCap = 1
    Stride = 2
    MinProfit = 5
    GasCost = 1
    MaxU256 = 2000000000
    MaxUpdates = 1

    
PROPERTIES
    StopEndsThreads
    
CHECK_DEADLOCK FALSE
