SPECIFICATION BinariesSpec
CONSTANTS
    Weth = "w"
    Tokens <- MCTokens
    Pools <- MCPools
    History <- MCHistory
    Amounts <- MCAmounts
    Q96 = 4
    MinReserve = 500
    MinProfitBps = 10
    GasPrice = 1
    MinReport = 2
    MaxU64 = 20
    Worlds <- MCWorlds
INVARIANTS
    
    EngineInv
    UltraInv
PROPERTIES
    CacheNeverGoesBack
    
    
    
CHECK_DEADLOCK FALSE
