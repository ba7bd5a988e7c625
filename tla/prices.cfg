CONSTANTS
    HalfBits = 15
    MaxTickCrossings = 4
    MinProfit = 1
    SlippageBps = 50
    GasPrice = 1
    MinBackrunSwap = 10
    DefaultLiquidity = 2500
    ColdMin = 30
    ColdReserves <- MCColdReserves
    TokenWord <- MCTokenWord
    E18 = 100
    Txs <- MCTxs
    Pools <- MCPools
    PoolLists <- MCPoolLists
    Liquidities <- MCLiquidities
    Snapshots <- MCSnapshots
    StrategySets <- MCStrategySets
    MaxAge = 2
    MaxNow = 3
    MaxPositions = 2
    MaxIndex = 3
SPECIFICATION PricesSpec
INVARIANTS
    PricingInv
    SwapsSound
    
    
    DetectedBuilds
    GasInv
    BidStaysPayable
CHECK_DEADLOCK FALSE
