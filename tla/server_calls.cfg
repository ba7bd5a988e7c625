SPECIFICATION FairSpec
CONSTANTS
    Requests = {1, 2}
    Detections <- SomeDetections
    MaxFee = 3
    FloorFee = 1
    CallGas = 2
    Subscribers = {s1}
    MinProfit <- OneMin
    BroadcastCapacity = 1
    StreamBuffer = 1
CHECK_DEADLOCK FALSE
INVARIANTS
    
    Stage2OneFee
    StreamComplete
PROPERTIES
    
    AllServed
