SPECIFICATION BundlePathSpec
CONSTANTS
    r1 = r1
    r2 = r2
    r3 = r3
    Relays <- Two
    Primary = r1
    MaxRetries = 1
    Answers = {"accepted", "refused", "rejected", "empty"}
    MaxCalls = 2
CHECK_DEADLOCK FALSE
INVARIANTS
    RelayInv
    SuccessIsHeld
    ExecutionInv
    
    WatcherInv
PROPERTIES
    SendersEnd
    Reconnects
    PollMovesForward
    ScansEnd
