SPECIFICATION Spec
CONSTANTS
    Threads = {t1, t2}
    MaxBlocks = 4
    InitialBlocks = 2
    UIntModulus = 32
    MaxLive = 4
    MaxBatch = 1
INVARIANTS
    ClaimedSlotIsFresh
