SPECIFICATION FairSpec
CONSTANTS
    Producers = {p1, p2}
    Consumers = {c1}
    SizeCallers = {c1}
    Items = {a, b}
    NoItem = NoItem
    Capacity <- CapacityFor2
    SizeModulus = 256
    MaxPushes = 3
    MaxBatch = 2
INVARIANTS
    ConsumerInv
PROPERTIES
    EveryItemTaken
