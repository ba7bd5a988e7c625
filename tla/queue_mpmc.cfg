SPECIFICATION Spec
CONSTANTS
    Producers = {p1, p2}
    Consumers = {c1, c2}
    SizeCallers = {}
    Items = {a, b}
    NoItem = NoItem
    Capacity <- CapacityFor2
    SizeModulus = 256
    MaxPushes = 3
    MaxBatch = 1
SYMMETRY Symmetry
INVARIANTS
    QueueInv
PROPERTIES
    ImplementsFifo
