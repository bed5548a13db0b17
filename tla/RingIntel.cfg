CONSTANTS
    p1 = p1
    p2 = p2
    c1 = c1
    c2 = c2
    x = x
    y = y
    Producers = {p1, p2}
    Consumers = {c1, c2}
    Items = {x, y}
    Junk = Junk
    NoThread = NoThread
    Capacity = 4
    Batch = 2
    Wide = 64
    Narrow = 32
    CountBound = 6
    SendOps = {"one", "many"}
    RecvOps = {"one", "many"}
    EnqLocked = TRUE
    DeqLocked = TRUE
    Tilera = FALSE
SYMMETRY Symmetry
SPECIFICATION Spec
INVARIANTS
    TypeOK
    NoSlotRace
    CountersOrdered
PROPERTIES
    ImplementsFifo
