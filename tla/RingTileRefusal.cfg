CONSTANTS
    p1 = p1
    p2 = p2
    c1 = c1
    c2 = c2
    x = x
    y = y
    Producers = {p1}
    Consumers = {c1}
    Items = {x, y}
    Junk = Junk
    NoThread = NoThread
    Capacity = 4
    Batch = 2
    Wide = 64
    Narrow = 32
    CountBound = 12
    SendOps = {"one"}
    RecvOps = {"many"}
    EnqLocked = FALSE
    DeqLocked = FALSE
    Tilera = TRUE
SYMMETRY Symmetry
SPECIFICATION Spec
PROPERTIES
    ImplementsFifo
