CONSTANTS
    x1 = x1
    x2 = x2
    x3 = x3
    x4 = x4
    x5 = x5
    f1 = f1
    f2 = f2
    f3 = f3
    f4 = f4
    f5 = f5
    f6 = f6
    NoPool = NoPool
    NoPacket = NoPacket
    Tilera = FALSE
    Modes = {"generator", "collector"}
    GNums = 2
    PNums = 3
    MNums = 1
    Packets = {x1, x2, x3, x4, x5}
    PacketOf <- TwoGenerators
    FlowItems = {f1, f2, f3, f4, f5, f6}
    FlowOf <- ThreeParsers
    Capacity = 3
    Count = 2
    Depths = {1, 4}
    StartDepths = {1, 4}
SYMMETRY Symmetry
SPECIFICATION Spec
INVARIANTS
    TypeOK
    BuffersConserved
    ReturnedHome
    OneSenderPerQueue
    PreparedBeforeUse
