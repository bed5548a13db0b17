SPECIFICATION Spec
CONSTANTS
    generator_nums = 2
    parser_nums = 3
    manager_nums = 2
    PoolSize = 1
    HashLength = 4
    Pktlen = 64
    Texts <- MCTexts
    Low <- MCLow
    Extra <- MCExtra
    Frames <- MCFrames
    Modes = {"tcp", "udp", "collect"}
INVARIANTS
    ParsedAsSent
    PayloadIntact
    OneSessionPerConversation
    EvenDispatch
PROPERTIES
    RangeVisited
