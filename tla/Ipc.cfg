\* Two clients and a descriptor table that both of them and the configuration file fill.
SPECIFICATION Spec
CONSTANTS
    c1 = c1
    c2 = c2
    g1 = g1
    g2 = g2
    Clients <- MCClients
    Generators <- MCGenerators
    Pktlen = 2
    MaxPackets = 1
    MaxFd = 4
    SocketBuffer = 1
INVARIANTS
    LossOnlyByCollision
    OwnClient
    HandshakeFirst
    ReloadUndisturbed
    RefusesOnlyWhenFull
PROPERTY
    ClientsServed
\* The program exits when the configuration file cannot be opened.
CHECK_DEADLOCK FALSE
