CONSTANTS
    Versions <- SomeVersions
    Saves <- SomeSaves
    Argvs <- SomeArgvs
    OtherFile = "other.conf"
    Defaults <- AllDefaults
    MaxPktlen = 2
    CleanDepth = 4
    Junk = {0, 9}
    Rounds = 3
    MaxSaves = 2
SPECIFICATION Spec
INVARIANTS
    LayersApplied
    StartedAsConfigured
    ReloadInForce
    ScreenFollows
CHECK_DEADLOCK FALSE
