CONSTANTS
    s1 = s1
    s2 = s2
    s3 = s3
    a = a
    b = b
    c = c
    NumManagers = 1
    NumBuckets = 2
    Sessions = {s1, s2}
    Home <- OneManagerHome
    Keys = {a, c}
    ManagerOf <- OneManagerManagerOf
    BucketOf <- OneManagerBucketOf
    Lengths = {1, 4}
    BufferSize = 3
    DestroyTime = 0
    Flows = 2
    StartDeep = {TRUE}
    NoThread = NoThread
    NoSession = NoSession
    NoFlow = NoFlow
SPECIFICATION FairSpec
INVARIANTS
    TypeOK
PROPERTIES
    IdleSessionsDestroyed
    FlowsHandled
