CONSTANTS
    s1 = s1
    s2 = s2
    s3 = s3
    a = a
    b = b
    c = c
    NumManagers = 1
    NumBuckets = 1
    Sessions = {s1}
    Home <- OneManagerHome
    Keys = {a, b}
    ManagerOf <- OneManagerManagerOf
    BucketOf <- OneManagerBucketOf
    Lengths = {2}
    BufferSize = 3
    DestroyTime = 1
    Flows = 2
    StartDeep = {TRUE}
    NoThread = NoThread
    NoSession = NoSession
    NoFlow = NoFlow
SPECIFICATION FairSpec
PROPERTIES
    IdleSessionsDestroyed
