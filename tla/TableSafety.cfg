CONSTANTS
    s1 = s1
    s2 = s2
    s3 = s3
    a = a
    b = b
    c = c
    NumManagers = 2
    NumBuckets = 1
    Sessions = {s1, s2, s3}
    Home <- TwoManagersHome
    Keys = {a, b, c}
    ManagerOf <- TwoManagersManagerOf
    BucketOf <- TwoManagersBucketOf
    Lengths = {1}
    BufferSize = 3
    DestroyTime = 1
    Flows = 2
    StartDeep = {TRUE, FALSE}
    NoThread = NoThread
    NoSession = NoSession
    NoFlow = NoFlow
SYMMETRY Symmetry
SPECIFICATION Spec
INVARIANTS
    SessionsConserved
    OneSessionPerKey
    OnlyIdleDeleted
    FlowsConserved
