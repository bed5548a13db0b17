SPECIFICATION Spec
CONSTANTS
    NumBuckets = 2
    Nodes = {s1, s2, s3}
    k1 = k1
    k2 = k2
    k3 = k3
    Keys = {k1, k2, k3}
    BucketOf <- MCBucketOf
    NULL = NULL
    NoKey = NoKey
    NoThread = NoThread
INVARIANTS
    CirclesIntact
    WalkExact
    CountWithinOne
PROPERTIES
    PassEnds
    ImplementsOrderedBuckets
