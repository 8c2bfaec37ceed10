CONSTANTS
    Request = {r1, r2, r3}
    Free = free
    Alias = {a}
    FreshFor = 1
    MaxNow = 3
    MaxCalls = 3
SPECIFICATION FairSpec
INVARIANTS
    AtMostOneBuild
    LockHeld
    WaitersHaveBuilder
    ServedIsFresh
PROPERTY GetReturns
