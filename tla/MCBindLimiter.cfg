CONSTANTS
    Keys = {k1, k2}
    Window = 2
    Limit = 2
    MaxTime = 7
    MaxCalls = 8
SPECIFICATION Spec
INVARIANT TypeOK
INVARIANT WindowBound
INVARIANT RefusedOnlyAtLimit
INVARIANT BucketsReclaimed
CHECK_DEADLOCK FALSE
PROPERTY ImplementsQuota
