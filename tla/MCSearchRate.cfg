CONSTANTS
    Second = 3
    Limit = 2
    MaxTime = 10
    MaxCalls = 10
SPECIFICATION Spec
INVARIANT TypeOK
INVARIANT BurstBound
INVARIANT RefusedOnlyAtLimit
CHECK_DEADLOCK FALSE
PROPERTY ImplementsQuota
