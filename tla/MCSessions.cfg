CONSTANTS
    Tokens = {t1, t2, t3}
    Names = {alice, bob}
    NoName = NoName
    Max = 2
    Timeout = 2
    MaxTime = 6
SPECIFICATION Spec
INVARIANT TypeOK
INVARIANT AtMostMaxSessions
PROPERTY EndedStaysEnded
PROPERTY RefusedOnlyWhenFull
PROPERTY CleanupSparesValid
PROPERTY ImplementsTable
