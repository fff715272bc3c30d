CONSTANTS
    DefaultGroups <- MCGroups
    DefaultUsers <- MCUsers
    Texts = {"DC=a", "dc=b", "ou=c"}
    NoDN = "none"
    Normal <- MCNormal
    Reqs = {r1, r2}
    MaxStarts = 3
SPECIFICATION Spec
INVARIANT AppliedIsPersisted
INVARIANT PairKept
INVARIANT FailuresExplained
INVARIANT ProvisionedUnlessCut
PROPERTY FlagOnlySeeds
CHECK_DEADLOCK FALSE
