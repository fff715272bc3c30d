CONSTANTS
    UserNames = {alice, bob}
    GroupNames <- MCGroupNames
    Passwords = {p1}
    Blank = Blank
    Fold <- MCFold
    MaxUid = 3
    MaxGid = 3
    MaxAsked = 2
SPECIFICATION Spec
INVARIANT TypeOK
INVARIANT KeysIdentify
INVARIANT NoDanglingRows
PROPERTY ImplementsDirectory
