CONSTANTS
    alice = alice
    bob = bob
    Names = {alice, bob}
    NoName = NoName
    Tokens = {t1, t2}
    Max = 2
    GroupNames = {"admins", "ops"}
    AdminNames = {"admins"}
    Passwords = {"p"}
    UserIds = {1, 2, 3}
    GroupIds = {1, 2}
    SeedUsers <- MCSeedUsers
    SeedGroups <- MCSeedGroups
    SeedMembers <- MCSeedMembers
    Reqs = {r1, r2}
    NoReq = NoReq
    MaxChanges = 2
    MaxCancel = 1
SPECIFICATION Spec
INVARIANT StaleSessionsExplained
PROPERTY SessionEndsForCause
SYMMETRY Symmetry
CHECK_DEADLOCK FALSE
