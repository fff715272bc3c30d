CONSTANTS
    UserNames = {"alice", "bob", "Bob"}
    GroupNames = {"admins", "users"}
    AdminGroups = {"admins"}
    Passwords = {"p", "q"}
    UserIds = {1, 2, 3}
    GroupIds = {1, 2, 3}
    Lower <- MCLower
    SeedUsers <- MCSeedUsers
    SeedGroups <- MCSeedGroups
    SeedMembers <- MCSeedMembers
    Conns = {"c1"}
    Addrs = {"a1"}
    AddrOf <- MCAddrOf
    MaxConns = 1
    BindLimit = 1
    SearchLimit = 1
    MaxChanges = 2
SPECIFICATION Spec
INVARIANT BindVerdictRight
INVARIANT RevealedWithinRole
INVARIANT AnswerIsTheDirectory
