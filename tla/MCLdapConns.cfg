CONSTANTS
    UserNames = {"alice", "bob"}
    GroupNames = {"admins", "users"}
    AdminGroups = {"admins"}
    Passwords = {"p"}
    UserIds = {1, 2, 3}
    GroupIds = {1, 2}
    Lower <- MCLower
    SeedUsers <- MCSeedUsers
    SeedGroups <- MCSeedGroups
    SeedMembers <- MCSeedMembers
    Conns = {"c1", "c2", "c3"}
    Addrs = {"a1", "a2"}
    AddrOf <- MCAddrOf
    MaxConns = 2
    BindLimit = 1
    SearchLimit = 1
    MaxChanges = 0
SPECIFICATION FairSpec
INVARIANT TokensCounted
PROPERTY OneIdentity
PROPERTY SlotsComeBack
