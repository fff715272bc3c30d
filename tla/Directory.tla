----------------------------- MODULE Directory ------------------------------
(***************************************************************************)
(* What the user store promises its callers: accounts, groups and a        *)
(* membership relation between accounts and groups that exist, changed     *)
(* one whole transaction at a time.  Deleting an account or a group takes  *)
(* its memberships with it, and a new account or group starts with exactly *)
(* the memberships it was given.                                           *)
(*                                                                         *)
(* Module Store (the SQLite schema and statements of                       *)
(* internal/store/store.go) is shown to implement this module, and the     *)
(* modules of the web and LDAP servers run on top of it.                   *)
(***************************************************************************)
EXTENDS Integers

CONSTANTS
    UserNames, GroupNames, Passwords,
    UserIds, GroupIds       \* row ids, as bounded by the instance

VARIABLES
    users,      \* set of [id, name, pw, disabled]
    groups,     \* set of [id, name]
    members,    \* set of <<user id, group id>>
    usedUids,   \* the user ids given out so far: none is given out twice
    usedGids    \* the group ids given out so far

dirVars == <<users, groups, members, usedUids, usedGids>>

User == [id : UserIds, name : UserNames, pw : Passwords, disabled : BOOLEAN]
Group == [id : GroupIds, name : GroupNames]

DirTypeOK ==
    /\ users \in SUBSET User
    /\ groups \in SUBSET Group
    /\ members \in SUBSET (UserIds \X GroupIds)
    /\ usedUids \in SUBSET UserIds
    /\ usedGids \in SUBSET GroupIds

LiveUserIds == {u.id : u \in users}
LiveGroupIds == {g.id : g \in groups}

DirInit ==
    /\ users = {}
    /\ groups = {}
    /\ members = {}
    /\ usedUids = {}
    /\ usedGids = {}

-----------------------------------------------------------------------------
CreateUser(u, gids) ==
    /\ u.id \notin usedUids
    /\ \A v \in users : v.name # u.name
    /\ gids \subseteq LiveGroupIds
    /\ users' = users \cup {u}
    /\ members' = members \cup ({u.id} \X gids)
    /\ usedUids' = usedUids \cup {u.id}
    /\ UNCHANGED <<groups, usedGids>>

(* An update keeps id and name and replaces the memberships.               *)
UpdateUser(old, u, gids) ==
    /\ old \in users
    /\ u.id = old.id /\ u.name = old.name
    /\ gids \subseteq LiveGroupIds
    /\ users' = (users \ {old}) \cup {u}
    /\ members' = {m \in members : m[1] # u.id} \cup ({u.id} \X gids)
    /\ UNCHANGED <<groups, usedUids, usedGids>>

DeleteUser(id) ==
    /\ users' = {u \in users : u.id # id}
    /\ members' = {m \in members : m[1] # id}
    /\ UNCHANGED <<groups, usedUids, usedGids>>

CreateGroup(g) ==
    /\ g.id \notin usedGids
    /\ \A h \in groups : h.name # g.name
    /\ groups' = groups \cup {g}
    /\ usedGids' = usedGids \cup {g.id}
    /\ UNCHANGED <<users, members, usedUids>>

RenameGroup(old, g) ==
    /\ old \in groups
    /\ g.id = old.id
    /\ \A h \in groups \ {old} : h.name # g.name
    /\ groups' = (groups \ {old}) \cup {g}
    /\ UNCHANGED <<users, members, usedUids, usedGids>>

DeleteGroup(id) ==
    /\ groups' = {g \in groups : g.id # id}
    /\ members' = {m \in members : m[2] # id}
    /\ UNCHANGED <<users, usedUids, usedGids>>

DirNext ==
    \/ \E u \in User, gids \in SUBSET LiveGroupIds :
          \/ CreateUser(u, gids)
          \/ \E old \in users : UpdateUser(old, u, gids)
    \/ \E id \in UserIds : DeleteUser(id)
    \/ \E g \in Group :
          \/ CreateGroup(g)
          \/ \E old \in groups : RenameGroup(old, g)
    \/ \E id \in GroupIds : DeleteGroup(id)

DirSpec == DirInit /\ [][DirNext]_dirVars

=============================================================================
