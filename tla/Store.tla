-------------------------------- MODULE Store -------------------------------
(***************************************************************************)
(* The SQLite store, internal/store/store.go: the tables users, groups and *)
(* user_groups, the AUTOINCREMENT counters behind their ids, and the       *)
(* foreign-key setting of the connection in use.                           *)
(*                                                                         *)
(* The pool holds one connection (SetMaxOpenConns(1)), so transactions and *)
(* single statements exclude each other and each is one action here.       *)
(* PRAGMA foreign_keys belongs to a connection and is set once, when the   *)
(* store is opened: a connection the pool opens later runs without it, and *)
(* ON DELETE CASCADE does nothing on it.                                   *)
(***************************************************************************)
EXTENDS Integers, Sequences

CONSTANTS
    UserNames, GroupNames, Passwords,
    Blank,          \* a form field that is empty after TrimSpace
    Fold,           \* Fold[n]: the lower-case form of group name n
    MaxUid, MaxGid, \* bounds on the number of rows ever inserted
    MaxAsked        \* bound on the group names one form sends

ASSUME StoreAssumption ==
    /\ Blank \notin UserNames \cup GroupNames \cup Passwords
    /\ DOMAIN Fold = GroupNames
    /\ MaxUid \in Nat /\ MaxGid \in Nat /\ MaxAsked \in Nat

VARIABLES
    users,          \* set of [id, name, pw, disabled]
    groups,         \* set of [id, name]
    userGroups,     \* set of <<user_id, group_id>>
    lastUid,        \* sqlite_sequence of users: the largest id ever used
    lastGid,        \* sqlite_sequence of groups
    fkOn,           \* foreign_keys of the pool's current connection
    lapsed          \* history: some connection has run without foreign keys

vars == <<users, groups, userGroups, lastUid, lastGid, fkOn, lapsed>>

UserIds == 1..MaxUid
GroupIds == 1..MaxGid

(* Group lists of a form: bounded sequences of names, blanks included.     *)
Asked == UNION {[1..n -> GroupNames \cup {Blank}] : n \in 0..MaxAsked}

User == [id : UserIds, name : UserNames, pw : Passwords, disabled : BOOLEAN]
Group == [id : GroupIds, name : GroupNames]

TypeOK ==
    /\ users \in SUBSET User
    /\ groups \in SUBSET Group
    /\ userGroups \in SUBSET (UserIds \X GroupIds)
    /\ lastUid \in 0..MaxUid
    /\ lastGid \in 0..MaxGid
    /\ fkOn \in BOOLEAN
    /\ lapsed \in BOOLEAN

Init ==
    /\ users = {}
    /\ groups = {}
    /\ userGroups = {}
    /\ lastUid = 0
    /\ lastGid = 0
    /\ fkOn = TRUE
    /\ lapsed = FALSE

-----------------------------------------------------------------------------
LiveUserIds == {u.id : u \in users}
LiveGroupIds == {g.id : g \in groups}

(* What the joins of userGroups and groupMembers can see: a row counts     *)
(* only while both of its ends exist.                                      *)
Joined == {m \in userGroups : m[1] \in LiveUserIds /\ m[2] \in LiveGroupIds}

SameName(a, b) == Fold[a] = Fold[b]

(* uniqueNames: of the names that differ only in case, the first one.      *)
UniqueNames(asked) ==
    {asked[i] : i \in {i \in DOMAIN asked :
        /\ asked[i] # Blank
        /\ \A j \in 1..(i - 1) :
              asked[j] # Blank => ~SameName(asked[j], asked[i])}}

(* assignGroupsTx looks every name up and fails on the first unknown one.  *)
KnownNames(asked) == UniqueNames(asked) \subseteq {g.name : g \in groups}
AskedIds(asked) == {g.id : g \in {h \in groups : h.name \in UniqueNames(asked)}}

(* Fault: INTEGER PRIMARY KEY without AUTOINCREMENT takes max(id) + 1.     *)
NextUidReused ==
    IF users = {} THEN 1
    ELSE (CHOOSE i \in LiveUserIds : \A j \in LiveUserIds : j <= i) + 1
NextUid == lastUid + 1

NextGid == lastGid + 1

(* Fault: the column lacks UNIQUE.                                         *)
GroupNameTakenNever(n, id) == FALSE
GroupNameTaken(n, id) == \E g \in groups : g.name = n /\ g.id # id

(* Fault: the username column lacks UNIQUE.                                *)
UserNameTakenNever(n) == FALSE
UserNameTaken(n) == \E u \in users : u.name = n

(* Fault: an empty field passes.                                           *)
FilledAlways(field) == TRUE
Filled(field) == field # Blank

(* user_groups is keyed by the pair, so a second insert of it fails.       *)
CreateUser(name, pw, disabled, asked) ==
    /\ Filled(name) /\ Filled(pw)
    /\ lastUid < MaxUid
    /\ ~UserNameTaken(name)
    /\ KnownNames(asked)
    /\ ({NextUid} \X AskedIds(asked)) \cap userGroups = {}
    /\ users' = users \cup {[id |-> NextUid, name |-> name, pw |-> pw,
                             disabled |-> disabled]}
    /\ userGroups' = userGroups \cup ({NextUid} \X AskedIds(asked))
    /\ lastUid' = NextUid
    /\ UNCHANGED <<groups, lastGid, fkOn, lapsed>>

(* A blank password keeps the stored hash; the groups are replaced.        *)
UpdateUser(id, pw, disabled, asked) ==
    /\ \E u \in users :
          /\ u.id = id
          /\ users' = (users \ {u}) \cup
                {[id |-> id, name |-> u.name, disabled |-> disabled,
                  pw |-> IF Filled(pw) THEN pw ELSE u.pw]}
    /\ KnownNames(asked)
    /\ userGroups' = {m \in userGroups : m[1] # id}
                        \cup ({id} \X AskedIds(asked))
    /\ UNCHANGED <<groups, lastUid, lastGid, fkOn, lapsed>>

(* ON DELETE CASCADE, if the connection enforces foreign keys.             *)
(* Fault: the foreign keys do not cascade.                                 *)
CascadeNever(rows) == userGroups
Cascade(rows) == IF fkOn THEN userGroups \ rows ELSE userGroups

DeleteUser(id) ==
    /\ users' = {u \in users : u.id # id}
    /\ userGroups' = Cascade({m \in userGroups : m[1] = id})
    /\ UNCHANGED <<groups, lastUid, lastGid, fkOn, lapsed>>

CreateGroup(name) ==
    /\ Filled(name)
    /\ lastGid < MaxGid
    /\ ~GroupNameTaken(name, 0)
    /\ groups' = groups \cup {[id |-> NextGid, name |-> name]}
    /\ lastGid' = NextGid
    /\ UNCHANGED <<users, userGroups, lastUid, fkOn, lapsed>>

(* An UPDATE of an id that is gone changes no row.                         *)
UpdateGroup(id, name) ==
    /\ Filled(name)
    /\ \E g \in groups :
          /\ g.id = id
          /\ ~GroupNameTaken(name, id)
          /\ groups' = (groups \ {g}) \cup {[id |-> id, name |-> name]}
    /\ UNCHANGED <<users, userGroups, lastUid, lastGid, fkOn, lapsed>>

DeleteGroup(id) ==
    /\ groups' = {g \in groups : g.id # id}
    /\ userGroups' = Cascade({m \in userGroups : m[2] = id})
    /\ UNCHANGED <<users, lastUid, lastGid, fkOn, lapsed>>

(* database/sql drops a connection it finds unusable and opens another.    *)
ReplaceConnection ==
    /\ fkOn' = FALSE
    /\ lapsed' = TRUE
    /\ UNCHANGED <<users, groups, userGroups, lastUid, lastGid>>

(* A restart runs Migrate: the tables are kept, the pragma is set again.   *)
Migrate ==
    /\ fkOn' = TRUE
    /\ UNCHANGED <<users, groups, userGroups, lastUid, lastGid, lapsed>>

Next ==
    \/ \E name \in UserNames \cup {Blank}, pw \in Passwords \cup {Blank},
          disabled \in BOOLEAN, asked \in Asked :
             CreateUser(name, pw, disabled, asked)
    \/ \E id \in UserIds, pw \in Passwords \cup {Blank},
          disabled \in BOOLEAN, asked \in Asked :
             UpdateUser(id, pw, disabled, asked)
    \/ \E id \in UserIds : DeleteUser(id)
    \/ \E name \in GroupNames \cup {Blank} :
          \/ CreateGroup(name)
          \/ \E id \in GroupIds : UpdateGroup(id, name)
    \/ \E id \in GroupIds : DeleteGroup(id)
    \/ ReplaceConnection
    \/ Migrate

Spec == Init /\ [][Next]_vars

-----------------------------------------------------------------------------
(* A username or an id names at most one account, and a group likewise:    *)
(* sessions, binds and revocation all address accounts by username alone.  *)
KeysIdentify ==
    /\ \A u, v \in users : u.id = v.id \/ u.name = v.name => u = v
    /\ \A g, h \in groups : g.id = h.id \/ g.name = h.name => g = h

(* While every connection has enforced foreign keys, deletions leave no    *)
(* membership row behind whose account or group is gone.                   *)
NoDanglingRows == ~lapsed => userGroups = Joined

(* Through the joins the store behaves as the ideal directory even when    *)
(* cascades were off: rows left behind by a deletion never become a        *)
(* membership of a later account or group, because ids are not reused.     *)
Dir == INSTANCE Directory WITH
          members <- Joined, usedUids <- 1..lastUid, usedGids <- 1..lastGid
ImplementsDirectory == Dir!DirSpec

=============================================================================
