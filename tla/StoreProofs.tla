----------------------------- MODULE StoreProofs ----------------------------
(***************************************************************************)
(* Proofs about the tables of internal/store/store.go for any names, group *)
(* lists and numbers of rows.                                              *)
(*                                                                         *)
(* The invariant adds to the types that every id in use, also one in a     *)
(* membership row that lost its account or group, is at most the           *)
(* AUTOINCREMENT counter of its table.  A new row's id is above all of     *)
(* them, which is why rows left behind by a deletion without cascades can  *)
(* never join with a later account or group.                               *)
(***************************************************************************)
EXTENDS Store, TLAPS

USE StoreAssumption

(* Every id in the tables was drawn from the counters.                     *)
IdsDrawn ==
    /\ \A u \in users : u.id <= lastUid
    /\ \A g \in groups : g.id <= lastGid
    /\ \A m \in userGroups : m[1] <= lastUid /\ m[2] <= lastGid

IInv == TypeOK /\ IdsDrawn /\ KeysIdentify

(* The group ids a save assigns belong to groups that exist.               *)
LEMMA AskedAreLive ==
    ASSUME TypeOK, NEW asked
    PROVE  AskedIds(asked) \subseteq LiveGroupIds /\ LiveGroupIds \subseteq GroupIds
  BY DEF AskedIds, LiveGroupIds, TypeOK, Group

(* One transaction keeps types, counters and keys.                         *)
LEMMA IInvStep ==
    ASSUME IInv, [Next]_vars
    PROVE  IInv'
  <1> USE DEF IInv, TypeOK, IdsDrawn, KeysIdentify, User, Group, UserIds, GroupIds
  <1>1. ASSUME NEW name \in UserNames \cup {Blank},
               NEW pw \in Passwords \cup {Blank}, NEW disabled \in BOOLEAN,
               NEW asked \in Asked, CreateUser(name, pw, disabled, asked)
        PROVE  IInv'
    <2>1. /\ NextUid \in UserIds /\ NextUid > lastUid
          /\ AskedIds(asked) \subseteq GroupIds
          /\ \A i \in AskedIds(asked) : i <= lastGid
      BY <1>1, AskedAreLive DEF CreateUser, NextUid, AskedIds
    <2>2. \A u \in users : u.id # NextUid /\ u.name # name
      BY <1>1, <2>1 DEF CreateUser, UserNameTaken
    <2>3. TypeOK'
      BY <1>1, <2>1 DEF Filled, CreateUser
    <2>4. IdsDrawn'
      BY <1>1, <2>1 DEF CreateUser
    <2>5. KeysIdentify'
      BY <1>1, <2>2 DEF CreateUser
    <2> QED BY <2>3, <2>4, <2>5
  <1>2. ASSUME NEW id \in UserIds, NEW pw \in Passwords \cup {Blank},
               NEW disabled \in BOOLEAN, NEW asked \in Asked,
               UpdateUser(id, pw, disabled, asked)
        PROVE  IInv'
    <2>1. /\ AskedIds(asked) \subseteq GroupIds
          /\ \A i \in AskedIds(asked) : i <= lastGid
      BY AskedAreLive DEF AskedIds
    <2>2. PICK u \in users :
             /\ u.id = id
             /\ users' = (users \ {u}) \cup
                   {[id |-> id, name |-> u.name, disabled |-> disabled,
                     pw |-> IF Filled(pw) THEN pw ELSE u.pw]}
      BY <1>2 DEF UpdateUser
    <2>3. TypeOK'
      BY <1>2, <2>1, <2>2 DEF Filled, UpdateUser
    <2>4. IdsDrawn'
      BY <1>2, <2>1, <2>2 DEF UpdateUser
    <2>5. KeysIdentify'
      BY <1>2, <2>2 DEF UpdateUser
    <2> QED BY <2>3, <2>4, <2>5
  <1>3. ASSUME NEW id \in UserIds, DeleteUser(id) PROVE IInv'
    BY <1>3 DEF DeleteUser, Cascade
  <1>4. ASSUME NEW name \in GroupNames \cup {Blank}, CreateGroup(name)
        PROVE  IInv'
    <2>1. NextGid \in GroupIds /\ NextGid > lastGid
      BY <1>4 DEF CreateGroup, NextGid
    <2>2. \A g \in groups : g.id # NextGid /\ g.name # name
      BY <1>4, <2>1 DEF CreateGroup, GroupNameTaken
    <2> QED BY <1>4, <2>1, <2>2 DEF CreateGroup, Filled
  <1>5. ASSUME NEW id \in GroupIds, NEW name \in GroupNames \cup {Blank},
               UpdateGroup(id, name)
        PROVE  IInv'
    BY <1>5 DEF Filled, UpdateGroup, GroupNameTaken
  <1>6. ASSUME NEW id \in GroupIds, DeleteGroup(id) PROVE IInv'
    BY <1>6 DEF DeleteGroup, Cascade
  <1>7. CASE ReplaceConnection
    BY <1>7 DEF ReplaceConnection
  <1>8. CASE Migrate
    BY <1>8 DEF Migrate
  <1>9. CASE UNCHANGED vars
    BY <1>9 DEF vars
  <1> HIDE DEF IInv, TypeOK, IdsDrawn, KeysIdentify, User, Group, UserIds, GroupIds
  <1> QED
    BY <1>1, <1>2, <1>3, <1>4, <1>5, <1>6, <1>7, <1>8, <1>9 DEF Next

(* The inductive invariant holds in every reachable state.                 *)
THEOREM Inductive == Spec => []IInv
  <1>1. Init => IInv
    <2> SUFFICES ASSUME Init PROVE IInv
      OBVIOUS
    <2>1. fkOn \in BOOLEAN /\ lapsed \in BOOLEAN
      BY Zenon DEF Init
    <2>2. lastUid \in 0..MaxUid /\ lastGid \in 0..MaxGid
      BY DEF Init
    <2>3. users = {} /\ groups = {} /\ userGroups = {}
      BY DEF Init
    <2> QED BY <2>1, <2>2, <2>3 DEF IInv, TypeOK, IdsDrawn, KeysIdentify
  <1>2. IInv /\ [Next]_vars => IInv'
    BY IInvStep
  <1> QED BY <1>1, <1>2, PTL DEF Spec

(* Every state is well typed.                                              *)
THEOREM TypeCorrect == Spec => []TypeOK
  BY Inductive, PTL DEF IInv

(* Usernames, group names and ids each name at most one row: what lets the *)
(* servers address an account by its username alone.                       *)
THEOREM KeysAlwaysIdentify == Spec => []KeysIdentify
  BY Inductive, PTL DEF IInv

-----------------------------------------------------------------------------
(* How each transaction changes what the joins see.                        *)
LEMMA JoinedCreateUser ==
    ASSUME IInv, NEW name, NEW pw, NEW disabled, NEW asked,
           CreateUser(name, pw, disabled, asked)
    PROVE  Joined' = Joined \cup ({NextUid} \X AskedIds(asked))
  <1>1. LiveUserIds' = LiveUserIds \cup {NextUid} /\ LiveGroupIds' = LiveGroupIds
    <2> DEFINE u == [id |-> NextUid, name |-> name, pw |-> pw, disabled |-> disabled]
    <2>1. users' = users \cup {u} /\ groups' = groups /\ u.id = NextUid
      BY DEF CreateUser
    <2> HIDE DEF u
    <2> QED BY <2>1 DEF LiveUserIds, LiveGroupIds
  <1>2. \A m \in userGroups : m[1] # NextUid
    BY DEF NextUid, UserIds, IInv, TypeOK, IdsDrawn
  <1>3. userGroups' = userGroups \cup ({NextUid} \X AskedIds(asked))
    BY DEF CreateUser
  <1>4. AskedIds(asked) \subseteq LiveGroupIds
    BY AskedAreLive DEF IInv
  <1> QED BY <1>1, <1>2, <1>3, <1>4 DEF Joined

LEMMA JoinedUpdateUser ==
    ASSUME IInv, NEW id \in UserIds, NEW pw, NEW disabled, NEW asked,
           UpdateUser(id, pw, disabled, asked)
    PROVE  Joined' = {m \in Joined : m[1] # id} \cup ({id} \X AskedIds(asked))
  <1>1. LiveUserIds' = LiveUserIds /\ LiveGroupIds' = LiveGroupIds /\ id \in LiveUserIds
    <2>1. PICK old \in users :
             /\ old.id = id
             /\ users' = (users \ {old}) \cup
                   {[id |-> id, name |-> old.name, disabled |-> disabled,
                     pw |-> IF Filled(pw) THEN pw ELSE old.pw]}
      BY DEF UpdateUser
    <2> DEFINE u == [id |-> id, name |-> old.name, disabled |-> disabled,
                     pw |-> IF Filled(pw) THEN pw ELSE old.pw]
    <2>2. users' = (users \ {old}) \cup {u} /\ groups' = groups /\ u.id = id
      BY <2>1 DEF UpdateUser
    <2> HIDE DEF u
    <2> QED BY <2>1, <2>2 DEF LiveUserIds, LiveGroupIds
  <1>2. AskedIds(asked) \subseteq LiveGroupIds
    BY AskedAreLive DEF IInv
  <1>3. userGroups' = {m \in userGroups : m[1] # id} \cup ({id} \X AskedIds(asked))
    BY DEF UpdateUser
  <1> QED BY <1>1, <1>2, <1>3 DEF Joined

LEMMA JoinedDeleteUser ==
    ASSUME IInv, NEW id, DeleteUser(id)
    PROVE  Joined' = {m \in Joined : m[1] # id}
  <1>1. LiveUserIds' = LiveUserIds \ {id} /\ LiveGroupIds' = LiveGroupIds
    BY DEF DeleteUser, LiveUserIds, LiveGroupIds
  <1> QED BY <1>1 DEF DeleteUser, Cascade, Joined

LEMMA JoinedDeleteGroup ==
    ASSUME IInv, NEW id, DeleteGroup(id)
    PROVE  Joined' = {m \in Joined : m[2] # id}
  <1>1. LiveGroupIds' = LiveGroupIds \ {id} /\ LiveUserIds' = LiveUserIds
    BY DEF DeleteGroup, LiveUserIds, LiveGroupIds
  <1> QED BY <1>1 DEF DeleteGroup, Cascade, Joined

LEMMA JoinedCreateGroup ==
    ASSUME IInv, NEW name, CreateGroup(name)
    PROVE  Joined' = Joined
  <1>1. LiveGroupIds' = LiveGroupIds \cup {NextGid} /\ LiveUserIds' = LiveUserIds
    <2> DEFINE g == [id |-> NextGid, name |-> name]
    <2>1. groups' = groups \cup {g} /\ users' = users /\ g.id = NextGid
      BY DEF CreateGroup
    <2> HIDE DEF g
    <2> QED BY <2>1 DEF LiveUserIds, LiveGroupIds
  <1>2. \A m \in userGroups : m[2] # NextGid
    BY DEF NextGid, GroupIds, IInv, TypeOK, IdsDrawn
  <1> QED BY <1>1, <1>2 DEF CreateGroup, Joined

LEMMA JoinedUpdateGroup ==
    ASSUME IInv, NEW id, NEW name, UpdateGroup(id, name)
    PROVE  Joined' = Joined
  <1>1. LiveGroupIds' = LiveGroupIds /\ LiveUserIds' = LiveUserIds
    <2> DEFINE g == [id |-> id, name |-> name]
    <2>1. PICK old \in groups :
             old.id = id /\ groups' = (groups \ {old}) \cup {g}
      BY DEF UpdateGroup
    <2>2. users' = users /\ g.id = id
      BY DEF UpdateGroup
    <2> HIDE DEF g
    <2> QED BY <2>1, <2>2 DEF LiveUserIds, LiveGroupIds
  <1> QED BY <1>1 DEF UpdateGroup, Joined

(* Steps that change neither accounts, groups nor membership rows.         *)
LEMMA JoinedUnchanged ==
    ASSUME UNCHANGED <<users, groups, userGroups>>
    PROVE  Joined' = Joined
  BY DEF Joined, LiveUserIds, LiveGroupIds

-----------------------------------------------------------------------------
(* As long as no connection ran without foreign keys, no membership row    *)
(* outlives its account or group.                                          *)
THEOREM CascadesLeaveNothing == Spec => []NoDanglingRows
  <1>1. Init => NoDanglingRows
    BY DEF Init, NoDanglingRows, Joined
  <1>2. IInv /\ (~lapsed => fkOn) /\ NoDanglingRows /\ [Next]_vars
          => NoDanglingRows' /\ (~lapsed' => fkOn')
    <2> SUFFICES ASSUME IInv, ~lapsed => fkOn, NoDanglingRows, [Next]_vars
                 PROVE  NoDanglingRows' /\ (~lapsed' => fkOn')
      OBVIOUS
    <2>1. ASSUME NEW name, NEW pw, NEW disabled, NEW asked,
                 CreateUser(name, pw, disabled, asked)
          PROVE  NoDanglingRows' /\ (~lapsed' => fkOn')
      BY <2>1, JoinedCreateUser DEF CreateUser, NoDanglingRows
    <2>2. ASSUME NEW id \in UserIds, NEW pw, NEW disabled, NEW asked,
                 UpdateUser(id, pw, disabled, asked)
          PROVE  NoDanglingRows' /\ (~lapsed' => fkOn')
      BY <2>2, JoinedUpdateUser DEF UpdateUser, NoDanglingRows
    <2>3. ASSUME NEW id, DeleteUser(id)
          PROVE  NoDanglingRows' /\ (~lapsed' => fkOn')
      BY <2>3, JoinedDeleteUser DEF DeleteUser, Cascade, NoDanglingRows
    <2>4. ASSUME NEW name, CreateGroup(name)
          PROVE  NoDanglingRows' /\ (~lapsed' => fkOn')
      BY <2>4, JoinedCreateGroup DEF CreateGroup, NoDanglingRows
    <2>5. ASSUME NEW id, NEW name, UpdateGroup(id, name)
          PROVE  NoDanglingRows' /\ (~lapsed' => fkOn')
      BY <2>5, JoinedUpdateGroup DEF UpdateGroup, NoDanglingRows
    <2>6. ASSUME NEW id, DeleteGroup(id)
          PROVE  NoDanglingRows' /\ (~lapsed' => fkOn')
      BY <2>6, JoinedDeleteGroup DEF DeleteGroup, Cascade, NoDanglingRows
    <2>7. CASE ReplaceConnection
      BY <2>7 DEF ReplaceConnection, NoDanglingRows
    <2>8. CASE Migrate
      BY <2>8, JoinedUnchanged DEF Migrate, NoDanglingRows
    <2>9. CASE UNCHANGED vars
      BY <2>9, JoinedUnchanged DEF vars, NoDanglingRows
    <2> QED
      BY <2>1, <2>2, <2>3, <2>4, <2>5, <2>6, <2>7, <2>8, <2>9 DEF Next
  <1>3. Init => (~lapsed => fkOn)
    BY DEF Init
  <1> QED BY <1>1, <1>2, <1>3, Inductive, PTL DEF Spec

(* Whatever connections come and go, the joins show an ideal directory:    *)
(* deletions take memberships with them and no account or group inherits   *)
(* any.                                                                    *)
THEOREM Refinement == Spec => ImplementsDirectory
  <1>1. Init => Dir!DirInit
    BY DEF Init, Dir!DirInit, Joined
  <1>2. IInv /\ [Next]_vars => [Dir!DirNext]_(Dir!dirVars)
    <2> SUFFICES ASSUME IInv, [Next]_vars
                 PROVE  Dir!DirNext \/ UNCHANGED Dir!dirVars
      OBVIOUS
    <2>0. /\ Dir!User = User /\ Dir!Group = Group
          /\ Dir!LiveGroupIds = LiveGroupIds
      BY DEF Dir!User, User, Dir!Group, Group, Dir!LiveGroupIds, LiveGroupIds
    <2>1. ASSUME NEW name \in UserNames \cup {Blank},
                 NEW pw \in Passwords \cup {Blank}, NEW disabled \in BOOLEAN,
                 NEW asked \in Asked, CreateUser(name, pw, disabled, asked)
          PROVE  Dir!DirNext
      <3> DEFINE u == [id |-> NextUid, name |-> name, pw |-> pw, disabled |-> disabled]
      <3>1. u \in Dir!User /\ u.id = NextUid /\ u.name = name
        BY <2>0, <2>1 DEF Filled, CreateUser, User, UserIds, NextUid, IInv, TypeOK
      <3>2. \A v \in users : v.id # NextUid /\ v.name # name
        BY <2>1 DEF CreateUser, UserNameTaken, NextUid, IInv, IdsDrawn, TypeOK,
                    User, UserIds
      <3>3. AskedIds(asked) \in SUBSET Dir!LiveGroupIds
        BY <2>0, AskedAreLive DEF IInv
      <3>4. Dir!CreateUser(u, AskedIds(asked))
        <4>1. NextUid \notin 1..lastUid /\ 1..NextUid = (1..lastUid) \cup {NextUid}
          BY DEF NextUid, IInv, TypeOK
        <4>2. u.id = NextUid /\ u.name = name /\ users' = users \cup {u}
          BY <2>1 DEF CreateUser
        <4> HIDE DEF u
        <4>3. Joined' = Joined \cup ({u.id} \X AskedIds(asked))
          BY <2>1, <4>2, JoinedCreateUser
        <4>4. (1..lastUid)' = (1..lastUid) \cup {u.id}
          BY <2>1, <4>1, <4>2 DEF CreateUser
        <4> QED BY <2>1, <3>2, <3>3, <4>1, <4>2, <4>3, <4>4
                DEF CreateUser, Dir!CreateUser
      <3> QED BY <3>1, <3>3, <3>4 DEF Dir!DirNext
    <2>2. ASSUME NEW id \in UserIds, NEW pw \in Passwords \cup {Blank},
                 NEW disabled \in BOOLEAN, NEW asked \in Asked,
                 UpdateUser(id, pw, disabled, asked)
          PROVE  Dir!DirNext
      <3>1. PICK old \in users :
               /\ old.id = id
               /\ users' = (users \ {old}) \cup
                     {[id |-> id, name |-> old.name, disabled |-> disabled,
                       pw |-> IF Filled(pw) THEN pw ELSE old.pw]}
        BY <2>2 DEF UpdateUser
      <3> DEFINE u == [id |-> id, name |-> old.name, disabled |-> disabled,
                       pw |-> IF Filled(pw) THEN pw ELSE old.pw]
      <3>2. u \in Dir!User
        BY <2>0 DEF Filled, IInv, TypeOK, User
      <3>3. AskedIds(asked) \in SUBSET Dir!LiveGroupIds
        BY <2>0, AskedAreLive DEF IInv
      <3>4. Dir!UpdateUser(old, u, AskedIds(asked))
        BY <2>2, <3>1, <3>3, JoinedUpdateUser DEF UpdateUser, Dir!UpdateUser
      <3> QED BY <3>2, <3>3, <3>4 DEF Dir!DirNext
    <2>3. ASSUME NEW id \in UserIds, DeleteUser(id) PROVE Dir!DirNext
      BY <2>3, JoinedDeleteUser DEF DeleteUser, Dir!DeleteUser, Dir!DirNext
    <2>4. ASSUME NEW name \in GroupNames \cup {Blank}, CreateGroup(name)
          PROVE  Dir!DirNext
      <3> DEFINE g == [id |-> NextGid, name |-> name]
      <3>1. g \in Dir!Group
        BY <2>0, <2>4 DEF Filled, CreateGroup, Group, GroupIds, NextGid, IInv, TypeOK
      <3>2. \A h \in groups : h.id # NextGid /\ h.name # name
        BY <2>4 DEF CreateGroup, GroupNameTaken, NextGid, IInv, IdsDrawn, TypeOK,
                    Group, GroupIds
      <3>3. Dir!CreateGroup(g)
        <4>1. NextGid \notin 1..lastGid /\ 1..NextGid = (1..lastGid) \cup {NextGid}
          BY DEF NextGid, IInv, TypeOK
        <4>2. (1..lastGid)' = (1..lastGid) \cup {NextGid}
          BY <2>4, <4>1 DEF CreateGroup
        <4> QED BY <2>4, <3>2, <4>1, <4>2, JoinedCreateGroup
                DEF CreateGroup, Dir!CreateGroup
      <3> QED BY <3>1, <3>3 DEF Dir!DirNext
    <2>5. ASSUME NEW id \in GroupIds, NEW name \in GroupNames \cup {Blank},
                 UpdateGroup(id, name)
          PROVE  Dir!DirNext
      <3>1. PICK old \in groups :
               /\ old.id = id
               /\ ~GroupNameTaken(name, id)
               /\ groups' = (groups \ {old}) \cup {[id |-> id, name |-> name]}
        BY <2>5 DEF UpdateGroup
      <3> DEFINE g == [id |-> id, name |-> name]
      <3>2. g \in Dir!Group
        BY <2>0, <2>5 DEF Filled, UpdateGroup, Group
      <3>3. \A h \in groups \ {old} : h.name # name
        BY <3>1 DEF GroupNameTaken, IInv, KeysIdentify
      <3>4. Dir!RenameGroup(old, g)
        BY <2>5, <3>1, <3>3, JoinedUpdateGroup DEF UpdateGroup, Dir!RenameGroup
      <3> QED BY <3>2, <3>4 DEF Dir!DirNext
    <2>6. ASSUME NEW id \in GroupIds, DeleteGroup(id) PROVE Dir!DirNext
      BY <2>6, JoinedDeleteGroup DEF DeleteGroup, Dir!DeleteGroup, Dir!DirNext
    <2>7. CASE ReplaceConnection \/ Migrate \/ UNCHANGED vars
      BY <2>7, JoinedUnchanged DEF ReplaceConnection, Migrate, vars, Dir!dirVars
    <2> QED
      BY <2>1, <2>2, <2>3, <2>4, <2>5, <2>6, <2>7 DEF Next
  <1> QED BY <1>1, <1>2, Inductive, PTL DEF Spec, ImplementsDirectory, Dir!DirSpec

=============================================================================
