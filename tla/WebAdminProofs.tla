--------------------------- MODULE WebAdminProofs ---------------------------
(***************************************************************************)
(* Proofs about the administration UI for any number of concurrent         *)
(* requests, accounts, groups, sessions and changes.                       *)
(***************************************************************************)
EXTENDS WebAdmin, TLAPS

USE WebAssumption, TableAssumption

LoginSteps == {"loginGroups", "loginCreate"}

-----------------------------------------------------------------------------
(* Types, part by part: sessions with the logins that opened them, the     *)
(* directory with its counters, and the requests.                          *)
SessionsTyped ==
    /\ TableTypeOK /\ Live \subseteq issued
    /\ login \in [Tokens -> Login \cup {NoReq}]
    /\ \A t \in Live : login[t] \in Login

DirectoryTyped ==
    /\ DirTypeOK
    /\ changes \in 0..MaxChanges
    /\ version \in [UserIds -> 0..MaxChanges]
    /\ \A id \in UserIds : version[id] <= changes

RequestTyped(k) ==
    /\ k \in Request
    /\ k.pc = "idle" => k = Idle
    /\ k.pc \in LoginSteps => k.row \in User

RequestsTyped == DOMAIN req = Reqs /\ req = [r \in Reqs |-> req[r]]
                 /\ \A r \in Reqs : RequestTyped(req[r])

TypeInv ==
    /\ SessionsTyped /\ DirectoryTyped /\ RequestsTyped
    /\ cancels \in 0..MaxCancel

LEMMA TypeInvImplies == TypeInv => TypeOK
  BY DEF TypeInv, TypeOK, SessionsTyped, DirectoryTyped, RequestsTyped, RequestTyped

LEMMA IdleTyped == RequestTyped(Idle) /\ Idle.pc = "idle"
  BY DEF RequestTyped, Idle, Request, Steps, LoginSteps

(* The two records of the authentication steps.                            *)
LEMMA RowTyped ==
    ASSUME NEW k, RequestTyped(k), NEW u \in User
    PROVE  RequestTyped([k EXCEPT !.pc = "authGroups", !.row = u])
  <1>1. "authGroups" \in Steps \ LoginSteps
    BY DEF Steps, LoginSteps
  <1>2. /\ [k EXCEPT !.pc = "authGroups", !.row = u] \in Request
        /\ [k EXCEPT !.pc = "authGroups", !.row = u].pc = "authGroups"
    BY <1>1 DEF Request, RequestTyped
  <1> QED BY <1>1, <1>2 DEF RequestTyped

LEMMA AuthorisedTyped ==
    ASSUME NEW t \in Tokens \cup {NoReq}
    PROVE  RequestTyped([Idle EXCEPT !.pc = "authorised", !.tok = t])
  <1>1. "authorised" \in Steps \ LoginSteps /\ Idle \in Request
    BY IdleTyped DEF Steps, LoginSteps, RequestTyped
  <1>2. /\ [Idle EXCEPT !.pc = "authorised", !.tok = t] \in Request
        /\ [Idle EXCEPT !.pc = "authorised", !.tok = t].pc = "authorised"
    BY <1>1 DEF Request
  <1> QED BY <1>1, <1>2 DEF RequestTyped

(* Request r becomes k, and nothing or the mark of an overlap happens to   *)
(* the others.                                                             *)
LEMMA OneMoves ==
    ASSUME NEW r \in Reqs, RequestsTyped, NEW k, RequestTyped(k),
           req' = [req EXCEPT ![r] = k]
    PROVE  RequestsTyped'
  BY DEF RequestsTyped

LEMMA MarkedTyped ==
    ASSUME RequestsTyped, NEW N, NEW q \in Reqs
    PROVE  /\ RequestTyped(Overlapped(req, N)[q])
           /\ Overlapped(req, N)[q].pc = req[q].pc
           /\ Overlapped(req, N)[q].row = req[q].row
           /\ req[q].pc \notin LoginSteps => Overlapped(req, N)[q] = req[q]
  <1>1. RequestTyped(req[q])
    BY DEF RequestsTyped
  <1>2. CASE req[q].pc \in LoginSteps /\ req[q].row.name \in N
    <2>1. Overlapped(req, N)[q] = [req[q] EXCEPT !.excused = TRUE]
      BY <1>2 DEF Overlapped, LoginSteps
    <2> QED BY <1>1, <1>2, <2>1 DEF RequestTyped, Request, LoginSteps
  <1>3. CASE ~(req[q].pc \in LoginSteps /\ req[q].row.name \in N)
    <2>1. Overlapped(req, N)[q] = req[q]
      BY <1>3 DEF Overlapped, LoginSteps
    <2> QED BY <1>1, <2>1
  <1> QED BY <1>2, <1>3

LEMMA OneMovesOthersMarked ==
    ASSUME NEW r \in Reqs, RequestsTyped, NEW N, NEW k, RequestTyped(k),
           req' = [Overlapped(req, N) EXCEPT ![r] = k]
    PROVE  RequestsTyped'
  <1>1. \A q \in Reqs : RequestTyped(Overlapped(req, N)[q])
    BY MarkedTyped
  <1>2. Overlapped(req, N) = [q \in Reqs |-> Overlapped(req, N)[q]]
    BY DEF Overlapped
  <1> QED BY <1>1, <1>2 DEF RequestsTyped

LEMMA CloseTyped ==
    ASSUME SessionsTyped, NEW S, Close(S), UNCHANGED login
    PROVE  SessionsTyped'
  BY DEF SessionsTyped, TableTypeOK, Close, Without, Live

LEMMA CommitTyped ==
    ASSUME NEW r, NEW ids, DirectoryTyped, Commit(r, ids)
    PROVE  /\ changes' \in 0..MaxChanges
           /\ version' \in [UserIds -> 0..MaxChanges]
           /\ \A id \in UserIds : version'[id] <= changes'
  BY DEF DirectoryTyped, Commit

LEMMA ChangesTyped ==
    ASSUME DirTypeOK
    PROVE  /\ \A u \in User, gids \in SUBSET LiveGroupIds :
                  CreateUser(u, gids) => DirTypeOK'
           /\ \A old \in users, u \in User, gids \in SUBSET LiveGroupIds :
                  UpdateUser(old, u, gids) => DirTypeOK'
           /\ \A id : DeleteUser(id) => DirTypeOK'
           /\ \A g \in Group : CreateGroup(g) => DirTypeOK'
           /\ \A old \in groups, g \in Group : RenameGroup(old, g) => DirTypeOK'
           /\ \A id : DeleteGroup(id) => DirTypeOK'
  <1> USE DEF DirTypeOK
  <1>0. LiveGroupIds \subseteq GroupIds
    BY DEF LiveGroupIds, Group
  <1>1. ASSUME NEW u \in User, NEW gids \in SUBSET LiveGroupIds, CreateUser(u, gids)
        PROVE  DirTypeOK'
    BY <1>0, <1>1 DEF CreateUser, User
  <1>2. ASSUME NEW old \in users, NEW u \in User, NEW gids \in SUBSET LiveGroupIds,
               UpdateUser(old, u, gids)
        PROVE  DirTypeOK'
    BY <1>0, <1>2 DEF UpdateUser, User
  <1>3. ASSUME NEW id, DeleteUser(id) PROVE DirTypeOK'
    BY <1>3 DEF DeleteUser
  <1>4. ASSUME NEW g \in Group, CreateGroup(g) PROVE DirTypeOK'
    BY <1>4 DEF CreateGroup, Group
  <1>5. ASSUME NEW old \in groups, NEW g \in Group, RenameGroup(old, g) PROVE DirTypeOK'
    BY <1>5 DEF RenameGroup, Group
  <1>6. ASSUME NEW id, DeleteGroup(id) PROVE DirTypeOK'
    BY <1>6 DEF DeleteGroup
  <1> QED BY <1>1, <1>2, <1>3, <1>4, <1>5, <1>6

LEMMA NamesInTyped == ASSUME DirTypeOK, NEW gid PROVE NamesIn(gid) \subseteq Names
  BY DEF NamesIn, DirTypeOK, User

(* A step that leaves the directory and its history alone.                 *)
LEMMA DirectoryStays == ASSUME DirectoryTyped, UNCHANGED dbVars PROVE DirectoryTyped'
  BY DEF DirectoryTyped, DirTypeOK, dbVars

LEMMA SessionsStay == ASSUME SessionsTyped, UNCHANGED <<tableVars, login>> PROVE SessionsTyped'
  BY DEF SessionsTyped, TableTypeOK, tableVars, Live

LEMMA InitTyped == Init => TypeInv
  <1> SUFFICES ASSUME Init PROVE TypeInv
    OBVIOUS
  <1>1. SessionsTyped
    BY DEF Init, TableInit, SessionsTyped, TableTypeOK, Live
  <1>2. DirectoryTyped
    BY DEF Init, DirectoryTyped, DirTypeOK, User, Group, LiveUserIds, LiveGroupIds
  <1>3. RequestsTyped
    BY IdleTyped DEF Init, RequestsTyped
  <1> QED BY <1>1, <1>2, <1>3 DEF Init, TypeInv

-----------------------------------------------------------------------------
(* The steps, in the order of the handlers.                                *)
LEMMA LoginRowTyped ==
    ASSUME TypeInv, NEW r \in Reqs, NEW name \in Names, NEW pw \in Passwords,
           LoginRow(r, name, pw)
    PROVE  TypeInv'
  <1>1. PICK u \in users :
           req' = [req EXCEPT ![r] = [Idle EXCEPT !.pc = "loginGroups",
                                        !.row = u, !.version = version[u.id]]]
    BY DEF LoginRow
  <1>2. u \in User /\ version[u.id] \in 0..MaxChanges
    BY DEF TypeInv, DirectoryTyped, DirTypeOK, User
  <1>3. RequestTyped([Idle EXCEPT !.pc = "loginGroups", !.row = u, !.version = version[u.id]])
    BY <1>2, IdleTyped DEF RequestTyped, Request, Steps, Idle, LoginSteps
  <1>4. RequestsTyped'
    BY <1>1, <1>3, OneMoves DEF TypeInv
  <1> QED BY <1>4, DirectoryStays, SessionsStay DEF TypeInv, LoginRow

LEMMA LoginGroupsTyped ==
    ASSUME TypeInv, NEW r \in Reqs, LoginGroups(r)
    PROVE  TypeInv'
  <1>1. RequestTyped([req[r] EXCEPT !.pc = "loginCreate"])
    BY DEF TypeInv, LoginGroups, At, RequestsTyped, RequestTyped, Request, Steps, LoginSteps
  <1>2. RequestsTyped'
    BY <1>1, IdleTyped, OneMoves DEF TypeInv, LoginGroups, Goto, Done
  <1> QED BY <1>2, DirectoryStays, SessionsStay DEF TypeInv, LoginGroups

LEMMA LoginCreateTyped ==
    ASSUME TypeInv, NEW r \in Reqs, LoginCreate(r)
    PROVE  TypeInv'
  <1> DEFINE u == req[r].row
  <1>1. u \in User /\ req[r] \in Request
    BY DEF TypeInv, LoginCreate, At, RequestsTyped, RequestTyped, LoginSteps
  <1>2. ASSUME NEW t \in Tokens, Open({}, t, u.name),
               login' = [login EXCEPT ![t] =
                    [uid |-> u.id, version |-> req[r].version,
                     excused |-> req[r].excused \/ BetweenRevokeAndDelete(u.id)]]
        PROVE  SessionsTyped'
    <2> DEFINE l == [uid |-> u.id, version |-> req[r].version,
                     excused |-> req[r].excused \/ BetweenRevokeAndDelete(u.id)]
    <2>1. (req[r].excused \/ BetweenRevokeAndDelete(u.id)) \in BOOLEAN
      OBVIOUS
    <2>2. u.id \in UserIds /\ u.name \in Names /\ req[r].version \in 0..MaxChanges
      BY <1>1 DEF User, Request
    <2>3. l \in Login
      BY <2>1, <2>2 DEF Login
    <2> HIDE DEF l, u
    <2>4. login' = [login EXCEPT ![t] = l]
      BY <1>2 DEF l, u
    <2> QED BY <1>2, <2>2, <2>3, <2>4
            DEF TypeInv, SessionsTyped, TableTypeOK, Live, Open, Without
  <1>3. SessionsTyped'
    BY <1>2, SessionsStay DEF TypeInv, LoginCreate
  <1>4. RequestsTyped'
    BY IdleTyped, OneMoves DEF TypeInv, LoginCreate, Done
  <1> QED BY <1>3, <1>4, DirectoryStays DEF TypeInv, LoginCreate

LEMMA AuthTyped ==
    ASSUME TypeInv, NEW r \in Reqs,
           (\E t \in Tokens : AuthSession(r, t)) \/ AuthRow(r) \/ AuthGroups(r)
    PROVE  TypeInv'
  <1>0. RequestTyped(req[r])
    BY DEF TypeInv, RequestsTyped
  <1>1. ASSUME NEW t \in Tokens, AuthSession(r, t) PROVE TypeInv'
    <2>1. owner[t] \in Names
      BY <1>1 DEF AuthSession, TypeInv, SessionsTyped, TableTypeOK, Live
    <2>2. RequestTyped([Idle EXCEPT !.pc = "authRow", !.tok = t, !.name = owner[t]])
      BY <2>1, IdleTyped DEF RequestTyped, Request, Steps, Idle, LoginSteps
    <2> QED BY <1>1, <2>2, OneMoves, DirectoryStays, SessionsStay DEF TypeInv, AuthSession
  <1>2. CASE AuthRow(r)
    <2>1. ASSUME NEW u \in users, req' = [req EXCEPT ![r].pc = "authGroups", ![r].row = u]
          PROVE  RequestsTyped'
      <3>0. u \in User
        BY DEF TypeInv, DirectoryTyped, DirTypeOK
      <3>1. RequestTyped([req[r] EXCEPT !.pc = "authGroups", !.row = u])
        BY <1>0, <3>0, RowTyped
      <3>2. req' = [req EXCEPT ![r] = [req[r] EXCEPT !.pc = "authGroups", !.row = u]]
        BY <2>1 DEF TypeInv, RequestsTyped
      <3> QED BY <3>1, <3>2, OneMoves DEF TypeInv
    <2>2. RequestsTyped'
      BY <1>2, <2>1, IdleTyped, OneMoves DEF TypeInv, AuthRow, Done
    <2>3. SessionsTyped'
      BY <1>2, CloseTyped, SessionsStay DEF TypeInv, AuthRow, Revoke
    <2> QED BY <1>2, <2>2, <2>3, DirectoryStays DEF TypeInv, AuthRow
  <1>3. CASE AuthGroups(r)
    <2>0. req[r].tok \in Tokens \cup {NoReq}
      BY <1>0 DEF RequestTyped, Request
    <2>1. RequestTyped([Idle EXCEPT !.pc = "authorised", !.tok = req[r].tok])
      BY <2>0, AuthorisedTyped
    <2>2. RequestsTyped'
      BY <1>3, <2>1, IdleTyped, OneMoves DEF TypeInv, AuthGroups, Done
    <2>3. SessionsTyped'
      BY <1>3, CloseTyped, SessionsStay DEF TypeInv, AuthGroups, Revoke
    <2> QED BY <1>3, <2>2, <2>3, DirectoryStays DEF TypeInv, AuthGroups
  <1> QED BY <1>1, <1>2, <1>3

LEMMA CreatesTyped ==
    ASSUME TypeInv, NEW r \in Reqs, HandleCreateUser(r) \/ HandleCreateGroup(r)
    PROVE  TypeInv'
  <1>1. DirTypeOK'
    BY ChangesTyped DEF TypeInv, DirectoryTyped, HandleCreateUser, HandleCreateGroup
  <1>2. DirectoryTyped'
    BY <1>1, CommitTyped DEF TypeInv, DirectoryTyped, HandleCreateUser, HandleCreateGroup
  <1> QED BY <1>2, IdleTyped, OneMoves, SessionsStay
          DEF TypeInv, HandleCreateUser, HandleCreateGroup, Done

(* A handler step that keeps what the request holds but for these fields.  *)
LEMMA HandlerTyped ==
    ASSUME NEW k, RequestTyped(k), NEW step \in Steps \ (LoginSteps \cup {"idle"}),
           NEW i \in UserIds \cup GroupIds \cup {NoReq}, NEW n \in Names \cup {NoReq},
           NEW N \in SUBSET Names
    PROVE  /\ RequestTyped([k EXCEPT !.pc = step])
           /\ RequestTyped([k EXCEPT !.pc = step, !.id = i])
           /\ RequestTyped([k EXCEPT !.pc = step, !.name = n])
           /\ RequestTyped([k EXCEPT !.pc = step, !.id = i, !.name = n])
           /\ RequestTyped([k EXCEPT !.pc = step, !.todo = N])
           /\ RequestTyped([k EXCEPT !.pc = step, !.id = i, !.todo = N])
  <1>1. /\ k \in Request /\ step \in Steps /\ step # "idle" /\ step \notin LoginSteps
    BY DEF RequestTyped
  <1>2. ASSUME NEW j \in Request, j.pc = step PROVE RequestTyped(j)
    BY <1>1, <1>2 DEF RequestTyped
  <1>3. /\ [k EXCEPT !.pc = step] \in Request
        /\ [k EXCEPT !.pc = step].pc = step
    BY <1>1 DEF Request
  <1>4. /\ [k EXCEPT !.pc = step, !.id = i] \in Request
        /\ [k EXCEPT !.pc = step, !.id = i].pc = step
    BY <1>1 DEF Request
  <1>5. /\ [k EXCEPT !.pc = step, !.name = n] \in Request
        /\ [k EXCEPT !.pc = step, !.name = n].pc = step
    BY <1>1 DEF Request
  <1>6. /\ [k EXCEPT !.pc = step, !.id = i, !.name = n] \in Request
        /\ [k EXCEPT !.pc = step, !.id = i, !.name = n].pc = step
    BY <1>1 DEF Request
  <1>7. /\ [k EXCEPT !.pc = step, !.todo = N] \in Request
        /\ [k EXCEPT !.pc = step, !.todo = N].pc = step
    BY <1>1 DEF Request
  <1>8. /\ [k EXCEPT !.pc = step, !.id = i, !.todo = N] \in Request
        /\ [k EXCEPT !.pc = step, !.id = i, !.todo = N].pc = step
    BY <1>1 DEF Request
  <1> QED BY <1>2, <1>3, <1>4, <1>5, <1>6, <1>7, <1>8

LEMMA CutShortTyped ==
    ASSUME TypeInv, NEW r \in Reqs, NEW N \in SUBSET Names, CutShort(r, N), UNCHANGED tableVars
    PROVE  RequestsTyped' /\ SessionsTyped'
  <1>1. RequestsTyped'
    BY IdleTyped, OneMovesOthersMarked DEF TypeInv, CutShort
  <1>2. ASSUME NEW t \in Tokens, owner[t] \in N
        PROVE  login[t] \in Login /\ [login[t] EXCEPT !.excused = TRUE] \in Login
    <2>1. t \in Live
      BY <1>2 DEF Live
    <2>2. login[t] \in Login
      BY <2>1 DEF TypeInv, SessionsTyped
    <2> QED BY <2>2 DEF Login
  <1>3. /\ login' \in [Tokens -> Login \cup {NoReq}]
        /\ \A t \in Live : login'[t] \in Login
    BY <1>2 DEF TypeInv, SessionsTyped, CutShort, Live
  <1>4. SessionsTyped'
    BY <1>3 DEF TypeInv, SessionsTyped, TableTypeOK, tableVars, Live
  <1> QED BY <1>1, <1>4

LEMMA UpdateUserTyped ==
    ASSUME TypeInv, NEW r \in Reqs,
           UpdateUserCommit(r) \/ UpdateUserRead(r) \/ UpdateUserRevoke(r)
    PROVE  TypeInv'
  <1>0. RequestTyped(req[r]) /\ users \subseteq User
    BY DEF TypeInv, RequestsTyped, DirectoryTyped, DirTypeOK
  <1>1. CASE UpdateUserCommit(r)
    <2>1. PICK old \in users, pw \in Passwords, disabled \in BOOLEAN,
               gids \in SUBSET LiveGroupIds :
            /\ UpdateUser(old, [old EXCEPT !.pw = pw, !.disabled = disabled], gids)
            /\ Commit(r, {old.id})
            /\ req' = [req EXCEPT ![r].pc = "updRead", ![r].id = old.id]
      BY <1>1 DEF UpdateUserCommit
    <2>2. [old EXCEPT !.pw = pw, !.disabled = disabled] \in User /\ old.id \in UserIds
      BY <1>0 DEF User
    <2>3. DirectoryTyped'
      <3>1. DirTypeOK'
        BY <2>1, <2>2, ChangesTyped DEF TypeInv, DirectoryTyped
      <3> QED BY <2>1, <3>1, CommitTyped DEF TypeInv, DirectoryTyped
    <2>4. RequestTyped([req[r] EXCEPT !.pc = "updRead", !.id = old.id])
      BY <1>0, <2>2, HandlerTyped DEF Steps, LoginSteps
    <2>5. req' = [req EXCEPT ![r] = [req[r] EXCEPT !.pc = "updRead", !.id = old.id]]
      BY <2>1 DEF TypeInv, RequestsTyped
    <2> QED BY <1>1, <2>3, <2>4, <2>5, OneMoves, SessionsStay DEF TypeInv, UpdateUserCommit
  <1>2. CASE UpdateUserRead(r)
    <2>1. ASSUME NEW u \in users, Cancelled(r), CutShort(r, {u.name}) PROVE TypeInv'
      BY <1>0, <1>2, <2>1, CutShortTyped, DirectoryStays DEF TypeInv, UpdateUserRead, User
    <2>2. ASSUME NEW u \in users, UNCHANGED login,
                 req' = [req EXCEPT ![r].pc = "updRevoke", ![r].name = u.name]
          PROVE  TypeInv'
      <3>1. RequestTyped([req[r] EXCEPT !.pc = "updRevoke", !.name = u.name])
        BY <1>0, HandlerTyped DEF Steps, LoginSteps, User
      <3>2. req' = [req EXCEPT ![r] = [req[r] EXCEPT !.pc = "updRevoke", !.name = u.name]]
        BY <2>2 DEF TypeInv, RequestsTyped
      <3> QED BY <1>2, <2>2, <3>1, <3>2, OneMoves, SessionsStay, DirectoryStays
              DEF TypeInv, UpdateUserRead
    <2>3. ASSUME Done(r), UNCHANGED login PROVE TypeInv'
      BY <1>2, <2>3, IdleTyped, OneMoves, SessionsStay, DirectoryStays
         DEF TypeInv, UpdateUserRead, Done
    <2> QED BY <1>2, <2>1, <2>2, <2>3 DEF UpdateUserRead
  <1>3. CASE UpdateUserRevoke(r)
    <2>1. RequestsTyped'
      BY <1>3, IdleTyped, OneMovesOthersMarked DEF TypeInv, UpdateUserRevoke
    <2>2. SessionsTyped'
      BY <1>3, CloseTyped DEF TypeInv, UpdateUserRevoke, Revoke
    <2> QED BY <1>3, <2>1, <2>2, DirectoryStays DEF TypeInv, UpdateUserRevoke
  <1> QED BY <1>1, <1>2, <1>3

LEMMA DeleteUserTyped ==
    ASSUME TypeInv, NEW r \in Reqs,
           \/ \E id \in UserIds : DeleteUserRead(r, id)
           \/ DeleteUserRevoke(r) \/ DeleteUserCommit(r)
    PROVE  TypeInv'
  <1>0. RequestTyped(req[r]) /\ users \subseteq User
    BY DEF TypeInv, RequestsTyped, DirectoryTyped, DirTypeOK
  <1>1. ASSUME NEW id \in UserIds, DeleteUserRead(r, id) PROVE TypeInv'
    <2>1. ASSUME NEW u \in users,
                 req' = [req EXCEPT ![r].pc = "delRevoke", ![r].id = id, ![r].name = u.name]
          PROVE  RequestsTyped'
      <3>1. RequestTyped([req[r] EXCEPT !.pc = "delRevoke", !.id = id, !.name = u.name])
        BY <1>0, HandlerTyped DEF Steps, LoginSteps, User
      <3>2. req' = [req EXCEPT ![r] = [req[r] EXCEPT !.pc = "delRevoke", !.id = id,
                                                     !.name = u.name]]
        BY <2>1 DEF TypeInv, RequestsTyped
      <3> QED BY <3>1, <3>2, OneMoves DEF TypeInv
    <2>2. ASSUME req' = [req EXCEPT ![r].pc = "delCommit", ![r].id = id]
          PROVE  RequestsTyped'
      <3>1. RequestTyped([req[r] EXCEPT !.pc = "delCommit", !.id = id])
        BY <1>0, HandlerTyped DEF Steps, LoginSteps
      <3>2. req' = [req EXCEPT ![r] = [req[r] EXCEPT !.pc = "delCommit", !.id = id]]
        BY <2>2 DEF TypeInv, RequestsTyped
      <3> QED BY <3>1, <3>2, OneMoves DEF TypeInv
    <2>3. RequestsTyped'
      BY <1>1, <2>1, <2>2 DEF DeleteUserRead
    <2> QED BY <1>1, <2>3, SessionsStay, DirectoryStays DEF TypeInv, DeleteUserRead
  <1>2. CASE DeleteUserRevoke(r)
    <2>1. Overlapped(req, {req[r].name})[r] = req[r]
      BY <1>2, MarkedTyped DEF TypeInv, DeleteUserRevoke, At, LoginSteps
    <2>2. RequestTyped([req[r] EXCEPT !.pc = "delCommit"])
      BY <1>0, HandlerTyped DEF Steps, LoginSteps
    <2>3. req' = [Overlapped(req, {req[r].name}) EXCEPT
                     ![r] = [req[r] EXCEPT !.pc = "delCommit"]]
      BY <1>2, <2>1 DEF DeleteUserRevoke
    <2>4. RequestsTyped'
      BY <2>2, <2>3, OneMovesOthersMarked DEF TypeInv
    <2>5. SessionsTyped'
      BY <1>2, CloseTyped DEF TypeInv, DeleteUserRevoke, Revoke
    <2> QED BY <1>2, <2>4, <2>5, DirectoryStays DEF TypeInv, DeleteUserRevoke
  <1>3. CASE DeleteUserCommit(r)
    <2>1. ASSUME NEW N, DeleteUser(req[r].id), Commit(r, {req[r].id}),
                 req' = [Overlapped(req, N) EXCEPT ![r] = Idle]
          PROVE  RequestsTyped' /\ DirectoryTyped'
      <3>1. DirTypeOK'
        BY <2>1, ChangesTyped DEF TypeInv, DirectoryTyped
      <3>2. DirectoryTyped'
        BY <2>1, <3>1, CommitTyped DEF TypeInv, DirectoryTyped
      <3> QED BY <2>1, <3>2, IdleTyped, OneMovesOthersMarked DEF TypeInv
    <2>2. ASSUME Done(r), UNCHANGED dbVars PROVE RequestsTyped' /\ DirectoryTyped'
      BY <2>2, IdleTyped, OneMoves, DirectoryStays DEF TypeInv, Done
    <2> QED BY <1>3, <2>1, <2>2, SessionsStay DEF TypeInv, DeleteUserCommit
  <1> QED BY <1>1, <1>2, <1>3

LEMMA RevokeMembersTyped ==
    ASSUME TypeInv, NEW r \in Reqs,
           NEW step \in {"grpRevoke", "grpDelRevoke"}, NEW next \in {"idle", "grpDelCommit"},
           RevokeMembers(r, step, next)
    PROVE  TypeInv'
  <1>0. RequestTyped(req[r]) /\ req[r].pc = step
    BY DEF TypeInv, RequestsTyped, RevokeMembers, At
  <1>1. ASSUME NEW n \in req[r].todo, Revoke(n),
               req' = [Overlapped(req, {n}) EXCEPT ![r].todo = @ \ {n}]
        PROVE  RequestsTyped' /\ SessionsTyped'
    <2>1. Overlapped(req, {n})[r] = req[r]
      BY <1>0, MarkedTyped DEF TypeInv, LoginSteps
    <2>2. RequestTyped([req[r] EXCEPT !.todo = req[r].todo \ {n}])
      BY <1>0 DEF RequestTyped, Request, LoginSteps
    <2>3. req' = [Overlapped(req, {n}) EXCEPT
                     ![r] = [req[r] EXCEPT !.todo = req[r].todo \ {n}]]
      BY <1>1, <2>1
    <2> QED BY <1>1, <2>2, <2>3, OneMovesOthersMarked, CloseTyped
            DEF TypeInv, Revoke, RevokeMembers
  <1>2. ASSUME req' = [req EXCEPT ![r] = IF next = "idle" THEN Idle
                                         ELSE [req[r] EXCEPT !.pc = next]]
        PROVE  RequestsTyped'
    <2>1. next = "idle" \/ RequestTyped([req[r] EXCEPT !.pc = next])
      BY <1>0, HandlerTyped DEF Steps, LoginSteps
    <2> QED BY <1>2, <2>1, IdleTyped, OneMoves DEF TypeInv
  <1>3. RequestsTyped' /\ SessionsTyped'
    BY <1>1, <1>2, SessionsStay DEF TypeInv, RevokeMembers
  <1> QED BY <1>3, DirectoryStays DEF TypeInv, RevokeMembers

LEMMA UpdateGroupTyped ==
    ASSUME TypeInv, NEW r \in Reqs,
           UpdateGroupCommit(r) \/ UpdateGroupRead(r) \/ UpdateGroupRevoke(r)
    PROVE  TypeInv'
  <1>0. RequestTyped(req[r]) /\ groups \subseteq Group
    BY DEF TypeInv, RequestsTyped, DirectoryTyped, DirTypeOK
  <1>1. CASE UpdateGroupCommit(r)
    <2>1. PICK old \in groups, n \in GroupNames :
            /\ RenameGroup(old, [old EXCEPT !.name = n])
            /\ Commit(r, IF n = old.name THEN {} ELSE IdsIn(old.id))
            /\ req' = [req EXCEPT ![r].pc = "grpRead", ![r].id = old.id]
      BY <1>1 DEF UpdateGroupCommit
    <2>2. [old EXCEPT !.name = n] \in Group /\ old.id \in GroupIds
      BY <1>0 DEF Group
    <2>3. DirectoryTyped'
      <3>1. DirTypeOK'
        BY <2>1, <2>2, ChangesTyped DEF TypeInv, DirectoryTyped
      <3> QED BY <2>1, <3>1, CommitTyped DEF TypeInv, DirectoryTyped
    <2>4. RequestTyped([req[r] EXCEPT !.pc = "grpRead", !.id = old.id])
      BY <1>0, <2>2, HandlerTyped DEF Steps, LoginSteps
    <2>5. req' = [req EXCEPT ![r] = [req[r] EXCEPT !.pc = "grpRead", !.id = old.id]]
      BY <2>1 DEF TypeInv, RequestsTyped
    <2> QED BY <1>1, <2>3, <2>4, <2>5, OneMoves, SessionsStay DEF TypeInv, UpdateGroupCommit
  <1>2. CASE UpdateGroupRead(r)
    <2> DEFINE N == NamesIn(req[r].id)
    <2>0. N \in SUBSET Names
      BY NamesInTyped DEF TypeInv, DirectoryTyped
    <2> HIDE DEF N
    <2>1. ASSUME CutShort(r, N) PROVE TypeInv'
      BY <1>2, <2>0, <2>1, CutShortTyped, DirectoryStays DEF TypeInv, UpdateGroupRead
    <2>2. ASSUME UNCHANGED login, req' = [req EXCEPT ![r].pc = "grpRevoke", ![r].todo = N]
          PROVE  TypeInv'
      <3>1. RequestTyped([req[r] EXCEPT !.pc = "grpRevoke", !.todo = N])
        BY <1>0, <2>0, HandlerTyped DEF Steps, LoginSteps
      <3>2. req' = [req EXCEPT ![r] = [req[r] EXCEPT !.pc = "grpRevoke", !.todo = N]]
        BY <2>2 DEF TypeInv, RequestsTyped
      <3> QED BY <1>2, <2>2, <3>1, <3>2, OneMoves, SessionsStay, DirectoryStays
              DEF TypeInv, UpdateGroupRead
    <2> QED BY <1>2, <2>1, <2>2 DEF UpdateGroupRead, N
  <1> QED BY <1>1, <1>2, RevokeMembersTyped DEF UpdateGroupRevoke

LEMMA DeleteGroupTyped ==
    ASSUME TypeInv, NEW r \in Reqs,
           \/ \E id \in GroupIds : DeleteGroupRead(r, id)
           \/ DeleteGroupRevoke(r) \/ DeleteGroupCommit(r)
    PROVE  TypeInv'
  <1>0. RequestTyped(req[r])
    BY DEF TypeInv, RequestsTyped
  <1>1. ASSUME NEW id \in GroupIds, DeleteGroupRead(r, id) PROVE TypeInv'
    <2> DEFINE N == IF Cancelled(r) THEN {} ELSE NamesIn(id)
    <2>0. N \in SUBSET Names
      BY NamesInTyped DEF TypeInv, DirectoryTyped
    <2>1. req' = [req EXCEPT ![r].pc = "grpDelRevoke", ![r].id = id, ![r].todo = N]
      BY <1>1 DEF DeleteGroupRead
    <2> HIDE DEF N
    <2>2. RequestTyped([req[r] EXCEPT !.pc = "grpDelRevoke", !.id = id, !.todo = N])
      BY <1>0, <2>0, HandlerTyped DEF Steps, LoginSteps
    <2>3. req' = [req EXCEPT ![r] = [req[r] EXCEPT !.pc = "grpDelRevoke", !.id = id,
                                                   !.todo = N]]
      BY <2>1 DEF TypeInv, RequestsTyped
    <2> QED BY <1>1, <2>2, <2>3, OneMoves, SessionsStay, DirectoryStays
            DEF TypeInv, DeleteGroupRead
  <1>2. CASE DeleteGroupRevoke(r)
    BY <1>2, RevokeMembersTyped DEF DeleteGroupRevoke
  <1>3. CASE DeleteGroupCommit(r)
    <2>1. ASSUME NEW N, NEW ids, DeleteGroup(req[r].id), Commit(r, ids),
                 req' = [Overlapped(req, N) EXCEPT ![r] = Idle]
          PROVE  RequestsTyped' /\ DirectoryTyped'
      <3>1. DirTypeOK'
        BY <2>1, ChangesTyped DEF TypeInv, DirectoryTyped
      <3>2. DirectoryTyped'
        BY <2>1, <3>1, CommitTyped DEF TypeInv, DirectoryTyped
      <3> QED BY <2>1, <3>2, IdleTyped, OneMovesOthersMarked DEF TypeInv
    <2>2. ASSUME Done(r), UNCHANGED dbVars PROVE RequestsTyped' /\ DirectoryTyped'
      BY <2>2, IdleTyped, OneMoves, DirectoryStays DEF TypeInv, Done
    <2> QED BY <1>3, <2>1, <2>2, SessionsStay DEF TypeInv, DeleteGroupCommit
  <1> QED BY <1>1, <1>2, <1>3

LEMMA EndsTyped ==
    ASSUME TypeInv, NEW r \in Reqs, Finish(r) \/ Logout(r) \/ Cancel(r)
    PROVE  TypeInv'
  <1>1. CASE Finish(r)
    BY <1>1, IdleTyped, OneMoves, SessionsStay, DirectoryStays DEF TypeInv, Finish, Done
  <1>2. CASE Logout(r)
    BY <1>2, IdleTyped, OneMoves, CloseTyped, DirectoryStays DEF TypeInv, Logout, Done
  <1>3. CASE Cancel(r)
    <2>1. RequestTyped([req[r] EXCEPT !.cancelled = TRUE])
      <3> DEFINE k == req[r]
                 j == [k EXCEPT !.cancelled = TRUE]
      <3>1. RequestTyped(k) /\ k.pc # "idle"
        BY <1>3 DEF TypeInv, RequestsTyped, Cancel, At
      <3> HIDE DEF k
      <3>2. j \in Request /\ j.pc = k.pc /\ j.row = k.row
        BY <3>1 DEF RequestTyped, Request
      <3> HIDE DEF j
      <3>3. RequestTyped(j)
        BY <3>1, <3>2 DEF RequestTyped
      <3> QED BY <3>3 DEF j, k
    <2>2. RequestsTyped'
      BY <1>3, <2>1, OneMoves DEF TypeInv, Cancel
    <2>3. cancels' \in 0..MaxCancel
      BY <1>3 DEF TypeInv, Cancel
    <2> QED BY <1>3, <2>2, <2>3, SessionsStay, DirectoryStays DEF TypeInv, Cancel
  <1> QED BY <1>1, <1>2, <1>3

LEMMA ExpireTyped == ASSUME TypeInv, NEW t \in Tokens, Expire(t) PROVE TypeInv'
  <1>1. RequestsTyped'
    BY DEF TypeInv, Expire, RequestsTyped
  <1> QED BY <1>1, CloseTyped, DirectoryStays DEF TypeInv, Expire

LEMMA StepTyped == TypeInv /\ [Next]_vars => TypeInv'
  <1> SUFFICES ASSUME TypeInv, [Next]_vars PROVE TypeInv'
    OBVIOUS
  <1>1. ASSUME NEW r \in Reqs, Handle(r) PROVE TypeInv'
    BY <1>1, LoginGroupsTyped, LoginCreateTyped, AuthTyped, EndsTyped, CreatesTyped,
       UpdateUserTyped, DeleteUserTyped, UpdateGroupTyped, DeleteGroupTyped, Zenon DEF Handle
  <1>2. CASE UNCHANGED vars
    <2>1. RequestsTyped'
      BY <1>2 DEF vars, TypeInv, RequestsTyped
    <2> QED BY <1>2, <2>1, SessionsStay, DirectoryStays DEF vars, TypeInv, tableVars, dbVars
  <1> QED BY <1>1, <1>2, LoginRowTyped, AuthTyped, EndsTyped, ExpireTyped, Zenon DEF Next

LEMMA AlwaysTyped == Spec => []TypeInv
  BY InitTyped, StepTyped, PTL DEF Spec

(* Every state of the UI is well formed: an idle request holds nothing,    *)
(* and the changes counted of an account fit the bound.                    *)
THEOREM TypeCorrect == Spec => []TypeOK
  BY AlwaysTyped, TypeInvImplies, PTL

-----------------------------------------------------------------------------
(* What a step takes from session t: nothing, or there is a cause.         *)
Explained(t) == owner'[t] # owner[t] =>
    req' = req \/ \E r \in Reqs : req'[r] # req[r] /\ Cause(r, t)

LEMMA CloseHits ==
    ASSUME SessionsTyped, NEW t \in Live, NEW S, Close(S), owner'[t] # owner[t]
    PROVE  t \in S
  BY DEF Close, Without, SessionsTyped, TableTypeOK, Live

LEMMA RevokeHits ==
    ASSUME SessionsTyped, NEW t \in Live, NEW n, Revoke(n), owner'[t] # owner[t]
    PROVE  owner[t] = n
  <1>1. t \in OwnedBy(n)
    BY CloseHits DEF Revoke
  <1> QED BY <1>1 DEF OwnedBy

LEMMA RequestMoves ==
    ASSUME RequestsTyped, NEW r \in Reqs, req[r].pc # "idle",
           \/ req' = [req EXCEPT ![r] = Idle]
           \/ \E N : req' = [Overlapped(req, N) EXCEPT ![r] = Idle]
    PROVE  req'[r] # req[r]
  BY IdleTyped DEF RequestsTyped, Overlapped

(* Steps that end no session.                                              *)
LEMMA OwnersStay ==
    ASSUME TypeInv, NEW r \in Reqs, NEW t \in Live,
           \/ \E name \in Names, pw \in Passwords : LoginRow(r, name, pw)
           \/ \E u \in Tokens : AuthSession(r, u)
           \/ LoginGroups(r) \/ LoginCreate(r) \/ Finish(r)
           \/ HandleCreateUser(r) \/ HandleCreateGroup(r)
           \/ UpdateUserCommit(r) \/ UpdateUserRead(r)
           \/ (\E id \in UserIds : DeleteUserRead(r, id)) \/ DeleteUserCommit(r)
           \/ UpdateGroupCommit(r) \/ UpdateGroupRead(r)
           \/ (\E id \in GroupIds : DeleteGroupRead(r, id)) \/ DeleteGroupCommit(r)
           \/ Cancel(r)
    PROVE  owner'[t] = owner[t]
  <1>1. CASE LoginCreate(r)
    <2>1. ASSUME NEW u \in Tokens, NEW n, Open({}, u, n) PROVE owner'[t] = owner[t]
      BY <2>1 DEF TypeInv, SessionsTyped, TableTypeOK, Live, Open, Without
    <2> QED BY <1>1, <2>1 DEF LoginCreate, tableVars
  <1>2. ASSUME UNCHANGED tableVars PROVE owner'[t] = owner[t]
    BY <1>2 DEF tableVars
  <1> QED
    BY <1>1, <1>2 DEF LoginRow, AuthSession, LoginGroups, Finish, HandleCreateUser,
       HandleCreateGroup, UpdateUserCommit, UpdateUserRead, DeleteUserRead, DeleteUserCommit,
       UpdateGroupCommit, UpdateGroupRead, DeleteGroupRead, DeleteGroupCommit, Cancel

LEMMA MembersExplained ==
    ASSUME TypeInv, NEW r \in Reqs, NEW t \in Live,
           NEW step \in {"grpRevoke", "grpDelRevoke"}, NEW next, RevokeMembers(r, step, next)
    PROVE  Explained(t)
  <1>1. ASSUME NEW n \in req[r].todo, Revoke(n), owner'[t] # owner[t],
               req' = [Overlapped(req, {n}) EXCEPT ![r].todo = @ \ {n}]
        PROVE  req'[r] # req[r] /\ Cause(r, t)
    <2>0. req[r].pc = step
      BY DEF RevokeMembers, At
    <2>1. owner[t] = n
      BY <1>1, RevokeHits DEF TypeInv
    <2>2. Overlapped(req, {n})[r] = req[r]
      BY <2>0, MarkedTyped DEF TypeInv, LoginSteps
    <2>3. req'[r].todo = req[r].todo \ {n}
      BY <1>1, <2>2 DEF Overlapped, TypeInv, RequestsTyped, RequestTyped, Request
    <2> QED BY <1>1, <2>0, <2>1, <2>3 DEF Cause
  <1>2. CASE UNCHANGED tableVars
    BY <1>2 DEF tableVars, Explained
  <1> QED BY <1>1, <1>2 DEF RevokeMembers, Explained

LEMMA HandleExplained ==
    ASSUME TypeInv, NEW r \in Reqs, NEW t \in Live, Handle(r)
    PROVE  Explained(t)
  <1>0. SessionsTyped /\ RequestsTyped
    BY DEF TypeInv
  <1>1. CASE AuthRow(r)
    <2>1. ASSUME owner'[t] # owner[t] PROVE req'[r] # req[r] /\ Cause(r, t)
      <3>1. /\ Revoke(req[r].name) /\ Done(r)
            /\ Cancelled(r) \/ \A u \in users : u.name # req[r].name
        BY <1>1, <2>1 DEF AuthRow, tableVars
      <3>2. owner[t] = req[r].name
        BY <1>0, <2>1, <3>1, RevokeHits
      <3> QED BY <1>0, <1>1, <3>1, <3>2, RequestMoves
              DEF AuthRow, At, Cause, LookupFailed, Done
    <2> QED BY <2>1 DEF Explained
  <1>2. CASE AuthGroups(r)
    <2>1. ASSUME owner'[t] # owner[t] PROVE req'[r] # req[r] /\ Cause(r, t)
      <3>1. Revoke(req[r].name) /\ Done(r) /\ (Cancelled(r) \/ req[r].row.disabled)
        BY <1>2, <2>1 DEF AuthGroups, tableVars
      <3>2. owner[t] = req[r].name
        BY <1>0, <2>1, <3>1, RevokeHits
      <3> QED BY <1>0, <1>2, <3>1, <3>2, RequestMoves
              DEF AuthGroups, At, Cause, LookupFailed, Done
    <2> QED BY <2>1 DEF Explained
  <1>3. CASE Logout(r)
    <2>1. ASSUME owner'[t] # owner[t] PROVE req'[r] # req[r] /\ Cause(r, t)
      <3>1. t \in LoggedOut(r)
        BY <1>0, <1>3, <2>1, CloseHits DEF Logout
      <3> QED BY <1>0, <1>3, <3>1, RequestMoves DEF Logout, LoggedOut, Done, At, Cause
    <2> QED BY <2>1 DEF Explained
  <1>4. CASE UpdateUserRevoke(r)
    <2>1. ASSUME owner'[t] # owner[t] PROVE req'[r] # req[r] /\ Cause(r, t)
      <3>1. owner[t] = req[r].name
        BY <1>0, <1>4, <2>1, RevokeHits DEF UpdateUserRevoke
      <3> QED BY <1>0, <1>4, <3>1, RequestMoves DEF UpdateUserRevoke, At, Cause
    <2> QED BY <2>1 DEF Explained
  <1>5. CASE DeleteUserRevoke(r)
    <2>1. ASSUME owner'[t] # owner[t] PROVE req'[r] # req[r] /\ Cause(r, t)
      <3>1. owner[t] = req[r].name
        BY <1>0, <1>5, <2>1, RevokeHits DEF DeleteUserRevoke
      <3>2. Overlapped(req, {req[r].name})[r] = req[r]
        BY <1>0, <1>5, MarkedTyped DEF DeleteUserRevoke, At, LoginSteps
      <3>3. req'[r].pc = "delCommit"
        BY <1>0, <1>5, <3>2
           DEF DeleteUserRevoke, Overlapped, RequestsTyped, RequestTyped, Request
      <3> QED BY <1>5, <3>1, <3>3 DEF DeleteUserRevoke, At, Cause
    <2> QED BY <2>1 DEF Explained
  <1>6. CASE UpdateGroupRevoke(r) \/ DeleteGroupRevoke(r)
    BY <1>6, MembersExplained DEF UpdateGroupRevoke, DeleteGroupRevoke
  <1> QED BY <1>1, <1>2, <1>3, <1>4, <1>5, <1>6, OwnersStay, Zenon DEF Handle, Explained

(* withAdminAuth, handleLogout and the revocations: nobody's session ends  *)
(* but by its timeout or a request that has a reason to end this one.      *)
THEOREM EndsForCause == Spec => SessionEndsForCause
  <1>1. TypeInv /\ [Next]_vars
          => [\A t \in Live : owner'[t] # owner[t] =>
                 req' = req \/ \E r \in Reqs : req'[r] # req[r] /\ Cause(r, t)]_vars
    <2> SUFFICES ASSUME TypeInv, Next, NEW t \in Live PROVE Explained(t)
      BY DEF Explained
    <2>1. ASSUME NEW u \in Tokens, Expire(u) PROVE Explained(t)
      BY <2>1 DEF Expire, Explained
    <2> QED BY <2>1, OwnersStay, HandleExplained, Zenon DEF Next, Explained
  <1> QED BY <1>1, AlwaysTyped, PTL DEF Spec, SessionEndsForCause

-----------------------------------------------------------------------------
(* Sessions and logins both claim to stand for an account: they carry its  *)
(* id, its name, the version they read, and whether they are excused.  A   *)
(* claim is honest when the id was given out, to nobody of another name,   *)
(* and the account is there, as it was read or with a revocation pending.  *)
(* (U, V, W: the accounts, their versions and the ids used; below, R and M *)
(* are the requests and the memberships.)                                  *)
Honest(uid, n, v, excused, U, V, W, pending) ==
    /\ uid \in W
    /\ \A u \in U : u.id = uid => u.name = n
    /\ \/ excused
       \/ /\ \E u \in U : u.id = uid
          /\ pending \/ V[uid] = v

(* A request has committed a change of the account and will revoke it.     *)
UpdateOwes(k, uid, n) ==
    \/ k.pc = "updRead" /\ k.id = uid
    \/ k.pc = "updRevoke" /\ k.name = n
RenameOwes(k, M, uid, n) ==
    \/ k.pc = "grpRead" /\ <<uid, k.id>> \in M
    \/ k.pc = "grpRevoke" /\ n \in k.todo
Updating(R, uid, n) == \E q \in Reqs : UpdateOwes(R[q], uid, n)
Pending(R, M, uid, n) ==
    \E q \in Reqs : UpdateOwes(R[q], uid, n) \/ RenameOwes(R[q], M, uid, n)

SessionHonest(t) ==
    Honest(login[t].uid, owner[t], login[t].version, login[t].excused,
           users, version, usedUids, Pending(req, members, login[t].uid, owner[t]))
LoginHonest(q) ==
    Honest(req[q].row.id, req[q].row.name, req[q].version, req[q].excused,
           users, version, usedUids, Pending(req, members, req[q].row.id, req[q].row.name))

AccountsSound ==
    /\ \A u, v \in users : u.id = v.id => u = v
    /\ \A u \in users : u.id \in usedUids
    /\ \A m \in members : \E u \in users : u.id = m[1]

(* A deletion first revokes and then deletes; when it deletes, only        *)
(* excused sessions are left of the account or, up to updates on the way,  *)
(* of the members of the group.                                            *)
DeletionSound(q) ==
    /\ At(q, "delRevoke") =>
          /\ req[q].id \in usedUids
          /\ \A u \in users : u.id = req[q].id => u.name = req[q].name
    /\ At(q, "delCommit") /\ ~Cancelled(q) =>
          \A t \in Live : login[t].uid = req[q].id => login[t].excused
    /\ req[q].pc \in {"grpDelRevoke", "grpDelCommit"} /\ ~Cancelled(q) =>
          \A t \in Live : <<login[t].uid, req[q].id>> \in members =>
             \/ login[t].excused
             \/ At(q, "grpDelRevoke") /\ owner[t] \in req[q].todo
             \/ Updating(req, login[t].uid, owner[t])

Revocable ==
    /\ AccountsSound
    /\ \A t \in Live : SessionHonest(t)
    /\ \A q \in Reqs : req[q].pc \in LoginSteps => LoginHonest(q)
    /\ \A q \in Reqs : DeletionSound(q)

LEMMA RevocableImplies == Revocable => StaleSessionsExplained
  <1> SUFFICES ASSUME Revocable, NEW t \in Live, Stale(t), ~login[t].excused
               PROVE  RevocationPending(t)
    BY DEF StaleSessionsExplained
  <1>1. /\ \E u \in users : u.id = login[t].uid
        /\ Pending(req, members, login[t].uid, owner[t]) \/ version[login[t].uid] = login[t].version
    BY DEF Revocable, SessionHonest, Honest
  <1>2. Pending(req, members, login[t].uid, owner[t])
    BY <1>1 DEF Stale
  <1> QED BY <1>2 DEF Pending, UpdateOwes, RenameOwes, RevocationPending, At

-----------------------------------------------------------------------------
(* What steps do to what they are not about.  A session that stays keeps   *)
(* its claim, and so does a request that is not the one that moves; either *)
(* may become excused, and a request may be cancelled.                     *)
SameSession(t) ==
    /\ t \in Live
    /\ owner'[t] = owner[t]
    /\ login'[t].uid = login[t].uid /\ login'[t].version = login[t].version
    /\ login[t].excused => login'[t].excused

SameClaim(j, k) ==
    /\ k.row = j.row /\ k.version = j.version
    /\ j.excused => k.excused

SameRequest(j, k) ==
    /\ SameClaim(j, k)
    /\ k.pc = j.pc /\ k.id = j.id /\ k.name = j.name /\ k.todo = j.todo
    /\ j.cancelled => k.cancelled

SessionsSame == \A t \in Live' : SameSession(t)
OthersSame(r) == \A q \in Reqs \ {r} : SameRequest(req[q], req'[q])

(* No id changes its name or is given out again.                           *)
NamesStick ==
    /\ usedUids \subseteq usedUids'
    /\ \A v \in users' : v.id \in usedUids => \E u \in users : u.id = v.id /\ u.name = v.name

(* The step leaves account uid, or a revocation of it is pending.          *)
Undisturbed(uid, n) ==
    /\ (\E u \in users : u.id = uid) => \E u \in users' : u.id = uid
    /\ Pending(req, members, uid, n) => Pending(req', members', uid, n)
    /\ Pending(req', members', uid, n) \/ version'[uid] = version[uid]

LEMMA HonestStays ==
    ASSUME NEW uid, NEW n, NEW v, NEW e, NEW e2, NEW U, NEW U2, NEW V, NEW V2, NEW W, NEW W2,
           NEW p, NEW p2,
           Honest(uid, n, v, e, U, V, W, p), W \subseteq W2, e => e2,
           \A u \in U2 : u.id \in W => \E w \in U : w.id = u.id /\ w.name = u.name,
           \/ e2
           \/ /\ (\E u \in U : u.id = uid) => \E u \in U2 : u.id = uid
              /\ p => p2
              /\ p2 \/ V2[uid] = V[uid]
    PROVE  Honest(uid, n, v, e2, U2, V2, W2, p2)
  BY Zenon DEF Honest

LEMMA SessionStays ==
    ASSUME NEW t, SameSession(t), SessionHonest(t), NamesStick,
           login'[t].excused \/ Undisturbed(login[t].uid, owner[t])
    PROVE  SessionHonest(t)'
  BY HonestStays DEF SameSession, SessionHonest, NamesStick, Undisturbed

LEMMA LoginStays ==
    ASSUME NEW q, SameClaim(req[q], req'[q]), LoginHonest(q), NamesStick,
           req'[q].excused \/ Undisturbed(req[q].row.id, req[q].row.name)
    PROVE  LoginHonest(q)'
  BY HonestStays DEF SameClaim, LoginHonest, NamesStick, Undisturbed


(* What becomes of debts when request r moves: the others keep theirs,     *)
(* unless the account leaves the group.                                    *)
LEMMA PendingStays ==
    ASSUME NEW r \in Reqs, OthersSame(r), NEW uid, NEW n,
           ~UpdateOwes(req[r], uid, n) \/ UpdateOwes(req'[r], uid, n),
           \/ ~RenameOwes(req[r], members, uid, n)
           \/ UpdateOwes(req'[r], uid, n)
           \/ RenameOwes(req'[r], members', uid, n),
           \A g : <<uid, g>> \in members => <<uid, g>> \in members'
    PROVE  /\ Pending(req, members, uid, n) => Pending(req', members', uid, n)
           /\ Updating(req, uid, n) => Updating(req', uid, n)
  BY DEF OthersSame, SameRequest, Pending, Updating, UpdateOwes, RenameOwes

LEMMA UpdatingStays ==
    ASSUME NEW r \in Reqs, OthersSame(r), NEW uid, NEW n,
           ~UpdateOwes(req[r], uid, n) \/ UpdateOwes(req'[r], uid, n)
    PROVE  Updating(req, uid, n) => Updating(req', uid, n)
  BY DEF OthersSame, SameRequest, Updating, UpdateOwes

(* A deletion that is not the request that moves, or only was cancelled.   *)
LEMMA DeletionStays ==
    ASSUME NEW q \in Reqs, SameRequest(req[q], req'[q]), DeletionSound(q),
           NamesStick, SessionsSame,
           \A t \in Live' : <<login[t].uid, req[q].id>> \in members' =>
               \/ login'[t].excused
               \/ Updating(req', login[t].uid, owner[t])
               \/ /\ <<login[t].uid, req[q].id>> \in members
                  /\ Updating(req, login[t].uid, owner[t])
                        => Updating(req', login[t].uid, owner[t])
    PROVE  DeletionSound(q)'
  <1>0. At(q, "delRevoke")' = At(q, "delRevoke") /\ At(q, "delCommit")' = At(q, "delCommit")
    BY DEF SameRequest, At
  <1>1. ASSUME At(q, "delRevoke")'
        PROVE  /\ req'[q].id \in usedUids'
               /\ \A u \in users' : u.id = req'[q].id => u.name = req'[q].name
    BY <1>0, <1>1 DEF SameRequest, DeletionSound, NamesStick
  <1>2. ASSUME At(q, "delCommit")', ~Cancelled(q)',
               NEW t \in Live', login'[t].uid = req'[q].id
        PROVE  login'[t].excused
    BY <1>0, <1>2 DEF SameRequest, SessionsSame, SameSession, DeletionSound, Cancelled
  <1>3. ASSUME req'[q].pc \in {"grpDelRevoke", "grpDelCommit"}, ~Cancelled(q)',
               NEW t \in Live', <<login'[t].uid, req'[q].id>> \in members'
        PROVE  \/ login'[t].excused
               \/ req'[q].pc = "grpDelRevoke" /\ owner'[t] \in req'[q].todo
               \/ Updating(req', login'[t].uid, owner'[t])
    BY <1>3 DEF SameRequest, SessionsSame, SameSession, DeletionSound, Cancelled, At
  <1> QED BY <1>1, <1>2, <1>3 DEF DeletionSound, At

(* A request that is not at a deletion has nothing to show for it.         *)
LEMMA NoDeletion ==
    ASSUME NEW q \in Reqs,
           req[q].pc \notin {"delRevoke", "delCommit", "grpDelRevoke", "grpDelCommit"}
    PROVE  DeletionSound(q)
  BY DEF DeletionSound, At

-----------------------------------------------------------------------------
(* What is left to check of a step of request r: that whoever is disturbed *)
(* is excused, and what r itself has become.                               *)
LEMMA StepKeeps ==
    ASSUME Revocable, NEW r \in Reqs, AccountsSound', NamesStick, SessionsSame, OthersSame(r),
           \A t \in Live' : login'[t].excused \/ Undisturbed(login[t].uid, owner[t]),
           \A q \in Reqs \ {r} : req[q].pc \in LoginSteps =>
               req'[q].excused \/ Undisturbed(req[q].row.id, req[q].row.name),
           req'[r].pc \in LoginSteps => LoginHonest(r)',
           \A q \in Reqs : DeletionSound(q)'
    PROVE  Revocable'
  <1>1. ASSUME NEW t \in Live' PROVE SessionHonest(t)'
    BY SessionStays DEF Revocable, SessionsSame, SameSession
  <1>2. ASSUME NEW q \in Reqs, req'[q].pc \in LoginSteps PROVE LoginHonest(q)'
    <2>1. CASE q # r
      BY <1>2, <2>1, LoginStays DEF Revocable, OthersSame, SameRequest
    <2> QED BY <1>2, <2>1
  <1> QED BY <1>1, <1>2 DEF Revocable

(* Request r keeps what it owes.                                           *)
Carries(r, uid, n) ==
    /\ UpdateOwes(req[r], uid, n) => UpdateOwes(req'[r], uid, n)
    /\ RenameOwes(req[r], members, uid, n) =>
          UpdateOwes(req'[r], uid, n) \/ RenameOwes(req'[r], members', uid, n)

LEMMA CarriesPending ==
    ASSUME NEW r \in Reqs, OthersSame(r), UNCHANGED members, NEW uid, NEW n, Carries(r, uid, n)
    PROVE  /\ Pending(req, members, uid, n) => Pending(req', members', uid, n)
           /\ Updating(req, uid, n) => Updating(req', uid, n)
  BY PendingStays DEF Carries

(* Steps that do not write to the directory.                               *)
LEMMA ReadKeeps ==
    ASSUME Revocable, NEW r \in Reqs, UNCHANGED <<users, members, usedUids, version>>,
           SessionsSame, OthersSame(r),
           \A t \in Live' : login'[t].excused \/ Carries(r, login[t].uid, owner[t]),
           \A q \in Reqs \ {r} : req[q].pc \in LoginSteps =>
               req'[q].excused \/ Carries(r, req[q].row.id, req[q].row.name),
           req'[r].pc \in LoginSteps => LoginHonest(r)',
           DeletionSound(r)'
    PROVE  Revocable'
  <1>1. AccountsSound' /\ NamesStick
    BY DEF Revocable, AccountsSound, NamesStick
  <1>2. ASSUME NEW uid, NEW n, Carries(r, uid, n) PROVE Undisturbed(uid, n)
    BY <1>2, CarriesPending DEF Undisturbed
  <1>3. ASSUME NEW q \in Reqs \ {r} PROVE DeletionSound(q)'
    <2>1. SameRequest(req[q], req'[q]) /\ DeletionSound(q)
      BY DEF OthersSame, Revocable
    <2>2. ASSUME NEW t \in Live', <<login[t].uid, req[q].id>> \in members', ~login'[t].excused
          PROVE  /\ <<login[t].uid, req[q].id>> \in members
                 /\ Updating(req, login[t].uid, owner[t])
                       => Updating(req', login[t].uid, owner[t])
      BY <2>2, CarriesPending
    <2> QED BY <1>1, <2>1, <2>2, DeletionStays
  <1> QED BY <1>1, <1>2, <1>3, StepKeeps

(* Steps that neither owe, nor delete, nor begin a login.                  *)
Free(k) == k.pc \notin {"updRead", "updRevoke", "grpRead", "grpRevoke"}
Harmless(k) == k.pc \notin {"delRevoke", "delCommit", "grpDelRevoke", "grpDelCommit"}

LEMMA FreeCarries ==
    ASSUME NEW r, Free(req[r]), NEW uid, NEW n
    PROVE  Carries(r, uid, n)
  BY DEF Free, Carries, UpdateOwes, RenameOwes

LEMMA SameCarries ==
    ASSUME NEW r, SameRequest(req[r], req'[r]), UNCHANGED members, NEW uid, NEW n
    PROVE  Carries(r, uid, n)
  BY DEF SameRequest, Carries, UpdateOwes, RenameOwes

LEMMA QuietKeeps ==
    ASSUME Revocable, NEW r \in Reqs, UNCHANGED <<users, members, usedUids, version>>,
           SessionsSame, OthersSame(r),
           \/ SameRequest(req[r], req'[r])
           \/ /\ Free(req[r]) /\ Harmless(req'[r])
              /\ req'[r].pc \in LoginSteps =>
                    req[r].pc \in LoginSteps /\ SameClaim(req[r], req'[r])
    PROVE  Revocable'
  <1>1. \A uid, n : Carries(r, uid, n)
    BY FreeCarries, SameCarries
  <1>2. NamesStick
    BY DEF Revocable, AccountsSound, NamesStick
  <1>3. ASSUME req'[r].pc \in LoginSteps PROVE LoginHonest(r)'
    <2>1. SameClaim(req[r], req'[r]) /\ LoginHonest(r)
      BY <1>3 DEF SameRequest, Revocable
    <2>2. Undisturbed(req[r].row.id, req[r].row.name)
      BY <1>1, CarriesPending DEF Undisturbed
    <2> QED BY <1>2, <2>1, <2>2, LoginStays
  <1>4. DeletionSound(r)'
    <2>1. CASE SameRequest(req[r], req'[r])
      <3>1. ASSUME NEW t \in Live', <<login[t].uid, req[r].id>> \in members'
            PROVE  /\ <<login[t].uid, req[r].id>> \in members
                   /\ Updating(req, login[t].uid, owner[t])
                         => Updating(req', login[t].uid, owner[t])
        BY <1>1, <3>1, CarriesPending
      <3> QED BY <1>2, <2>1, <3>1, DeletionStays DEF Revocable
    <2>2. CASE Harmless(req'[r])
      BY <2>2 DEF Harmless, DeletionSound, At
    <2> QED BY <2>1, <2>2
  <1> QED BY <1>1, <1>3, <1>4, ReadKeeps

-----------------------------------------------------------------------------
(* The forms the steps have.                                               *)
LEMMA Moves ==
    ASSUME RequestsTyped, NEW r \in Reqs, NEW k, req' = [req EXCEPT ![r] = k]
    PROVE  OthersSame(r) /\ req'[r] = k
  BY DEF RequestsTyped, OthersSame, SameRequest, SameClaim

LEMMA MarksAndMoves ==
    ASSUME RequestsTyped, NEW r \in Reqs, NEW k, NEW N,
           req' = [Overlapped(req, N) EXCEPT ![r] = k]
    PROVE  /\ OthersSame(r) /\ req'[r] = k
           /\ \A q \in Reqs \ {r} :
                 req[q].pc \in LoginSteps /\ req[q].row.name \in N => req'[q].excused
  <1>1. ASSUME NEW q \in Reqs \ {r}
        PROVE  /\ SameRequest(req[q], req'[q])
               /\ req[q].pc \in LoginSteps /\ req[q].row.name \in N => req'[q].excused
    <2>0. req'[q] = Overlapped(req, N)[q] /\ req[q] \in Request
      BY DEF Overlapped, RequestsTyped, RequestTyped
    <2>1. CASE req[q].pc \in LoginSteps /\ req[q].row.name \in N
      <3>1. req'[q] = [req[q] EXCEPT !.excused = TRUE]
        BY <2>0, <2>1 DEF Overlapped, LoginSteps
      <3> QED BY <2>0, <3>1 DEF Request, SameRequest, SameClaim
    <2>2. CASE ~(req[q].pc \in LoginSteps /\ req[q].row.name \in N)
      <3>1. req'[q] = req[q]
        BY <2>0, <2>2 DEF Overlapped, LoginSteps
      <3> QED BY <2>2, <3>1 DEF SameRequest, SameClaim
    <2> QED BY <2>1, <2>2
  <1>2. req'[r] = k
    BY DEF Overlapped
  <1> QED BY <1>1, <1>2 DEF OthersSame

LEMMA Untouched == ASSUME UNCHANGED <<tableVars, login>> PROVE SessionsSame
  BY DEF SessionsSame, SameSession, tableVars, Live

LEMMA Closes ==
    ASSUME NEW S, Close(S), UNCHANGED login
    PROVE  SessionsSame /\ \A t \in Live' : t \notin S
  BY DEF SessionsSame, SameSession, Close, Without, Live

LEMMA Revokes ==
    ASSUME NEW n, Revoke(n), UNCHANGED login
    PROVE  SessionsSame /\ \A t \in Live' : owner[t] # n
  <1>1. SessionsSame /\ \A t \in Live' : t \notin OwnedBy(n)
    BY Closes DEF Revoke
  <1>2. Live' \subseteq Tokens
    BY DEF Live
  <1> QED BY <1>1, <1>2 DEF OwnedBy

LEMMA CutsShort ==
    ASSUME TypeInv, NEW r \in Reqs, NEW N, CutShort(r, N), UNCHANGED tableVars
    PROVE  /\ SessionsSame /\ OthersSame(r) /\ req'[r] = Idle
           /\ \A t \in Live' : owner[t] \in N => login'[t].excused
           /\ \A q \in Reqs \ {r} :
                 req[q].pc \in LoginSteps /\ req[q].row.name \in N => req'[q].excused
  <1>1. ASSUME NEW t \in Live'
        PROVE  SameSession(t) /\ (owner[t] \in N => login'[t].excused)
    <2>1. t \in Live /\ t \in Tokens /\ owner'[t] = owner[t]
      BY DEF tableVars, Live
    <2>2. login[t] \in Login
      BY <2>1 DEF TypeInv, SessionsTyped
    <2>3. login'[t] = IF owner[t] \in N THEN [login[t] EXCEPT !.excused = TRUE] ELSE login[t]
      BY <2>1 DEF CutShort
    <2> QED BY <2>1, <2>2, <2>3 DEF SameSession, Login
  <1> QED BY <1>1, MarksAndMoves DEF TypeInv, CutShort, SessionsSame

LEMMA IdleQuiet == Free(Idle) /\ Harmless(Idle) /\ Idle.pc \notin LoginSteps
  BY DEF Free, Harmless, Idle, LoginSteps

-----------------------------------------------------------------------------
LEMMA QuietSteps ==
    ASSUME TypeInv, Revocable, NEW r \in Reqs,
           \/ LoginGroups(r)
           \/ \E t \in Tokens : AuthSession(r, t)
           \/ AuthRow(r) \/ AuthGroups(r) \/ Finish(r) \/ Logout(r)
           \/ HandleCreateGroup(r) \/ Cancel(r)
    PROVE  Revocable'
  <1>0. RequestsTyped /\ req[r] \in Request
    BY DEF TypeInv, RequestsTyped, RequestTyped
  <1>q. ASSUME NEW k, req' = [req EXCEPT ![r] = k], Free(req[r]), Harmless(k),
               k.pc \in LoginSteps => req[r].pc \in LoginSteps /\ SameClaim(req[r], k),
               UNCHANGED <<users, members, usedUids, version, login>>,
               UNCHANGED tableVars \/ \E S : Close(S)
        PROVE  Revocable'
    <2>1. OthersSame(r) /\ req'[r] = k
      BY <1>0, <1>q, Moves
    <2>2. SessionsSame
      BY <1>q, Untouched, Closes
    <2> QED BY <1>q, <2>1, <2>2, QuietKeeps
  <1>d. ASSUME Done(r), Free(req[r]), UNCHANGED <<users, members, usedUids, version, login>>,
               UNCHANGED tableVars \/ \E S : Close(S)
        PROVE  Revocable'
    BY <1>d, <1>q, IdleQuiet DEF Done
  <1>1. CASE LoginGroups(r)
    <2>1. Free(req[r]) /\ req[r].pc \in LoginSteps
      BY <1>1 DEF LoginGroups, At, Free, LoginSteps
    <2>2. CASE Goto(r, "loginCreate")
      <3> DEFINE k == [req[r] EXCEPT !.pc = "loginCreate"]
      <3>1. Harmless(k) /\ SameClaim(req[r], k)
        BY <1>0 DEF Request, Harmless, SameClaim
      <3>2. req' = [req EXCEPT ![r] = k]
        BY <2>2 DEF Goto
      <3> HIDE DEF k
      <3> QED BY <1>1, <1>q, <2>1, <3>1, <3>2 DEF LoginGroups, dbVars
    <2> QED BY <1>1, <1>d, <2>1, <2>2 DEF LoginGroups, dbVars
  <1>2. ASSUME NEW t \in Tokens, AuthSession(r, t) PROVE Revocable'
    <2> DEFINE k == [Idle EXCEPT !.pc = "authRow", !.tok = t, !.name = owner[t]]
    <2>1. Free(req[r]) /\ Harmless(k) /\ k.pc \notin LoginSteps
      BY <1>2 DEF AuthSession, At, Free, Harmless, LoginSteps, Idle
    <2>2. req' = [req EXCEPT ![r] = k]
      BY <1>2 DEF AuthSession
    <2> HIDE DEF k
    <2> QED BY <1>2, <1>q, <2>1, <2>2 DEF AuthSession, dbVars
  <1>3. CASE AuthRow(r)
    <2>1. Free(req[r])
      BY <1>3 DEF AuthRow, At, Free
    <2>2. ASSUME NEW u, req' = [req EXCEPT ![r].pc = "authGroups", ![r].row = u],
                 UNCHANGED tableVars
          PROVE  Revocable'
      <3> DEFINE k == [req[r] EXCEPT !.pc = "authGroups", !.row = u]
      <3>1. Harmless(k) /\ k.pc \notin LoginSteps
        BY <1>0 DEF Request, Harmless, LoginSteps
      <3>2. req' = [req EXCEPT ![r] = k]
        BY <1>0, <2>2 DEF RequestsTyped
      <3> HIDE DEF k
      <3> QED BY <1>3, <1>q, <2>1, <2>2, <3>1, <3>2 DEF AuthRow, dbVars
    <2> QED BY <1>3, <1>d, <2>1, <2>2 DEF AuthRow, Revoke, dbVars
  <1>4. CASE AuthGroups(r)
    <2> DEFINE k == [Idle EXCEPT !.pc = "authorised", !.tok = req[r].tok]
    <2>1. Free(req[r]) /\ Harmless(k) /\ k.pc \notin LoginSteps
      BY <1>4 DEF AuthGroups, At, Free, Harmless, LoginSteps, Idle
    <2>2. Done(r) \/ req' = [req EXCEPT ![r] = k]
      BY <1>4 DEF AuthGroups
    <2>3. UNCHANGED tableVars \/ \E S : Close(S)
      BY <1>4 DEF AuthGroups, Revoke
    <2> HIDE DEF k
    <2> QED BY <1>4, <1>d, <1>q, <2>1, <2>2, <2>3 DEF AuthGroups, dbVars
  <1>5. CASE Finish(r) \/ Logout(r)
    <2>1. Free(req[r])
      BY <1>5 DEF Finish, Logout, At, Free
    <2> QED BY <1>5, <1>d, <2>1 DEF Finish, Logout, dbVars
  <1>6. CASE HandleCreateGroup(r)
    <2>1. Free(req[r])
      BY <1>6 DEF HandleCreateGroup, At, Free
    <2>2. version' = version
      BY <1>6 DEF HandleCreateGroup, Commit, TypeInv, DirectoryTyped
    <2> QED BY <1>6, <1>d, <2>1, <2>2 DEF HandleCreateGroup, CreateGroup
  <1>7. CASE Cancel(r)
    <2> DEFINE k == [req[r] EXCEPT !.cancelled = TRUE]
    <2>1. SameRequest(req[r], k)
      BY <1>0 DEF Request, SameRequest, SameClaim
    <2>2. OthersSame(r) /\ req'[r] = k
      BY <1>0, <1>7, Moves DEF Cancel
    <2>3. SessionsSame
      BY <1>7, Untouched DEF Cancel
    <2> HIDE DEF k
    <2> QED BY <1>7, <2>1, <2>2, <2>3, QuietKeeps DEF Cancel, dbVars
  <1> QED BY <1>1, <1>2, <1>3, <1>4, <1>5, <1>6, <1>7

LEMMA ExpireKeeps == ASSUME TypeInv, Revocable, NEW t \in Tokens, Expire(t) PROVE Revocable'
  <1>1. SessionsSame /\ UNCHANGED <<users, members, usedUids, version, req>>
    BY Closes DEF Expire, dbVars
  <1>2. \A q \in Reqs : SameRequest(req[q], req'[q])
    BY <1>1 DEF SameRequest, SameClaim
  <1>3. CASE Reqs = {}
    <2>1. ASSUME NEW u \in Live' PROVE SessionHonest(u)'
      <3>1. NamesStick /\ Undisturbed(login[u].uid, owner[u])
        BY <1>1 DEF NamesStick, Undisturbed
      <3> QED BY <1>1, <3>1, SessionStays DEF Revocable, SessionsSame, SameSession
    <2>2. AccountsSound'
      BY <1>1 DEF Revocable, AccountsSound
    <2> QED BY <1>3, <2>1, <2>2 DEF Revocable
  <1>4. ASSUME NEW r \in Reqs PROVE Revocable'
    BY <1>1, <1>2, QuietKeeps DEF OthersSame
  <1> QED BY <1>3, <1>4

LEMMA LoginRowKeeps ==
    ASSUME TypeInv, Revocable, NEW r \in Reqs, NEW name \in Names, NEW pw \in Passwords,
           LoginRow(r, name, pw)
    PROVE  Revocable'
  <1>1. PICK u \in users :
           req' = [req EXCEPT ![r] = [Idle EXCEPT !.pc = "loginGroups",
                                        !.row = u, !.version = version[u.id]]]
    BY DEF LoginRow
  <1> DEFINE k == [Idle EXCEPT !.pc = "loginGroups", !.row = u, !.version = version[u.id]]
  <1>2. k.row = u /\ k.version = version[u.id] /\ Harmless(k)
    BY DEF Idle, Harmless
  <1> HIDE DEF k
  <1>3. OthersSame(r) /\ req'[r] = k
    BY <1>1, Moves DEF TypeInv, k
  <1>4. UNCHANGED <<users, members, usedUids, version>> /\ SessionsSame /\ Free(req[r])
    BY Untouched DEF LoginRow, dbVars, At, Free
  <1>5. LoginHonest(r)'
    BY <1>2, <1>3, <1>4 DEF Revocable, AccountsSound, LoginHonest, Honest
  <1>6. DeletionSound(r)'
    BY <1>2, <1>3 DEF Harmless, DeletionSound, At
  <1> QED BY <1>3, <1>4, <1>5, <1>6, FreeCarries, ReadKeeps

(* A session is born with the claim of its login, and excused whenever a   *)
(* deletion that could miss it is between its two halves.                  *)
LEMMA LoginCreateKeeps ==
    ASSUME TypeInv, Revocable, NEW r \in Reqs, LoginCreate(r)
    PROVE  Revocable'
  <1>0. /\ OthersSame(r) /\ req'[r] = Idle /\ Free(req[r]) /\ req[r].pc \in LoginSteps
        /\ UNCHANGED <<users, members, usedUids, version>>
    BY Moves DEF TypeInv, LoginCreate, Done, At, Free, LoginSteps, dbVars
  <1>1. CASE UNCHANGED <<tableVars, login>>
    BY <1>0, <1>1, Untouched, IdleQuiet, QuietKeeps
  <1>2. ASSUME NEW t \in Tokens, Open({}, t, req[r].row.name),
               login' = [login EXCEPT ![t] =
                    [uid |-> req[r].row.id, version |-> req[r].version,
                     excused |-> req[r].excused \/ BetweenRevokeAndDelete(req[r].row.id)]]
        PROVE  Revocable'
    <2> DEFINE b == req[r].excused \/ BetweenRevokeAndDelete(req[r].row.id)
    <2>0. b \in BOOLEAN
      OBVIOUS
    <2>a. /\ req[r].excused => b
          /\ BetweenRevokeAndDelete(req[r].row.id) => b
      OBVIOUS
    <2>b. login' = [login EXCEPT ![t] =
              [uid |-> req[r].row.id, version |-> req[r].version, excused |-> b]]
      BY <1>2
    <2> HIDE DEF b
    <2>1. /\ owner'[t] = req[r].row.name
          /\ login'[t].uid = req[r].row.id /\ login'[t].version = req[r].version
          /\ login'[t].excused = b
      BY <1>2, <2>b DEF Open, Without, TypeInv, SessionsTyped
    <2>c. /\ req[r].excused => login'[t].excused
          /\ BetweenRevokeAndDelete(req[r].row.id) => login'[t].excused
      BY <2>a, <2>1
    <2>2. ASSUME NEW u \in Live' \ {t} PROVE SameSession(u)
      BY <1>2 DEF Open, Without, TypeInv, SessionsTyped, TableTypeOK, SameSession, Live
    <2>3. \A uid, n : Undisturbed(uid, n)
                      /\ (Updating(req, uid, n) => Updating(req', uid, n))
      BY <1>0, FreeCarries, CarriesPending DEF Undisturbed
    <2>4. AccountsSound' /\ NamesStick
      BY <1>0 DEF Revocable, AccountsSound, NamesStick
    <2>5. ASSUME NEW u \in Live' PROVE SessionHonest(u)'
      <3>1. CASE u = t
        <4>1. LoginHonest(r)
          BY <1>0 DEF Revocable
        <4>2. Pending(req, members, req[r].row.id, req[r].row.name)
                => Pending(req', members', req[r].row.id, req[r].row.name)
          BY <2>3 DEF Undisturbed
        <4>3. Honest(req[r].row.id, req[r].row.name, req[r].version, login'[t].excused,
                     users', version', usedUids',
                     Pending(req', members', req[r].row.id, req[r].row.name))
          BY <1>0, <2>c, <4>1, <4>2, HonestStays DEF LoginHonest
        <4> QED BY <2>1, <3>1, <4>3 DEF SessionHonest
      <3>2. CASE u # t
        BY <2>2, <2>3, <2>4, <3>2, SessionStays DEF Revocable, SameSession
      <3> QED BY <3>1, <3>2
    <2>6. ASSUME NEW q \in Reqs, req'[q].pc \in LoginSteps PROVE LoginHonest(q)'
      <3>1. q # r
        BY <1>0, <2>6, IdleQuiet
      <3> QED BY <1>0, <2>3, <2>4, <2>6, <3>1, LoginStays DEF Revocable, OthersSame, SameRequest
    <2>7. ASSUME NEW q \in Reqs PROVE DeletionSound(q)'
      <3>1. CASE q = r
        BY <1>0, <3>1, IdleQuiet DEF Harmless, DeletionSound, At
      <3>2. CASE q # r
        <4>1. SameRequest(req[q], req'[q]) /\ DeletionSound(q)
          BY <1>0, <3>2 DEF OthersSame, Revocable
        <4>2. At(q, "delCommit") /\ req[q].id = req[r].row.id => login'[t].excused
          BY <2>c DEF BetweenRevokeAndDelete
        <4>3. req[q].pc \in {"grpDelRevoke", "grpDelCommit"} => login'[t].excused
          BY <2>c DEF BetweenRevokeAndDelete
        <4>4. At(q, "delRevoke")' =>
                /\ req'[q].id \in usedUids'
                /\ \A u \in users' : u.id = req'[q].id => u.name = req'[q].name
          BY <1>0, <4>1 DEF SameRequest, DeletionSound, At
        <4>5. ASSUME At(q, "delCommit")', ~Cancelled(q)', NEW u \in Live',
                     login'[u].uid = req'[q].id
              PROVE  login'[u].excused
          <5>1. CASE u = t
            BY <2>1, <4>1, <4>2, <4>5, <5>1 DEF SameRequest, At
          <5>2. CASE u # t
            BY <2>2, <4>1, <4>5, <5>2 DEF SameRequest, SameSession, DeletionSound, At, Cancelled
          <5> QED BY <5>1, <5>2
        <4>6. ASSUME req'[q].pc \in {"grpDelRevoke", "grpDelCommit"}, ~Cancelled(q)',
                     NEW u \in Live', <<login'[u].uid, req'[q].id>> \in members'
              PROVE  \/ login'[u].excused
                     \/ At(q, "grpDelRevoke")' /\ owner'[u] \in req'[q].todo
                     \/ Updating(req', login'[u].uid, owner'[u])
          <5>1. CASE u = t
            BY <4>1, <4>3, <4>6, <5>1 DEF SameRequest
          <5>2. CASE u # t
            BY <1>0, <2>2, <2>3, <4>1, <4>6, <5>2
               DEF SameRequest, SameSession, DeletionSound, At, Cancelled
          <5> QED BY <5>1, <5>2
        <4> QED BY <4>4, <4>5, <4>6 DEF DeletionSound
      <3> QED BY <3>1, <3>2
    <2> QED BY <2>4, <2>5, <2>6, <2>7 DEF Revocable
  <1> QED BY <1>1, <1>2 DEF LoginCreate

LEMMA CreateUserKeeps ==
    ASSUME TypeInv, Revocable, NEW r \in Reqs, HandleCreateUser(r)
    PROVE  Revocable'
  <1>1. PICK u \in User, gids \in SUBSET LiveGroupIds : CreateUser(u, gids)
    BY DEF HandleCreateUser
  <1>2. OthersSame(r) /\ req'[r] = Idle /\ Free(req[r]) /\ SessionsSame
    BY Moves, Untouched DEF TypeInv, HandleCreateUser, Done, At, Free
  <1>3. version' = version
    BY DEF TypeInv, DirectoryTyped, HandleCreateUser, Commit
  <1>4. AccountsSound' /\ NamesStick
    BY <1>1 DEF Revocable, AccountsSound, CreateUser, NamesStick
  <1>5. ASSUME NEW uid, NEW n
        PROVE  /\ Undisturbed(uid, n)
               /\ Updating(req, uid, n) => Updating(req', uid, n)
    <2>1. \A g : <<uid, g>> \in members => <<uid, g>> \in members'
      BY <1>1 DEF CreateUser
    <2>2. ~UpdateOwes(req[r], uid, n) /\ ~RenameOwes(req[r], members, uid, n)
      BY <1>2 DEF Free, UpdateOwes, RenameOwes
    <2>3. /\ Pending(req, members, uid, n) => Pending(req', members', uid, n)
          /\ Updating(req, uid, n) => Updating(req', uid, n)
      BY <1>2, <2>1, <2>2, PendingStays
    <2> QED BY <1>1, <1>3, <2>3 DEF Undisturbed, CreateUser
  <1>6. ASSUME NEW q \in Reqs PROVE DeletionSound(q)'
    <2>1. CASE q # r
      <3>1. SameRequest(req[q], req'[q]) /\ DeletionSound(q)
        BY <1>2, <2>1 DEF OthersSame, Revocable
      <3>2. ASSUME NEW t \in Live', <<login[t].uid, req[q].id>> \in members'
            PROVE  <<login[t].uid, req[q].id>> \in members
        <4>1. login[t].uid \in usedUids
          BY <1>2 DEF SessionsSame, SameSession, Revocable, SessionHonest, Honest
        <4> QED BY <1>1, <3>2, <4>1 DEF CreateUser
      <3> QED BY <1>2, <1>4, <1>5, <3>1, <3>2, DeletionStays
    <2>2. CASE q = r
      BY <1>2, <2>2, IdleQuiet DEF Harmless, DeletionSound, At
    <2> QED BY <2>1, <2>2
  <1> QED BY <1>2, <1>4, <1>5, <1>6, IdleQuiet, StepKeeps

(* The update is owed for as soon as it is committed.                      *)
LEMMA UpdateUserCommitKeeps ==
    ASSUME TypeInv, Revocable, NEW r \in Reqs, UpdateUserCommit(r)
    PROVE  Revocable'
  <1>1. PICK old \in users, pw \in Passwords, disabled \in BOOLEAN,
             gids \in SUBSET LiveGroupIds :
          /\ UpdateUser(old, [old EXCEPT !.pw = pw, !.disabled = disabled], gids)
          /\ Commit(r, {old.id})
          /\ req' = [req EXCEPT ![r].pc = "updRead", ![r].id = old.id]
    BY DEF UpdateUserCommit
  <1> DEFINE u == [old EXCEPT !.pw = pw, !.disabled = disabled]
             k == [req[r] EXCEPT !.pc = "updRead", !.id = old.id]
  <1>2. /\ UpdateUser(old, u, gids) /\ u.id = old.id /\ u.name = old.name
        /\ req' = [req EXCEPT ![r] = k] /\ k.pc = "updRead" /\ k.id = old.id
    <2>1. UpdateUser(old, u, gids)
      BY <1>1
    <2>2. u.id = old.id /\ u.name = old.name
      BY <2>1 DEF UpdateUser
    <2>3. req[r] \in Request /\ r \in DOMAIN req
      BY DEF TypeInv, RequestsTyped, RequestTyped
    <2>4. k.pc = "updRead" /\ k.id = old.id
      BY <2>3 DEF Request
    <2>5. req' = [req EXCEPT ![r] = k]
      BY <1>1, <2>3
    <2> QED BY <2>1, <2>2, <2>4, <2>5
  <1> HIDE DEF u, k
  <1>3. OthersSame(r) /\ req'[r] = k /\ Free(req[r]) /\ SessionsSame
    BY <1>2, Moves, Untouched DEF TypeInv, UpdateUserCommit, At, Free
  <1>4. AccountsSound' /\ NamesStick
    <2>1. users' = (users \ {old}) \cup {u} /\ usedUids' = usedUids
      BY <1>2 DEF UpdateUser
    <2>2. ASSUME NEW m \in members' PROVE \E v \in users' : v.id = m[1]
      <3>1. CASE m \in members /\ m[1] # old.id
        BY <2>1, <3>1 DEF Revocable, AccountsSound
      <3>2. CASE m \in {old.id} \X gids
        BY <1>2, <2>1, <3>2
      <3> QED BY <1>2, <2>2, <3>1, <3>2 DEF UpdateUser
    <2> QED BY <1>2, <2>1, <2>2 DEF Revocable, AccountsSound, NamesStick
  <1>5. ASSUME NEW uid \in usedUids, NEW n
        PROVE  /\ Undisturbed(uid, n)
               /\ Updating(req, uid, n) => Updating(req', uid, n)
               /\ uid = old.id => Updating(req', uid, n)
               /\ uid # old.id => \A g : <<uid, g>> \in members' <=> <<uid, g>> \in members
    <2>1. uid = old.id => UpdateOwes(req'[r], uid, n)
      BY <1>2, <1>3 DEF UpdateOwes
    <2>2. uid # old.id => \A g : <<uid, g>> \in members' <=> <<uid, g>> \in members
      BY <1>2 DEF UpdateUser, TypeInv, DirectoryTyped, DirTypeOK
    <2>3. ~UpdateOwes(req[r], uid, n) /\ ~RenameOwes(req[r], members, uid, n)
      BY <1>3 DEF Free, UpdateOwes, RenameOwes
    <2>4. CASE uid = old.id
      <3>1. Updating(req', uid, n) /\ Pending(req', members', uid, n)
        BY <2>1, <2>4 DEF Updating, Pending
      <3>2. \E v \in users' : v.id = uid
        BY <1>2, <2>4 DEF UpdateUser
      <3> QED BY <2>4, <3>1, <3>2 DEF Undisturbed
    <2>5. CASE uid # old.id
      <3>1. /\ Pending(req, members, uid, n) => Pending(req', members', uid, n)
            /\ Updating(req, uid, n) => Updating(req', uid, n)
        BY <1>3, <2>2, <2>3, <2>5, PendingStays
      <3>2. version'[uid] = version[uid]
        BY <1>1, <2>5 DEF Commit, TypeInv, DirectoryTyped, DirTypeOK
      <3>3. (\E v \in users : v.id = uid) => \E v \in users' : v.id = uid
        BY <1>2, <2>5 DEF UpdateUser
      <3> QED BY <2>2, <2>5, <3>1, <3>2, <3>3 DEF Undisturbed
    <2> QED BY <2>4, <2>5
  <1>6. ASSUME NEW t \in Live' PROVE login[t].uid \in usedUids
    BY <1>3 DEF SessionsSame, SameSession, Revocable, SessionHonest, Honest
  <1>7. ASSUME NEW q \in Reqs, req[q].pc \in LoginSteps PROVE req[q].row.id \in usedUids
    BY <1>7 DEF Revocable, LoginHonest, Honest
  <1>8. ASSUME NEW q \in Reqs PROVE DeletionSound(q)'
    <2>1. CASE q # r
      <3>1. SameRequest(req[q], req'[q]) /\ DeletionSound(q)
        BY <1>3, <2>1 DEF OthersSame, Revocable
      <3> QED BY <1>3, <1>4, <1>5, <1>6, <3>1, DeletionStays
    <2>2. CASE q = r
      BY <1>2, <1>3, <2>2, NoDeletion DEF DeletionSound, At
    <2> QED BY <2>1, <2>2
  <1>9. req'[r].pc \notin LoginSteps
    BY <1>2, <1>3 DEF LoginSteps
  <1> QED BY <1>3, <1>4, <1>5, <1>6, <1>7, <1>8, <1>9, StepKeeps

LEMMA UpdateUserReadKeeps ==
    ASSUME TypeInv, Revocable, NEW r \in Reqs, UpdateUserRead(r)
    PROVE  Revocable'
  <1>0. /\ UNCHANGED <<users, members, usedUids, version, tableVars>>
        /\ req[r].pc = "updRead" /\ RequestsTyped /\ req[r] \in Request
    BY DEF UpdateUserRead, dbVars, At, TypeInv, RequestsTyped, RequestTyped
  <1>1. ASSUME NEW uid, NEW n, req[r].id # uid PROVE Carries(r, uid, n)
    BY <1>0, <1>1 DEF Carries, UpdateOwes, RenameOwes
  <1>2. ASSUME NEW u \in users, u.id = req[r].id, CutShort(r, {u.name}) PROVE Revocable'
    <2>1. /\ SessionsSame /\ OthersSame(r) /\ req'[r] = Idle
          /\ \A t \in Live' : owner[t] = u.name => login'[t].excused
          /\ \A q \in Reqs \ {r} :
                req[q].pc \in LoginSteps /\ req[q].row.name = u.name => req'[q].excused
      BY <1>0, <1>2, CutsShort
    <2>2. \A t \in Live' : login'[t].excused \/ Carries(r, login[t].uid, owner[t])
      BY <1>1, <1>2, <2>1 DEF Revocable, SessionHonest, Honest, SessionsSame, SameSession
    <2>3. \A q \in Reqs \ {r} : req[q].pc \in LoginSteps =>
             req'[q].excused \/ Carries(r, req[q].row.id, req[q].row.name)
      BY <1>1, <1>2, <2>1 DEF Revocable, LoginHonest, Honest
    <2>4. DeletionSound(r)' /\ req'[r].pc \notin LoginSteps
      BY <2>1, IdleQuiet DEF Harmless, DeletionSound, At
    <2> QED BY <1>0, <2>1, <2>2, <2>3, <2>4, ReadKeeps
  <1>3. ASSUME NEW u \in users, u.id = req[r].id, UNCHANGED login,
               req' = [req EXCEPT ![r].pc = "updRevoke", ![r].name = u.name]
        PROVE  Revocable'
    <2> DEFINE k == [req[r] EXCEPT !.pc = "updRevoke", !.name = u.name]
    <2>1. req' = [req EXCEPT ![r] = k] /\ k.pc = "updRevoke" /\ k.name = u.name
      BY <1>0, <1>3 DEF RequestsTyped, Request
    <2> HIDE DEF k
    <2>2. OthersSame(r) /\ req'[r] = k /\ SessionsSame
      BY <1>0, <1>3, <2>1, Moves, Untouched
    <2>3. ASSUME NEW uid, NEW n, uid = u.id => n = u.name PROVE Carries(r, uid, n)
      BY <1>0, <1>3, <2>1, <2>2, <2>3 DEF Carries, UpdateOwes, RenameOwes
    <2>4. \A t \in Live' : Carries(r, login[t].uid, owner[t])
      BY <2>2, <2>3 DEF Revocable, SessionHonest, Honest, SessionsSame, SameSession
    <2>5. \A q \in Reqs \ {r} : req[q].pc \in LoginSteps =>
             Carries(r, req[q].row.id, req[q].row.name)
      BY <2>3 DEF Revocable, LoginHonest, Honest
    <2>6. DeletionSound(r)' /\ req'[r].pc \notin LoginSteps
      BY <2>1, <2>2 DEF DeletionSound, At, LoginSteps
    <2> QED BY <1>0, <2>2, <2>4, <2>5, <2>6, ReadKeeps
  <1>4. ASSUME req[r].id \notin LiveUserIds, Done(r), UNCHANGED login PROVE Revocable'
    <2>1. OthersSame(r) /\ req'[r] = Idle /\ SessionsSame
      BY <1>0, <1>4, Moves, Untouched DEF Done
    <2>2. \A u \in users : u.id # req[r].id
      BY <1>4 DEF LiveUserIds
    <2>3. \A t \in Live' : login'[t].excused \/ Carries(r, login[t].uid, owner[t])
      BY <1>1, <2>1, <2>2 DEF Revocable, SessionHonest, Honest, SessionsSame, SameSession
    <2>4. \A q \in Reqs \ {r} : req[q].pc \in LoginSteps =>
             req'[q].excused \/ Carries(r, req[q].row.id, req[q].row.name)
      BY <1>1, <2>1, <2>2
         DEF Revocable, LoginHonest, Honest, OthersSame, SameRequest, SameClaim
    <2>5. DeletionSound(r)' /\ req'[r].pc \notin LoginSteps
      BY <2>1, IdleQuiet DEF Harmless, DeletionSound, At
    <2> QED BY <1>0, <2>1, <2>3, <2>4, <2>5, ReadKeeps
  <1> QED BY <1>2, <1>3, <1>4 DEF UpdateUserRead

LEMMA UpdateUserRevokeKeeps ==
    ASSUME TypeInv, Revocable, NEW r \in Reqs, UpdateUserRevoke(r)
    PROVE  Revocable'
  <1>1. /\ UNCHANGED <<users, members, usedUids, version, login>>
        /\ req[r].pc = "updRevoke" /\ RequestsTyped
    BY DEF UpdateUserRevoke, dbVars, At, TypeInv
  <1>2. SessionsSame /\ \A t \in Live' : owner[t] # req[r].name
    BY <1>1, Revokes DEF UpdateUserRevoke
  <1>3. /\ OthersSame(r) /\ req'[r] = Idle
        /\ \A q \in Reqs \ {r} :
              req[q].pc \in LoginSteps /\ req[q].row.name = req[r].name => req'[q].excused
    <2> DEFINE N == {req[r].name}
    <2>1. req' = [Overlapped(req, N) EXCEPT ![r] = Idle] /\ req[r].name \in N
      BY DEF UpdateUserRevoke
    <2> HIDE DEF N
    <2> QED BY <1>1, <2>1, MarksAndMoves
  <1>4. ASSUME NEW uid, NEW n, n # req[r].name PROVE Carries(r, uid, n)
    BY <1>1, <1>4 DEF Carries, UpdateOwes, RenameOwes
  <1>5. DeletionSound(r)' /\ req'[r].pc \notin LoginSteps
    BY <1>3, IdleQuiet DEF Harmless, DeletionSound, At
  <1> QED BY <1>1, <1>2, <1>3, <1>4, <1>5, ReadKeeps

-----------------------------------------------------------------------------
LEMMA DeleteUserReadKeeps ==
    ASSUME TypeInv, Revocable, NEW r \in Reqs, NEW id \in UserIds, DeleteUserRead(r, id)
    PROVE  Revocable'
  <1>0. /\ UNCHANGED <<users, members, usedUids, version, tableVars, login>>
        /\ Free(req[r]) /\ RequestsTyped /\ req[r] \in Request /\ SessionsSame
    BY Untouched DEF DeleteUserRead, dbVars, At, Free, TypeInv, RequestsTyped, RequestTyped
  <1>1. ASSUME NEW k, req' = [req EXCEPT ![r] = k], k.pc \notin LoginSteps,
               OthersSame(r) /\ req'[r] = k => DeletionSound(r)'
        PROVE  Revocable'
    <2>1. OthersSame(r) /\ req'[r] = k
      BY <1>0, <1>1, Moves
    <2> QED BY <1>0, <1>1, <2>1, FreeCarries, ReadKeeps
  <1>2. ASSUME NEW u \in users, u.id = id,
               req' = [req EXCEPT ![r].pc = "delRevoke", ![r].id = id, ![r].name = u.name]
        PROVE  Revocable'
    <2> DEFINE k == [req[r] EXCEPT !.pc = "delRevoke", !.id = id, !.name = u.name]
    <2>1. req' = [req EXCEPT ![r] = k] /\ k.pc = "delRevoke" /\ k.id = id /\ k.name = u.name
      BY <1>0, <1>2 DEF RequestsTyped, Request
    <2> HIDE DEF k
    <2>a. id \in usedUids' /\ \A v \in users' : v.id = id => v.name = u.name
      BY <1>0, <1>2 DEF Revocable, AccountsSound
    <2>2. ASSUME req'[r] = k PROVE DeletionSound(r)'
      BY <2>a, <2>1, <2>2 DEF DeletionSound, At
    <2> QED BY <1>1, <2>1, <2>2 DEF LoginSteps
  <1>3. ASSUME Cancelled(r) \/ id \notin LiveUserIds,
               req' = [req EXCEPT ![r].pc = "delCommit", ![r].id = id]
        PROVE  Revocable'
    <2> DEFINE k == [req[r] EXCEPT !.pc = "delCommit", !.id = id]
    <2>0. req[r] \in Request /\ r \in DOMAIN req
      BY <1>0 DEF RequestsTyped, RequestTyped
    <2>1. /\ req' = [req EXCEPT ![r] = k] /\ k.pc = "delCommit" /\ k.id = id
          /\ k.cancelled = req[r].cancelled
      <3>1. k.pc = "delCommit" /\ k.id = id /\ k.cancelled = req[r].cancelled
        BY <2>0 DEF Request
      <3>2. req' = [req EXCEPT ![r] = k]
        BY <1>3, <2>0
      <3> QED BY <3>1, <3>2
    <2> HIDE DEF k
    <2>2. ASSUME req'[r] = k, ~Cancelled(r)', NEW t \in Live', login'[t].uid = id
          PROVE  login'[t].excused
      <3>1. id \notin LiveUserIds
        BY <1>3, <2>1, <2>2 DEF Cancelled
      <3> QED BY <1>0, <2>2, <3>1 DEF LiveUserIds, Revocable, SessionHonest, Honest,
              SessionsSame, SameSession
    <2>3. ASSUME req'[r] = k PROVE DeletionSound(r)'
      BY <2>1, <2>2, <2>3 DEF DeletionSound, At
    <2> QED BY <1>1, <2>1, <2>3 DEF LoginSteps
  <1> QED BY <1>2, <1>3 DEF DeleteUserRead

LEMMA DeleteUserRevokeKeeps ==
    ASSUME TypeInv, Revocable, NEW r \in Reqs, DeleteUserRevoke(r)
    PROVE  Revocable'
  <1>0. /\ UNCHANGED <<users, members, usedUids, version, login>>
        /\ At(r, "delRevoke") /\ Free(req[r]) /\ RequestsTyped /\ req[r] \in Request
    BY DEF DeleteUserRevoke, dbVars, At, Free, TypeInv, RequestsTyped, RequestTyped
  <1>1. SessionsSame /\ \A t \in Live' : owner[t] # req[r].name
    BY <1>0, Revokes DEF DeleteUserRevoke
  <1> DEFINE k == [req[r] EXCEPT !.pc = "delCommit"]
             N == {req[r].name}
  <1>2. /\ req' = [Overlapped(req, N) EXCEPT ![r] = k]
        /\ k.pc = "delCommit" /\ k.id = req[r].id
    <2>1. Overlapped(req, N)[r] = req[r]
      BY <1>0, MarkedTyped DEF At, LoginSteps
    <2> QED BY <1>0, <2>1 DEF DeleteUserRevoke, Request
  <1> HIDE DEF k, N
  <1>3. OthersSame(r) /\ req'[r] = k
    BY <1>0, <1>2, MarksAndMoves
  <1>4. ASSUME NEW t \in Live', login'[t].uid = req'[r].id PROVE login'[t].excused
    <2>1. DeletionSound(r) /\ SessionHonest(t) /\ SameSession(t)
      BY <1>1, <1>4 DEF Revocable, SessionsSame, SameSession
    <2>2. \A u \in users : u.id = req[r].id => u.name = req[r].name
      BY <1>0, <2>1 DEF DeletionSound
    <2>3. login[t].uid = req[r].id /\ owner[t] # req[r].name
      BY <1>1, <1>2, <1>3, <1>4, <2>1 DEF SameSession
    <2> QED BY <2>1, <2>2, <2>3 DEF SessionHonest, Honest, SameSession
  <1>5. DeletionSound(r)' /\ req'[r].pc \notin LoginSteps
    BY <1>2, <1>3, <1>4 DEF DeletionSound, At, LoginSteps
  <1> QED BY <1>0, <1>1, <1>3, <1>5, FreeCarries, ReadKeeps

LEMMA DeleteUserCommitKeeps ==
    ASSUME TypeInv, Revocable, NEW r \in Reqs, DeleteUserCommit(r)
    PROVE  Revocable'
  <1>0. At(r, "delCommit") /\ Free(req[r]) /\ SessionsSame /\ RequestsTyped
    BY Untouched DEF DeleteUserCommit, At, Free, TypeInv
  <1>1. CASE Done(r) /\ UNCHANGED dbVars
    <2>1. OthersSame(r) /\ req'[r] = Idle
      BY <1>0, <1>1, Moves DEF Done
    <2> QED BY <1>0, <1>1, <2>1, IdleQuiet, QuietKeeps DEF dbVars
  <1> DEFINE id == req[r].id
             N == {u.name : u \in {v \in users : v.id = id}}
  <1>2. ASSUME DeleteUser(id), Commit(r, {id}), req' = [Overlapped(req, N) EXCEPT ![r] = Idle]
        PROVE  Revocable'
    <2>n. \A u \in users : u.id = id => u.name \in N
      OBVIOUS
    <2>i. DeletionSound(r) /\ ~Cancelled(r) /\ id = req[r].id
      BY <1>2 DEF Commit, Revocable
    <2> HIDE DEF id, N
    <2>1. /\ OthersSame(r) /\ req'[r] = Idle
          /\ \A q \in Reqs \ {r} :
                req[q].pc \in LoginSteps /\ req[q].row.name \in N => req'[q].excused
      BY <1>0, <1>2, MarksAndMoves
    <2>2. AccountsSound' /\ NamesStick
      BY <1>2 DEF Revocable, AccountsSound, DeleteUser, NamesStick
    <2>3. ASSUME NEW uid, NEW n
          PROVE  Updating(req, uid, n) => Updating(req', uid, n)
      BY <1>0, <2>1, UpdatingStays DEF Free, UpdateOwes
    <2>4. ASSUME NEW uid \in usedUids, NEW n, uid # id PROVE Undisturbed(uid, n)
      <3>1. \A g : <<uid, g>> \in members => <<uid, g>> \in members'
        BY <1>2, <2>4 DEF DeleteUser
      <3>2. Pending(req, members, uid, n) => Pending(req', members', uid, n)
        BY <1>0, <2>1, <3>1, PendingStays DEF Free, UpdateOwes, RenameOwes
      <3>3. version'[uid] = version[uid]
        BY <1>2, <2>4 DEF Commit, TypeInv, DirectoryTyped, DirTypeOK
      <3> QED BY <1>2, <2>4, <3>2, <3>3 DEF Undisturbed, DeleteUser
    <2>5. ASSUME NEW t \in Live'
          PROVE  login'[t].excused \/ Undisturbed(login[t].uid, owner[t])
      <3>1. SameSession(t) /\ login[t].uid \in usedUids
        BY <1>0 DEF SessionsSame, SameSession, Revocable, SessionHonest, Honest
      <3>2. login[t].uid = id => login[t].excused
        BY <1>0, <2>i, <3>1 DEF DeletionSound, SameSession
      <3> QED BY <2>4, <3>1, <3>2 DEF SameSession
    <2>6. ASSUME NEW q \in Reqs \ {r}, req[q].pc \in LoginSteps
          PROVE  req'[q].excused \/ Undisturbed(req[q].row.id, req[q].row.name)
      <3>1. LoginHonest(q) /\ SameRequest(req[q], req'[q])
        BY <2>1, <2>6 DEF Revocable, OthersSame
      <3>2. req[q].row.id \in usedUids
        BY <3>1 DEF LoginHonest, Honest
      <3>3. CASE req[q].row.id = id
        BY <2>n, <2>1, <2>6, <3>1, <3>3
           DEF LoginHonest, Honest, SameRequest, SameClaim
      <3> QED BY <2>4, <3>2, <3>3
    <2>7. ASSUME NEW q \in Reqs PROVE DeletionSound(q)'
      <3>1. CASE q # r
        <4>1. SameRequest(req[q], req'[q]) /\ DeletionSound(q) /\ members' \subseteq members
          BY <1>2, <2>1, <3>1 DEF OthersSame, Revocable, DeleteUser
        <4> QED BY <1>0, <2>2, <2>3, <4>1, DeletionStays
      <3>2. CASE q = r
        BY <2>1, <3>2, IdleQuiet DEF Harmless, DeletionSound, At
      <3> QED BY <3>1, <3>2
    <2> QED BY <1>0, <2>1, <2>2, <2>5, <2>6, <2>7, IdleQuiet, StepKeeps
  <1> QED BY <1>1, <1>2 DEF DeleteUserCommit

-----------------------------------------------------------------------------
LEMMA UpdateGroupCommitKeeps ==
    ASSUME TypeInv, Revocable, NEW r \in Reqs, UpdateGroupCommit(r)
    PROVE  Revocable'
  <1>1. PICK old \in groups, nn \in GroupNames :
          /\ RenameGroup(old, [old EXCEPT !.name = nn])
          /\ Commit(r, IF nn = old.name THEN {} ELSE IdsIn(old.id))
          /\ req' = [req EXCEPT ![r].pc = "grpRead", ![r].id = old.id]
    BY DEF UpdateGroupCommit
  <1> DEFINE k == [req[r] EXCEPT !.pc = "grpRead", !.id = old.id]
  <1>2. req' = [req EXCEPT ![r] = k] /\ k.pc = "grpRead" /\ k.id = old.id
    BY <1>1 DEF TypeInv, RequestsTyped, RequestTyped, Request
  <1> HIDE DEF k
  <1>3. OthersSame(r) /\ req'[r] = k /\ Free(req[r]) /\ SessionsSame
    BY <1>2, Moves, Untouched DEF TypeInv, UpdateGroupCommit, At, Free
  <1>4. UNCHANGED <<users, members, usedUids>>
    BY <1>1 DEF RenameGroup
  <1>5. AccountsSound' /\ NamesStick
    BY <1>4 DEF Revocable, AccountsSound, NamesStick
  <1>6. ASSUME NEW uid \in usedUids, NEW n
        PROVE  /\ Undisturbed(uid, n)
               /\ Updating(req, uid, n) => Updating(req', uid, n)
    <2>1. /\ Pending(req, members, uid, n) => Pending(req', members', uid, n)
          /\ Updating(req, uid, n) => Updating(req', uid, n)
      BY <1>3, <1>4, FreeCarries, CarriesPending
    <2>2. CASE <<uid, old.id>> \in members
      <3>1. RenameOwes(req'[r], members', uid, n)
        BY <1>2, <1>3, <1>4, <2>2 DEF RenameOwes
      <3>2. Pending(req', members', uid, n)
        BY <3>1 DEF Pending
      <3> QED BY <1>4, <2>1, <3>2 DEF Undisturbed
    <2>3. CASE <<uid, old.id>> \notin members
      <3>1. uid \notin IdsIn(old.id)
        BY <2>3 DEF IdsIn
      <3>2. version'[uid] = version[uid]
        BY <1>1, <3>1 DEF Commit, TypeInv, DirectoryTyped, DirTypeOK
      <3> QED BY <1>4, <2>1, <3>2 DEF Undisturbed
    <2> QED BY <2>2, <2>3
  <1>7. ASSUME NEW t \in Live' PROVE login[t].uid \in usedUids
    BY <1>3 DEF SessionsSame, SameSession, Revocable, SessionHonest, Honest
  <1>8. ASSUME NEW q \in Reqs, req[q].pc \in LoginSteps PROVE req[q].row.id \in usedUids
    BY <1>8 DEF Revocable, LoginHonest, Honest
  <1>9. ASSUME NEW q \in Reqs PROVE DeletionSound(q)'
    <2>1. CASE q # r
      <3>1. SameRequest(req[q], req'[q]) /\ DeletionSound(q)
        BY <1>3, <2>1 DEF OthersSame, Revocable
      <3> QED BY <1>3, <1>4, <1>5, <1>6, <1>7, <3>1, DeletionStays
    <2>2. CASE q = r
      BY <1>2, <1>3, <2>2 DEF DeletionSound, At
    <2> QED BY <2>1, <2>2
  <1>10. req'[r].pc \notin LoginSteps
    BY <1>2, <1>3 DEF LoginSteps
  <1> QED BY <1>3, <1>5, <1>6, <1>7, <1>8, <1>9, <1>10, StepKeeps

LEMMA UpdateGroupReadKeeps ==
    ASSUME TypeInv, Revocable, NEW r \in Reqs, UpdateGroupRead(r)
    PROVE  Revocable'
  <1>0. /\ UNCHANGED <<users, members, usedUids, version, tableVars>>
        /\ req[r].pc = "grpRead" /\ RequestsTyped /\ req[r] \in Request
    BY DEF UpdateGroupRead, dbVars, At, TypeInv, RequestsTyped, RequestTyped
  <1> DEFINE N == NamesIn(req[r].id)
  <1>1. ASSUME NEW uid, <<uid, req[r].id>> \in members
        PROVE  \E u \in users : u.id = uid /\ u.name \in N
    BY <1>1 DEF Revocable, AccountsSound, NamesIn
  <1> HIDE DEF N
  <1>2. ASSUME NEW uid, NEW n, <<uid, req[r].id>> \notin members PROVE Carries(r, uid, n)
    BY <1>0, <1>2 DEF Carries, UpdateOwes, RenameOwes
  <1>3. ASSUME NEW t \in Live, <<login[t].uid, req[r].id>> \in members PROVE owner[t] \in N
    BY <1>1, <1>3 DEF Revocable, SessionHonest, Honest
  <1>4. ASSUME NEW q \in Reqs, req[q].pc \in LoginSteps, <<req[q].row.id, req[r].id>> \in members
        PROVE  req[q].row.name \in N
    BY <1>1, <1>4 DEF Revocable, LoginHonest, Honest
  <1>5. ASSUME CutShort(r, N) PROVE Revocable'
    <2>1. /\ SessionsSame /\ OthersSame(r) /\ req'[r] = Idle
          /\ \A t \in Live' : owner[t] \in N => login'[t].excused
          /\ \A q \in Reqs \ {r} :
                req[q].pc \in LoginSteps /\ req[q].row.name \in N => req'[q].excused
      BY <1>0, <1>5, CutsShort
    <2>2. \A t \in Live' : login'[t].excused \/ Carries(r, login[t].uid, owner[t])
      BY <1>2, <1>3, <2>1 DEF SessionsSame, SameSession
    <2>3. \A q \in Reqs \ {r} : req[q].pc \in LoginSteps =>
             req'[q].excused \/ Carries(r, req[q].row.id, req[q].row.name)
      BY <1>2, <1>4, <2>1
    <2>4. DeletionSound(r)' /\ req'[r].pc \notin LoginSteps
      BY <2>1, IdleQuiet DEF Harmless, DeletionSound, At
    <2> QED BY <1>0, <2>1, <2>2, <2>3, <2>4, ReadKeeps
  <1>6. ASSUME UNCHANGED login, req' = [req EXCEPT ![r].pc = "grpRevoke", ![r].todo = N]
        PROVE  Revocable'
    <2> DEFINE k == [req[r] EXCEPT !.pc = "grpRevoke", !.todo = N]
    <2>1. req' = [req EXCEPT ![r] = k] /\ k.pc = "grpRevoke" /\ k.todo = N
      BY <1>0, <1>6 DEF RequestsTyped, Request
    <2> HIDE DEF k
    <2>2. OthersSame(r) /\ req'[r] = k /\ SessionsSame
      BY <1>0, <1>6, <2>1, Moves, Untouched
    <2>3. ASSUME NEW uid, NEW n, n \in N PROVE Carries(r, uid, n)
      BY <1>0, <2>1, <2>2, <2>3 DEF Carries, UpdateOwes, RenameOwes
    <2>4. \A t \in Live' : Carries(r, login[t].uid, owner[t])
      BY <1>2, <1>3, <2>2, <2>3 DEF SessionsSame, SameSession
    <2>5. \A q \in Reqs \ {r} : req[q].pc \in LoginSteps =>
             Carries(r, req[q].row.id, req[q].row.name)
      BY <1>2, <1>4, <2>3
    <2>6. DeletionSound(r)' /\ req'[r].pc \notin LoginSteps
      BY <2>1, <2>2 DEF DeletionSound, At, LoginSteps
    <2> QED BY <1>0, <2>2, <2>4, <2>5, <2>6, ReadKeeps
  <1> QED BY <1>5, <1>6 DEF UpdateGroupRead, N

(* One round of either loop over the members: what r is afterwards.        *)
LEMMA RoundOfLoop ==
    ASSUME TypeInv, NEW r \in Reqs, req[r].pc \in {"grpRevoke", "grpDelRevoke"},
           NEW n \in req[r].todo, Revoke(n), UNCHANGED login,
           req' = [Overlapped(req, {n}) EXCEPT ![r].todo = @ \ {n}]
    PROVE  /\ SessionsSame /\ \A t \in Live' : owner[t] # n
           /\ OthersSame(r)
           /\ \A q \in Reqs \ {r} :
                 req[q].pc \in LoginSteps /\ req[q].row.name = n => req'[q].excused
           /\ req'[r].pc = req[r].pc /\ req'[r].id = req[r].id
           /\ req'[r].cancelled = req[r].cancelled
           /\ req'[r].todo = req[r].todo \ {n}
  <1> DEFINE k == [req[r] EXCEPT !.todo = req[r].todo \ {n}]
             N == {n}
  <1>0. RequestsTyped /\ req[r] \in Request
    BY DEF TypeInv, RequestsTyped, RequestTyped
  <1>1. /\ k.pc = req[r].pc /\ k.id = req[r].id /\ k.cancelled = req[r].cancelled
        /\ k.todo = req[r].todo \ {n}
    BY <1>0 DEF Request
  <1>2. req' = [Overlapped(req, N) EXCEPT ![r] = k] /\ n \in N
    <2>1. Overlapped(req, N)[r] = req[r]
      BY <1>0, MarkedTyped DEF LoginSteps
    <2> QED BY <2>1
  <1> HIDE DEF k, N
  <1>3. /\ OthersSame(r) /\ req'[r] = k
        /\ \A q \in Reqs \ {r} :
              req[q].pc \in LoginSteps /\ req[q].row.name \in N => req'[q].excused
    BY <1>0, <1>2, MarksAndMoves
  <1> QED BY <1>1, <1>2, <1>3, Revokes

LEMMA UpdateGroupRevokeKeeps ==
    ASSUME TypeInv, Revocable, NEW r \in Reqs, UpdateGroupRevoke(r)
    PROVE  Revocable'
  <1>0. /\ UNCHANGED <<users, members, usedUids, version, login>>
        /\ req[r].pc = "grpRevoke" /\ RequestsTyped
    BY DEF UpdateGroupRevoke, RevokeMembers, dbVars, At, TypeInv
  <1>1. ASSUME NEW n0 \in req[r].todo, Revoke(n0),
               req' = [Overlapped(req, {n0}) EXCEPT ![r].todo = @ \ {n0}]
        PROVE  Revocable'
    <2>1. /\ SessionsSame /\ \A t \in Live' : owner[t] # n0
          /\ OthersSame(r)
          /\ \A q \in Reqs \ {r} :
                req[q].pc \in LoginSteps /\ req[q].row.name = n0 => req'[q].excused
          /\ req'[r].pc = "grpRevoke" /\ req'[r].todo = req[r].todo \ {n0}
      BY <1>0, <1>1, RoundOfLoop
    <2>2. ASSUME NEW uid, NEW n, n # n0 PROVE Carries(r, uid, n)
      BY <1>0, <2>1, <2>2 DEF Carries, UpdateOwes, RenameOwes
    <2>3. DeletionSound(r)' /\ req'[r].pc \notin LoginSteps
      BY <2>1 DEF DeletionSound, At, LoginSteps
    <2> QED BY <1>0, <2>1, <2>2, <2>3, ReadKeeps
  <1>2. ASSUME req[r].todo = {}, req' = [req EXCEPT ![r] = Idle], UNCHANGED tableVars
        PROVE  Revocable'
    <2>1. OthersSame(r) /\ req'[r] = Idle /\ SessionsSame
      BY <1>0, <1>2, Moves, Untouched
    <2>2. \A uid, n : Carries(r, uid, n)
      BY <1>0, <1>2 DEF Carries, UpdateOwes, RenameOwes
    <2>3. DeletionSound(r)' /\ req'[r].pc \notin LoginSteps
      BY <2>1, IdleQuiet DEF Harmless, DeletionSound, At
    <2> QED BY <1>0, <2>1, <2>2, <2>3, ReadKeeps
  <1> QED BY <1>1, <1>2 DEF UpdateGroupRevoke, RevokeMembers

LEMMA DeleteGroupReadKeeps ==
    ASSUME TypeInv, Revocable, NEW r \in Reqs, NEW id \in GroupIds, DeleteGroupRead(r, id)
    PROVE  Revocable'
  <1>0. /\ UNCHANGED <<users, members, usedUids, version, login>>
        /\ Free(req[r]) /\ RequestsTyped /\ req[r] \in Request /\ SessionsSame
    BY Untouched DEF DeleteGroupRead, dbVars, At, Free, TypeInv, RequestsTyped, RequestTyped
  <1> DEFINE N == IF Cancelled(r) THEN {} ELSE NamesIn(id)
             k == [req[r] EXCEPT !.pc = "grpDelRevoke", !.id = id, !.todo = N]
  <1>1. /\ req' = [req EXCEPT ![r] = k] /\ k.pc = "grpDelRevoke" /\ k.id = id /\ k.todo = N
        /\ k.cancelled = req[r].cancelled
    BY <1>0 DEF DeleteGroupRead, RequestsTyped, Request
  <1>2. ASSUME NEW t \in Live, <<login[t].uid, id>> \in members, ~req[r].cancelled
        PROVE  owner[t] \in N
    <2>1. PICK u \in users : u.id = login[t].uid
      BY <1>2 DEF Revocable, AccountsSound
    <2>2. u.name = owner[t]
      BY <2>1 DEF Revocable, SessionHonest, Honest
    <2>3. u.name \in NamesIn(id)
      BY <1>2, <2>1 DEF NamesIn
    <2> QED BY <1>2, <2>2, <2>3 DEF Cancelled
  <1> HIDE DEF k, N
  <1>3. OthersSame(r) /\ req'[r] = k
    BY <1>0, <1>1, Moves
  <1>4. DeletionSound(r)'
    BY <1>0, <1>1, <1>2, <1>3 DEF DeletionSound, At, Cancelled, SessionsSame, SameSession
  <1>5. req'[r].pc \notin LoginSteps
    BY <1>1, <1>3 DEF LoginSteps
  <1> QED BY <1>0, <1>3, <1>4, <1>5, FreeCarries, ReadKeeps

LEMMA DeleteGroupRevokeKeeps ==
    ASSUME TypeInv, Revocable, NEW r \in Reqs, DeleteGroupRevoke(r)
    PROVE  Revocable'
  <1>0. /\ UNCHANGED <<users, members, usedUids, version, login>>
        /\ req[r].pc = "grpDelRevoke" /\ RequestsTyped /\ req[r] \in Request
        /\ Free(req[r]) /\ DeletionSound(r)
    BY DEF DeleteGroupRevoke, RevokeMembers, dbVars, At, TypeInv, RequestsTyped, RequestTyped,
       Free, Revocable
  <1>1. ASSUME NEW n0 \in req[r].todo, Revoke(n0),
               req' = [Overlapped(req, {n0}) EXCEPT ![r].todo = @ \ {n0}]
        PROVE  Revocable'
    <2>1. /\ SessionsSame /\ \A t \in Live' : owner[t] # n0
          /\ OthersSame(r)
          /\ req'[r].pc = "grpDelRevoke" /\ req'[r].todo = req[r].todo \ {n0}
          /\ req'[r].id = req[r].id /\ req'[r].cancelled = req[r].cancelled
      BY <1>0, <1>1, RoundOfLoop
    <2>2. ASSUME NEW uid, NEW n PROVE Updating(req, uid, n) => Updating(req', uid, n)
      BY <1>0, <2>1, FreeCarries, CarriesPending
    <2>3. DeletionSound(r)' /\ req'[r].pc \notin LoginSteps
      BY <1>0, <2>1, <2>2
         DEF DeletionSound, At, Cancelled, SessionsSame, SameSession, LoginSteps
    <2> QED BY <1>0, <2>1, <2>3, FreeCarries, ReadKeeps
  <1>2. ASSUME req[r].todo = {}, UNCHANGED tableVars,
               req' = [req EXCEPT ![r] = [req[r] EXCEPT !.pc = "grpDelCommit"]]
        PROVE  Revocable'
    <2> DEFINE k == [req[r] EXCEPT !.pc = "grpDelCommit"]
    <2>1. k.pc = "grpDelCommit" /\ k.id = req[r].id /\ k.cancelled = req[r].cancelled
      BY <1>0 DEF Request
    <2>2. req' = [req EXCEPT ![r] = k]
      BY <1>2
    <2> HIDE DEF k
    <2>3. OthersSame(r) /\ req'[r] = k /\ SessionsSame
      BY <1>0, <1>2, <2>2, Moves, Untouched
    <2>4. ASSUME NEW uid, NEW n PROVE Updating(req, uid, n) => Updating(req', uid, n)
      BY <1>0, <2>3, FreeCarries, CarriesPending
    <2>5. ASSUME NEW t \in Live', <<login'[t].uid, req'[r].id>> \in members', ~Cancelled(r)'
          PROVE  login'[t].excused \/ Updating(req', login'[t].uid, owner'[t])
      <3>1. SameSession(t)
        BY <2>3 DEF SessionsSame
      <3>2. t \in Live /\ <<login[t].uid, req[r].id>> \in members /\ ~Cancelled(r)
        BY <1>0, <2>1, <2>3, <2>5, <3>1 DEF SameSession, Cancelled
      <3>3. login[t].excused \/ Updating(req, login[t].uid, owner[t])
        BY <1>0, <1>2, <3>2 DEF DeletionSound
      <3> QED BY <2>4, <3>1, <3>3 DEF SameSession
    <2>6. DeletionSound(r)' /\ req'[r].pc \notin LoginSteps
      BY <2>1, <2>3, <2>5 DEF DeletionSound, At, LoginSteps
    <2> QED BY <1>0, <2>3, <2>6, FreeCarries, ReadKeeps
  <1> QED BY <1>1, <1>2 DEF DeleteGroupRevoke, RevokeMembers

LEMMA DeleteGroupCommitKeeps ==
    ASSUME TypeInv, Revocable, NEW r \in Reqs, DeleteGroupCommit(r)
    PROVE  Revocable'
  <1>0. /\ req[r].pc = "grpDelCommit" /\ Free(req[r]) /\ SessionsSame /\ RequestsTyped
    BY Untouched DEF DeleteGroupCommit, At, Free, TypeInv
  <1>1. CASE Done(r) /\ UNCHANGED dbVars
    <2>1. OthersSame(r) /\ req'[r] = Idle
      BY <1>0, <1>1, Moves DEF Done
    <2> QED BY <1>0, <1>1, <2>1, IdleQuiet, QuietKeeps DEF dbVars
  <1> DEFINE gid == req[r].id
             N == NamesIn(gid)
  <1>2. ASSUME DeleteGroup(gid), Commit(r, IdsIn(gid)),
               req' = [Overlapped(req, N) EXCEPT ![r] = Idle]
        PROVE  Revocable'
    <2>n. ASSUME NEW uid, <<uid, gid>> \in members
          PROVE  \E u \in users : u.id = uid /\ u.name \in N
      BY <2>n DEF Revocable, AccountsSound, NamesIn
    <2>i. DeletionSound(r) /\ ~Cancelled(r) /\ gid = req[r].id
      BY <1>2 DEF Commit, Revocable
    <2> HIDE DEF gid, N
    <2>1. /\ OthersSame(r) /\ req'[r] = Idle
          /\ \A q \in Reqs \ {r} :
                req[q].pc \in LoginSteps /\ req[q].row.name \in N => req'[q].excused
      BY <1>0, <1>2, MarksAndMoves
    <2>2. AccountsSound' /\ NamesStick /\ users' = users
      BY <1>2 DEF Revocable, AccountsSound, DeleteGroup, NamesStick
    <2>3. ASSUME NEW uid, NEW n
          PROVE  Updating(req, uid, n) => Updating(req', uid, n)
      BY <1>0, <2>1, UpdatingStays DEF Free, UpdateOwes
    <2>4. ASSUME NEW uid \in usedUids, NEW n, <<uid, gid>> \notin members
          PROVE  Undisturbed(uid, n)
      <3>1. \A g : <<uid, g>> \in members => <<uid, g>> \in members'
        BY <1>2, <2>4 DEF DeleteGroup
      <3>2. Pending(req, members, uid, n) => Pending(req', members', uid, n)
        BY <1>0, <2>1, <3>1, PendingStays DEF Free, UpdateOwes, RenameOwes
      <3>3. version'[uid] = version[uid]
        <4>1. uid \notin IdsIn(gid)
          BY <2>4 DEF IdsIn
        <4> QED BY <1>2, <4>1 DEF Commit, TypeInv, DirectoryTyped, DirTypeOK
      <3> QED BY <2>2, <3>2, <3>3 DEF Undisturbed
    <2>5. ASSUME NEW t \in Live'
          PROVE  login'[t].excused \/ Undisturbed(login[t].uid, owner[t])
      <3>1. SameSession(t) /\ login[t].uid \in usedUids
        BY <1>0 DEF SessionsSame, SameSession, Revocable, SessionHonest, Honest
      <3>2. CASE <<login[t].uid, gid>> \in members
        <4>1. login[t].excused \/ Updating(req, login[t].uid, owner[t])
          BY <1>0, <2>i, <3>1, <3>2 DEF DeletionSound, SameSession, At
        <4>2. Updating(req', login[t].uid, owner[t])
                => Undisturbed(login[t].uid, owner[t])
          BY <2>2 DEF Updating, Pending, Undisturbed
        <4> QED BY <2>3, <3>1, <4>1, <4>2 DEF SameSession
      <3> QED BY <2>4, <3>1, <3>2
    <2>6. ASSUME NEW q \in Reqs \ {r}, req[q].pc \in LoginSteps
          PROVE  req'[q].excused \/ Undisturbed(req[q].row.id, req[q].row.name)
      <3>1. LoginHonest(q)
        BY <2>6 DEF Revocable
      <3>2. req[q].row.id \in usedUids
        BY <3>1 DEF LoginHonest, Honest
      <3>3. CASE <<req[q].row.id, gid>> \in members
        BY <2>n, <2>1, <2>6, <3>1, <3>3 DEF LoginHonest, Honest
      <3> QED BY <2>4, <3>2, <3>3
    <2>7. ASSUME NEW q \in Reqs PROVE DeletionSound(q)'
      <3>1. CASE q # r
        <4>1. SameRequest(req[q], req'[q]) /\ DeletionSound(q) /\ members' \subseteq members
          BY <1>2, <2>1, <3>1 DEF OthersSame, Revocable, DeleteGroup
        <4> QED BY <1>0, <2>2, <2>3, <4>1, DeletionStays
      <3>2. CASE q = r
        BY <2>1, <3>2, IdleQuiet DEF Harmless, DeletionSound, At
      <3> QED BY <3>1, <3>2
    <2> QED BY <1>0, <2>1, <2>2, <2>5, <2>6, <2>7, IdleQuiet, StepKeeps
  <1> QED BY <1>1, <1>2 DEF DeleteGroupCommit

-----------------------------------------------------------------------------
LEMMA InitRevocable == Init => Revocable
  <1> SUFFICES ASSUME Init PROVE Revocable
    OBVIOUS
  <1>1. AccountsSound
    BY DEF Init, AccountsSound, LiveUserIds
  <1>2. Live = {} /\ \A q \in Reqs : req[q] = Idle
    BY DEF Init, TableInit, Live
  <1>3. ASSUME NEW q \in Reqs PROVE DeletionSound(q) /\ req[q].pc \notin LoginSteps
    BY <1>2, IdleQuiet DEF Harmless, DeletionSound, At
  <1> QED BY <1>1, <1>2, <1>3 DEF Revocable

LEMMA StutterKeeps == ASSUME Revocable, UNCHANGED vars PROVE Revocable'
  BY DEF vars, Revocable, AccountsSound, SessionHonest, LoginHonest, DeletionSound, Live, At,
     Cancelled

LEMMA StepRevocable == TypeInv /\ Revocable /\ [Next]_vars => Revocable'
  <1> SUFFICES ASSUME TypeInv, Revocable, [Next]_vars PROVE Revocable'
    OBVIOUS
  <1>1. ASSUME NEW r \in Reqs, Handle(r) PROVE Revocable'
    BY <1>1, QuietSteps, LoginCreateKeeps, CreateUserKeeps, UpdateUserCommitKeeps,
       UpdateUserReadKeeps, UpdateUserRevokeKeeps, DeleteUserReadKeeps, DeleteUserRevokeKeeps,
       DeleteUserCommitKeeps, UpdateGroupCommitKeeps, UpdateGroupReadKeeps,
       UpdateGroupRevokeKeeps, DeleteGroupReadKeeps, DeleteGroupRevokeKeeps,
       DeleteGroupCommitKeeps, Zenon DEF Handle
  <1> QED BY <1>1, LoginRowKeeps, QuietSteps, ExpireKeeps, StutterKeeps, Zenon DEF Next

(* The revocations of the six handlers: whatever requests overlap, no      *)
(* session outlives a change of its account but for the exceptions named.  *)
THEOREM ChangesEndSessions == Spec => []StaleSessionsExplained
  <1>1. Spec => []Revocable
    BY InitRevocable, StepRevocable, AlwaysTyped, PTL DEF Spec
  <1> QED BY <1>1, RevocableImplies, PTL

=============================================================================
