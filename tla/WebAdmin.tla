------------------------------ MODULE WebAdmin ------------------------------
(***************************************************************************)
(* The administration UI, internal/web/server.go: HTTP requests that run   *)
(* concurrently over the user store and the session store.                 *)
(*                                                                         *)
(* The two stores appear through what they promise (modules Directory and  *)
(* SessionTable, which Store and Sessions are shown to implement): every   *)
(* statement, transaction or session call is atomic, and other requests    *)
(* run between two of them.  A lookup of an account is two statements, one *)
(* for its row and one for its groups.  A client may disconnect, which     *)
(* cancels the request's context: from then on its statements fail, its    *)
(* session calls do not.                                                   *)
(*                                                                         *)
(* A request's steps that only compute an answer (pages, error texts,      *)
(* refused input) are the action Finish.                                   *)
(***************************************************************************)
EXTENDS Integers, FiniteSets, SessionTable

CONSTANTS
    GroupNames, Passwords, UserIds, GroupIds,
    AdminNames,     \* group names equal to "admins" up to case
    SeedUsers, SeedGroups, SeedMembers,     \* the directory at start
    Reqs,           \* requests in flight at a time
    NoReq,          \* the account field of a request that has read none
    MaxChanges,     \* bound on committed changes to accounts and groups
    MaxCancel       \* bound on cancelled requests

ASSUME WebAssumption ==
    /\ AdminNames \subseteq GroupNames
    /\ SeedUsers \subseteq
          [id : UserIds, name : Names, pw : Passwords, disabled : BOOLEAN]
    /\ SeedGroups \subseteq [id : GroupIds, name : GroupNames]
    /\ \A u, v \in SeedUsers : u.id = v.id \/ u.name = v.name => u = v
    /\ SeedMembers \subseteq
          {u.id : u \in SeedUsers} \X {g.id : g \in SeedGroups}
    /\ MaxChanges \in Nat /\ MaxCancel \in Nat

VARIABLES
    users, groups, members, usedUids, usedGids,     \* the directory
    req,            \* req[r]: what request r is doing
    changes,        \* number of committed changes
    cancels,        \* number of cancelled requests
    version,        \* history: version[id] counts the changes to account id
    login           \* history: login[t]: the account that opened session t

INSTANCE Directory WITH UserNames <- Names

vars == <<owner, issued, users, groups, members, usedUids, usedGids,
          req, changes, cancels, version, login>>

-----------------------------------------------------------------------------
(* pc of a request, and what it holds: the account row it read (row), the  *)
(* session it came with (tok), the account or group it edits (id), and the *)
(* user names it has still to revoke (todo).  excused marks a login that   *)
(* overlapped a revocation of its account.                                 *)
Steps == {"idle", "loginGroups", "loginCreate", "authRow", "authGroups",
          "authorised", "updRead", "updRevoke", "delRevoke", "delCommit",
          "grpRead", "grpRevoke", "grpDelRevoke", "grpDelCommit"}

Login == [uid : UserIds, version : 0..MaxChanges, excused : BOOLEAN]

Request == [pc : Steps, row : User \cup {NoReq}, version : 0..MaxChanges,
            tok : Tokens \cup {NoReq}, name : Names \cup {NoReq},
            id : UserIds \cup GroupIds \cup {NoReq},
            todo : SUBSET Names, cancelled : BOOLEAN, excused : BOOLEAN]

Idle == [pc |-> "idle", row |-> NoReq, version |-> 0, tok |-> NoReq,
         name |-> NoReq, id |-> NoReq, todo |-> {}, cancelled |-> FALSE,
         excused |-> FALSE]

TypeOK ==
    /\ TableTypeOK
    /\ DirTypeOK
    /\ req \in [Reqs -> Request]
    /\ \A r \in Reqs : req[r].pc = "idle" => req[r] = Idle
    /\ changes \in 0..MaxChanges
    /\ cancels \in 0..MaxCancel
    /\ version \in [UserIds -> 0..MaxChanges]
    /\ login \in [Tokens -> Login \cup {NoReq}]

Init ==
    /\ TableInit
    /\ users = SeedUsers
    /\ groups = SeedGroups
    /\ members = SeedMembers
    /\ usedUids = LiveUserIds
    /\ usedGids = LiveGroupIds
    /\ req = [r \in Reqs |-> Idle]
    /\ changes = 0
    /\ cancels = 0
    /\ version = [id \in UserIds |-> 0]
    /\ login = [t \in Tokens |-> NoReq]

dbVars == <<users, groups, members, usedUids, usedGids, changes, version>>

At(r, step) == req[r].pc = step
Cancelled(r) == req[r].cancelled

(* IsMemberOf(user, "admins"), on the groups read by userGroups.           *)
InAdmins(uid) ==
    \E g \in groups : g.name \in AdminNames /\ <<uid, g.id>> \in members

NamesIn(gid) == {u.name : u \in {v \in users : <<v.id, gid>> \in members}}
IdsIn(gid) == {u.id : u \in {v \in users : <<v.id, gid>> \in members}}

(* Requests, and request r after it has moved on.                          *)
Goto(r, step) == req' = [req EXCEPT ![r].pc = step]
Done(r) == req' = [req EXCEPT ![r] = Idle]

(* The requests f, in which the logins of users N that are past their      *)
(* first read are marked as having overlapped a change or revocation.      *)
Overlapped(f, N) ==
    [q \in Reqs |->
        IF f[q].pc \in {"loginGroups", "loginCreate"} /\ f[q].row.name \in N
        THEN [f[q] EXCEPT !.excused = TRUE]
        ELSE f[q]]

-----------------------------------------------------------------------------
(* handleLogin: AuthenticateUser reads the row, then the groups; the       *)
(* checks run on what was read; then sessions.Create.                      *)
LoginRow(r, name, pw) ==
    /\ At(r, "idle")
    /\ \E u \in users :
          /\ u.name = name /\ u.pw = pw
          /\ req' = [req EXCEPT ![r] = [Idle EXCEPT !.pc = "loginGroups",
                        !.row = u, !.version = version[u.id]]]
    /\ UNCHANGED <<tableVars, dbVars, cancels, login>>

LoginGroups(r) ==
    /\ At(r, "loginGroups")
    /\ IF Cancelled(r) \/ req[r].row.disabled \/ ~InAdmins(req[r].row.id)
       THEN Done(r)
       ELSE Goto(r, "loginCreate")
    /\ UNCHANGED <<tableVars, dbVars, cancels, login>>

(* A deletion revokes first and deletes later: the login of an account     *)
(* that is about to be deleted, or is in a group about to be deleted,      *)
(* falls between the two.                                                  *)
BetweenRevokeAndDelete(uid) ==
    \E q \in Reqs :
        \/ At(q, "delCommit") /\ req[q].id = uid
        \/ req[q].pc \in {"grpDelRevoke", "grpDelCommit"}

(* Refused at the session limit, or when no token is left to draw.         *)
LoginCreate(r) ==
    /\ At(r, "loginCreate")
    /\ LET u == req[r].row IN
       \/ \E t \in Tokens :
             /\ Open({}, t, u.name)
             /\ login' = [login EXCEPT ![t] =
                    [uid |-> u.id, version |-> req[r].version,
                     excused |-> req[r].excused \/ BetweenRevokeAndDelete(u.id)]]
       \/ /\ Cardinality(Live) >= Max \/ issued = Tokens
          /\ UNCHANGED <<tableVars, login>>
    /\ Done(r)
    /\ UNCHANGED <<dbVars, cancels>>

-----------------------------------------------------------------------------
(* RevokeUser.  Fault: it does nothing.                                    *)
RevokeNothing(n) == Close({})
Revoke(n) == Close(OwnedBy(n))

(* withAdminAuth and currentUser: sessions.Get, the row, the groups.  Any  *)
(* error of the lookup, and a disabled account, revoke the user's          *)
(* sessions; an account outside the admins group is refused.               *)
AuthSession(r, t) ==
    /\ At(r, "idle")
    /\ t \in Live
    /\ req' = [req EXCEPT ![r] = [Idle EXCEPT !.pc = "authRow", !.tok = t,
                                              !.name = owner[t]]]
    /\ UNCHANGED <<tableVars, dbVars, cancels, login>>

AuthRow(r) ==
    /\ At(r, "authRow")
    /\ \/ \E u \in users :
             /\ u.name = req[r].name /\ ~Cancelled(r)
             /\ req' = [req EXCEPT ![r].pc = "authGroups", ![r].row = u]
             /\ UNCHANGED tableVars
       \/ /\ Cancelled(r) \/ \A u \in users : u.name # req[r].name
          /\ Revoke(req[r].name)
          /\ Done(r)
    /\ UNCHANGED <<dbVars, cancels, login>>

AuthGroups(r) ==
    /\ At(r, "authGroups")
    /\ IF Cancelled(r) \/ req[r].row.disabled
       THEN /\ Revoke(req[r].name)
            /\ Done(r)
       ELSE /\ IF InAdmins(req[r].row.id)
               THEN req' = [req EXCEPT ![r] = [Idle EXCEPT
                               !.pc = "authorised", !.tok = req[r].tok]]
               ELSE Done(r)
            /\ UNCHANGED tableVars
    /\ UNCHANGED <<dbVars, cancels, login>>

(* Pages, and input a handler refuses before or in its first statement.    *)
Finish(r) ==
    /\ At(r, "authorised")
    /\ Done(r)
    /\ UNCHANGED <<tableVars, dbVars, cancels, login>>

(* handleLogout.  Fault: the user is logged out on every device.           *)
LoggedOutEverywhere(r) == {t \in Live : owner[t] = owner[req[r].tok]}
LoggedOut(r) == {req[r].tok} \cap Live

Logout(r) ==
    /\ At(r, "authorised")
    /\ Close(LoggedOut(r))
    /\ Done(r)
    /\ UNCHANGED <<dbVars, cancels, login>>

-----------------------------------------------------------------------------
(* A committed change, which bumps the version of the accounts ids.        *)
Commit(r, ids) ==
    /\ ~Cancelled(r)
    /\ changes < MaxChanges
    /\ changes' = changes + 1
    /\ version' = [id \in UserIds |-> IF id \in ids THEN version[id] + 1
                                                    ELSE version[id]]

(* Request r gives up between its commit and its revocation of users N.    *)
CutShort(r, N) ==
    /\ req' = [Overlapped(req, N) EXCEPT ![r] = Idle]
    /\ login' = [t \in Tokens |-> IF owner[t] \in N
                                   THEN [login[t] EXCEPT !.excused = TRUE]
                                   ELSE login[t]]

(* handleCreateUser: what follows the commit only builds the page.         *)
HandleCreateUser(r) ==
    /\ At(r, "authorised")
    /\ \E u \in User, gids \in SUBSET LiveGroupIds : CreateUser(u, gids)
    /\ Commit(r, {})
    /\ Done(r)
    /\ UNCHANGED <<tableVars, cancels, login>>

(* handleUpdateUser: the transaction, then GetUserByID, then RevokeUser.   *)
UpdateUserCommit(r) ==
    /\ At(r, "authorised")
    /\ \E old \in users, pw \in Passwords, disabled \in BOOLEAN,
          gids \in SUBSET LiveGroupIds :
          /\ UpdateUser(old, [old EXCEPT !.pw = pw, !.disabled = disabled], gids)
          /\ Commit(r, {old.id})
          /\ req' = [req EXCEPT ![r].pc = "updRead", ![r].id = old.id]
    /\ UNCHANGED <<tableVars, cancels, login>>

(* If the read back fails the handler returns without revoking.            *)
UpdateUserRead(r) ==
    /\ At(r, "updRead")
    /\ \/ \E u \in users :
             /\ u.id = req[r].id
             /\ IF Cancelled(r)
                THEN CutShort(r, {u.name})
                ELSE /\ req' = [req EXCEPT ![r].pc = "updRevoke",
                                           ![r].name = u.name]
                     /\ UNCHANGED login
       \/ /\ req[r].id \notin LiveUserIds
          /\ Done(r)
          /\ UNCHANGED login
    /\ UNCHANGED <<tableVars, dbVars, cancels>>

UpdateUserRevoke(r) ==
    /\ At(r, "updRevoke")
    /\ Revoke(req[r].name)
    /\ req' = [Overlapped(req, {req[r].name}) EXCEPT ![r] = Idle]
    /\ UNCHANGED <<dbVars, cancels, login>>

(* handleDeleteUser: GetUserByID, RevokeUser if it succeeded, and then     *)
(* the deletion.                                                           *)
DeleteUserRead(r, id) ==
    /\ At(r, "authorised")
    /\ \/ \E u \in users :
             /\ u.id = id /\ ~Cancelled(r)
             /\ req' = [req EXCEPT ![r].pc = "delRevoke", ![r].id = id,
                                   ![r].name = u.name]
       \/ /\ Cancelled(r) \/ id \notin LiveUserIds
          /\ req' = [req EXCEPT ![r].pc = "delCommit", ![r].id = id]
    /\ UNCHANGED <<tableVars, dbVars, cancels, login>>

DeleteUserRevoke(r) ==
    /\ At(r, "delRevoke")
    /\ Revoke(req[r].name)
    /\ req' = [Overlapped(req, {req[r].name}) EXCEPT ![r].pc = "delCommit"]
    /\ UNCHANGED <<dbVars, cancels, login>>

DeleteUserCommit(r) ==
    /\ At(r, "delCommit")
    /\ \/ /\ DeleteUser(req[r].id)
          /\ Commit(r, {req[r].id})
          /\ req' = [Overlapped(req, {u.name : u \in {v \in users :
                                            v.id = req[r].id}})
                       EXCEPT ![r] = Idle]
       \/ /\ Cancelled(r) \/ changes = MaxChanges
          /\ Done(r)
          /\ UNCHANGED dbVars
    /\ UNCHANGED <<tableVars, cancels, login>>

-----------------------------------------------------------------------------
(* handleCreateGroup                                                       *)
HandleCreateGroup(r) ==
    /\ At(r, "authorised")
    /\ \E g \in Group : CreateGroup(g)
    /\ Commit(r, {})
    /\ Done(r)
    /\ UNCHANGED <<tableVars, cancels, login>>

(* handleUpdateGroup: the UPDATE, then GetGroupByID, then RevokeUser for   *)
(* each member it returned.  A new name changes what its members are; a    *)
(* new description does not.                                               *)
UpdateGroupCommit(r) ==
    /\ At(r, "authorised")
    /\ \E old \in groups, n \in GroupNames :
          /\ RenameGroup(old, [old EXCEPT !.name = n])
          /\ Commit(r, IF n = old.name THEN {} ELSE IdsIn(old.id))
          /\ req' = [req EXCEPT ![r].pc = "grpRead", ![r].id = old.id]
    /\ UNCHANGED <<tableVars, cancels, login>>

UpdateGroupRead(r) ==
    /\ At(r, "grpRead")
    /\ IF Cancelled(r)
       THEN CutShort(r, NamesIn(req[r].id))
       ELSE /\ req' = [req EXCEPT ![r].pc = "grpRevoke",
                                  ![r].todo = NamesIn(req[r].id)]
            /\ UNCHANGED login
    /\ UNCHANGED <<tableVars, dbVars, cancels>>

(* One RevokeUser of the loop over the members, or its end.                *)
RevokeMembers(r, step, next) ==
    /\ At(r, step)
    /\ \/ \E n \in req[r].todo :
             /\ Revoke(n)
             /\ req' = [Overlapped(req, {n}) EXCEPT ![r].todo = @ \ {n}]
       \/ /\ req[r].todo = {}
          /\ req' = [req EXCEPT ![r] = IF next = "idle" THEN Idle
                                       ELSE [@ EXCEPT !.pc = next]]
          /\ UNCHANGED tableVars
    /\ UNCHANGED <<dbVars, cancels, login>>

UpdateGroupRevoke(r) == RevokeMembers(r, "grpRevoke", "idle")

(* handleDeleteGroup: GetGroupByID, RevokeUser for its members, and then   *)
(* the deletion.                                                           *)
DeleteGroupRead(r, id) ==
    /\ At(r, "authorised")
    /\ req' = [req EXCEPT ![r].pc = "grpDelRevoke", ![r].id = id,
                  ![r].todo = IF Cancelled(r) THEN {} ELSE NamesIn(id)]
    /\ UNCHANGED <<tableVars, dbVars, cancels, login>>

DeleteGroupRevoke(r) == RevokeMembers(r, "grpDelRevoke", "grpDelCommit")

DeleteGroupCommit(r) ==
    /\ At(r, "grpDelCommit")
    /\ \/ /\ DeleteGroup(req[r].id)
          /\ Commit(r, IdsIn(req[r].id))
          /\ req' = [Overlapped(req, NamesIn(req[r].id)) EXCEPT ![r] = Idle]
       \/ /\ Cancelled(r) \/ changes = MaxChanges
          /\ Done(r)
          /\ UNCHANGED dbVars
    /\ UNCHANGED <<tableVars, cancels, login>>

-----------------------------------------------------------------------------
(* The client disconnects: the request's context is cancelled.             *)
Cancel(r) ==
    /\ ~At(r, "idle") /\ ~Cancelled(r)
    /\ cancels < MaxCancel
    /\ cancels' = cancels + 1
    /\ req' = [req EXCEPT ![r].cancelled = TRUE]
    /\ UNCHANGED <<tableVars, dbVars, login>>

(* A session runs into its idle timeout.                                   *)
Expire(t) ==
    /\ t \in Live
    /\ Close({t})
    /\ UNCHANGED <<dbVars, req, cancels, login>>

(* The steps of a request that was accepted.                               *)
Handle(r) ==
    \/ LoginGroups(r) \/ LoginCreate(r)
    \/ AuthRow(r) \/ AuthGroups(r) \/ Finish(r) \/ Logout(r)
    \/ HandleCreateUser(r) \/ HandleCreateGroup(r)
    \/ UpdateUserCommit(r) \/ UpdateUserRead(r) \/ UpdateUserRevoke(r)
    \/ \E id \in UserIds : DeleteUserRead(r, id)
    \/ DeleteUserRevoke(r) \/ DeleteUserCommit(r)
    \/ UpdateGroupCommit(r) \/ UpdateGroupRead(r) \/ UpdateGroupRevoke(r)
    \/ \E id \in GroupIds : DeleteGroupRead(r, id)
    \/ DeleteGroupRevoke(r) \/ DeleteGroupCommit(r)

Next ==
    \/ \E r \in Reqs :
          \/ \E name \in Names, pw \in Passwords : LoginRow(r, name, pw)
          \/ \E t \in Tokens : AuthSession(r, t)
          \/ Handle(r)
          \/ Cancel(r)
    \/ \E t \in Tokens : Expire(t)

Spec == Init /\ [][Next]_vars

(* net/http runs every accepted request on a goroutine of its own to its   *)
(* end; nothing forces a client to send or to cancel one.                  *)
FairSpec == Spec /\ \A r \in Reqs : WF_vars(Handle(r))

-----------------------------------------------------------------------------
(* A session is stale when the account it was opened for has been changed  *)
(* since the login read it, or is gone (its name may belong to another).   *)
Stale(t) == ~\E u \in users : /\ u.id = login[t].uid
                               /\ version[u.id] = login[t].version

(* A handler has committed a change and has still to revoke session t.     *)
RevocationPending(t) ==
    \E q \in Reqs :
        \/ At(q, "updRead") /\ req[q].id = login[t].uid
        \/ At(q, "updRevoke") /\ req[q].name = owner[t]
        \/ At(q, "grpRead") /\ <<login[t].uid, req[q].id>> \in members
        \/ At(q, "grpRevoke") /\ owner[t] \in req[q].todo

(* Changing or deleting an account, or a group it is in, ends every        *)
(* session opened before the change, at the latest when the handler is     *)
(* done.  The only exceptions are logins that overlapped the change or its *)
(* revocation, and handlers cut short by a disconnecting client between    *)
(* commit and revocation.                                                  *)
StaleSessionsExplained ==
    \A t \in Live : Stale(t) => login[t].excused \/ RevocationPending(t)

(* The same as a promise: a session made stale by a change is eventually   *)
(* ended, unless it is one of the exceptions.                              *)
StaleSessionsEnd ==
    \A t \in Tokens :
        (t \in Live /\ Stale(t)) ~> (t \notin Live \/ login[t].excused)

(* A session ends by its timeout, by a logout with its own token, by a     *)
(* revocation meant for its user, or because a request of its user found   *)
(* the account gone or disabled, or lost its client while it looked: no    *)
(* other request, of other users or of other devices, ends it.             *)
LookupFailed(r) ==
    \/ Cancelled(r)
    \/ At(r, "authRow") /\ \A u \in users : u.name # req[r].name
    \/ At(r, "authGroups") /\ req[r].row.disabled

Cause(r, t) ==
    \/ At(r, "authorised") /\ req[r].tok = t
    \/ req[r].pc \in {"authRow", "authGroups"} /\ req[r].name = owner[t] /\ LookupFailed(r)
    \/ req[r].pc \in {"updRevoke", "delRevoke"} /\ req[r].name = owner[t]
    \/ req[r].pc \in {"grpRevoke", "grpDelRevoke"} /\ owner[t] \in req[r].todo

SessionEndsForCause ==
    [][\A t \in Live : owner'[t] # owner[t] =>
          req' = req \/ \E r \in Reqs : req'[r] # req[r] /\ Cause(r, t)]_vars

(* What the plan promises: when a user's password or role is changed, the  *)
(* user is logged out everywhere.  With no request in progress, no live    *)
(* session predates a change of its account.                               *)
LoggedOutOnChange ==
    (\A r \in Reqs : At(r, "idle")) => \A t \in Live : ~Stale(t)

=============================================================================
