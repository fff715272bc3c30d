----------------------------- MODULE LdapServer -----------------------------
(***************************************************************************)
(* The LDAP server, internal/ldapserver/server.go: connections, each       *)
(* served by a goroutine of its own that holds a token for it, binds and   *)
(* searches, over a directory that the administration UI changes meanwhile.*)
(*                                                                         *)
(* The store appears through what it promises (module Directory), one      *)
(* statement at a time: a lookup of an account is two of them, a listing   *)
(* is one and one more per row.  The two rate limiters appear through what *)
(* they promise (module Quota).  A connection remembers the account and    *)
(* the groups its bind found, and its searches are decided on those.       *)
(*                                                                         *)
(* A search asks for the whole tree without a filter: any other base,      *)
(* scope or filter selects from the entries of that answer.                *)
(***************************************************************************)
EXTENDS Integers, FiniteSets

CONSTANTS
    UserNames, GroupNames, Passwords, UserIds, GroupIds,
    Lower,          \* Lower[n]: user name n in lower case
    AdminGroups,    \* group names equal to "admins" or "mvradmins" up to case
    SeedUsers, SeedGroups, SeedMembers,     \* the directory at start
    Conns,          \* connections, of all listeners
    Addrs, AddrOf,  \* AddrOf[c]: the address c comes from
    MaxConns,       \* capacity of connTokens (16 in the program)
    BindLimit,      \* binds let through per window and address (3)
    SearchLimit,    \* searches let through per second and connection (50)
    MaxChanges      \* bound on changes to the directory

ASSUME LdapAssumption ==
    /\ Lower \in [UserNames -> UserNames]
    /\ AdminGroups \subseteq GroupNames
    /\ \A u, v \in SeedUsers : u.id = v.id \/ u.name = v.name => u = v
    /\ SeedMembers \subseteq
          {u.id : u \in SeedUsers} \X {g.id : g \in SeedGroups}
    /\ AddrOf \in [Conns -> Addrs]
    /\ MaxConns \in Nat \ {0}
    /\ BindLimit \in Nat \ {0} /\ SearchLimit \in Nat \ {0}
    /\ MaxChanges \in Nat

VARIABLES
    users, groups, members, usedUids, usedGids,     \* the directory
    conn,       \* conn[c]: connection c and what its goroutine is doing
    tokens,     \* length of connTokens
    binds,      \* the bind limiter's recent attempts per address
    searches,   \* the search limiter's recent searches per connection
    changes     \* number of changes to the directory

INSTANCE Directory
BindRate == INSTANCE Quota WITH
               Keys <- Addrs, Limit <- BindLimit, recent <- binds
SearchRate == INSTANCE Quota WITH
               Keys <- Conns, Limit <- SearchLimit, recent <- searches

vars == <<users, groups, members, usedUids, usedGids,
          conn, tokens, binds, searches, changes>>
directory == <<users, groups, members, usedUids, usedGids, changes>>

-----------------------------------------------------------------------------
(* Entries: account and group names, and the two sides of a membership.    *)
Entries == [users : SUBSET UserNames, groups : SUBSET GroupNames,
            memberOf : SUBSET (UserNames \X GroupNames),
            member : SUBSET (UserNames \X GroupNames)]
NoEntries == [users |-> {}, groups |-> {}, memberOf |-> {}, member |-> {}]

(* Results of a bind; all but the first two are in the audit log.          *)
BindResults == {"bound_already", "bad_bind", "rate_limited", "anonymous",
                "invalid_dn", "invalid_credentials", "user_disabled", "success"}
Results == BindResults \cup {"none", "entries", "root_dse", "refused"}

(* user, roles: what the successful bind found, user being a set of no or  *)
(* one row; asked, row: of a bind request; todo: rows a listing has still  *)
(* to look into; result: of the last request.  History: stale when the     *)
(* account of user or row, or its groups, have changed since row was read; *)
(* moved when anything has changed since the last request arrived.         *)
Connection ==
    [pc : {"none", "read", "bindRow", "bindGroups", "users", "userGroups",
           "groups", "groupMembers", "reply", "closed"},
     bound : BOOLEAN, anonymous : BOOLEAN, hadSuccessfulBind : BOOLEAN,
     user : SUBSET User, roles : SUBSET GroupNames,
     asked : SUBSET (UserNames \X Passwords), row : SUBSET User,
     entries : Entries,
     todo : SUBSET [id : UserIds \cup GroupIds, name : UserNames \cup GroupNames],
     result : Results, stale : BOOLEAN, moved : BOOLEAN]

Fresh == [pc |-> "read", bound |-> FALSE, anonymous |-> FALSE,
          hadSuccessfulBind |-> FALSE, user |-> {}, roles |-> {}, asked |-> {},
          row |-> {}, entries |-> NoEntries, todo |-> {}, result |-> "none",
          stale |-> FALSE, moved |-> FALSE]
NoConn == [Fresh EXCEPT !.pc = "none"]

TypeOK ==
    /\ DirTypeOK
    /\ DOMAIN conn = Conns
    /\ \A c \in Conns :
          /\ conn[c] \in Connection
          /\ conn[c].pc = "none" => conn[c] = NoConn
          /\ Cardinality(conn[c].user) <= 1 /\ Cardinality(conn[c].row) <= 1
    /\ tokens \in 0..MaxConns
    /\ BindRate!QuotaTypeOK
    /\ SearchRate!QuotaTypeOK
    /\ changes \in 0..MaxChanges

Init ==
    /\ users = SeedUsers
    /\ groups = SeedGroups
    /\ members = SeedMembers
    /\ usedUids = LiveUserIds
    /\ usedGids = LiveGroupIds
    /\ conn = [c \in Conns |-> NoConn]
    /\ tokens = 0
    /\ BindRate!QuotaInit
    /\ SearchRate!QuotaInit
    /\ changes = 0

At(c, step) == conn[c].pc = step

(* The request at hand is done: what it read is dropped, but for what the  *)
(* properties compare with the directory.                                  *)
Answered(k, result) == [k EXCEPT !.pc = "reply", !.result = result, !.row = {}]

(* A request arrives: what the last one left for comparison is dropped.    *)
Begun(c) == [conn[c] EXCEPT !.asked = {}, !.entries = NoEntries,
                            !.result = "none", !.moved = FALSE]

-----------------------------------------------------------------------------
(* Serve: a connection for which there is no token is closed unread.       *)
Accept(c) ==
    /\ At(c, "none")
    /\ tokens < MaxConns
    /\ tokens' = tokens + 1
    /\ conn' = [conn EXCEPT ![c] = Fresh]
    /\ searches' = [searches EXCEPT ![c] = 0]
    /\ UNCHANGED <<directory, binds>>

(* handleConn: the response is written, or the write fails, at the latest  *)
(* at the deadline, which was set before the request was read.             *)
Reply(c) ==
    /\ At(c, "reply")
    /\ conn[c].result # "rate_limited"
    /\ conn' = [conn EXCEPT ![c].pc = "read"]
    /\ UNCHANGED <<directory, tokens, binds, searches>>

(* The connection ends: after a refusal by the bind limiter, on a failed   *)
(* write, on a request to unbind, on input that is no LDAP message, when   *)
(* the client hangs up, or when the deadline passes.                       *)
Closed(c) == conn' = [conn EXCEPT ![c] = [NoConn EXCEPT !.pc = "closed"]]

CloseAfterReply(c) ==
    /\ At(c, "reply")
    /\ Closed(c)
    /\ UNCHANGED <<directory, tokens, binds, searches>>

(* Fault: the deadline is set for the first read only.                     *)
DeadlinePassesOnce(c) == At(c, "read") /\ conn[c].result = "none"
DeadlinePasses(c) == At(c, "read")

Timeout(c) ==
    /\ DeadlinePasses(c)
    /\ Closed(c)
    /\ UNCHANGED <<directory, tokens, binds, searches>>

UnbindOrHangUp(c) ==
    /\ At(c, "read")
    /\ Closed(c)
    /\ UNCHANGED <<directory, tokens, binds, searches>>

(* The goroutine's deferred functions: the token goes back last.           *)
(* Fault: it does not go back.                                             *)
TokensKept == tokens
TokensLeft == tokens - 1

Forgotten(c) == NoConn

Release(c) ==
    /\ At(c, "closed")
    /\ tokens' = TokensLeft
    /\ conn' = [conn EXCEPT ![c] = Forgotten(c)]
    /\ UNCHANGED <<directory, binds, searches>>

-----------------------------------------------------------------------------
(* handleBind.  Fault: an anonymous bind does not count as one.            *)
BoundAlreadyAsUser(c) == conn[c].bound /\ ~conn[c].anonymous
BoundAlready(c) == conn[c].hadSuccessfulBind

BindAgain(c) ==
    /\ At(c, "read") /\ BoundAlready(c)
    /\ conn' = [conn EXCEPT ![c] = Answered(Begun(c), "bound_already")]
    /\ UNCHANGED <<directory, tokens, binds, searches>>

BindRefused(c) ==
    /\ At(c, "read") /\ ~BoundAlready(c)
    /\ BindRate!Spent(AddrOf[c])
    /\ conn' = [conn EXCEPT ![c] = Answered(Begun(c), "rate_limited")]
    /\ UNCHANGED <<directory, tokens, binds, searches>>

(* Let through by the limiter: malformed, of another version or another    *)
(* mechanism; anonymous; with a DN that names no user; with credentials.   *)
BindLetThrough(c) ==
    /\ At(c, "read") /\ ~BoundAlready(c)
    /\ BindRate!Grant(AddrOf[c])
    /\ \/ \E result \in {"bad_bind", "invalid_dn"} :
             conn' = [conn EXCEPT ![c] = Answered(Begun(c), result)]
       \/ conn' = [conn EXCEPT ![c] =
             [Answered(Begun(c), "anonymous") EXCEPT
                !.bound = TRUE, !.anonymous = TRUE, !.hadSuccessfulBind = TRUE]]
       \/ \E name \in UserNames, pw \in Passwords :
             conn' = [conn EXCEPT ![c] = [Begun(c) EXCEPT
                !.pc = "bindRow", !.asked = {<<name, pw>>}, !.stale = FALSE]]
    /\ UNCHANGED <<directory, tokens, searches>>

(* AuthenticateUser: usernameFromDN has put the name in lower case; the    *)
(* account's row, then its groups, then the password.                      *)
BindRow(c) ==
    /\ At(c, "bindRow")
    /\ LET found == {u \in users : \E a \in conn[c].asked : u.name = Lower[a[1]]}
       IN conn' = [conn EXCEPT ![c] =
             IF found = {} THEN Answered(@, "invalid_credentials")
                           ELSE [conn[c] EXCEPT !.pc = "bindGroups", !.row = found]]
    /\ UNCHANGED <<directory, tokens, binds, searches>>

PasswordRight(c) == \E u \in conn[c].row, a \in conn[c].asked : u.pw = a[2]

(* Fault: the disabled flag is not looked at.                              *)
DisabledNever(c) == FALSE
Disabled(c) == \E u \in conn[c].row : u.disabled

RolesOf(uid) == {g.name : g \in {h \in groups : <<uid, h.id>> \in members}}

BindGroups(c) ==
    /\ At(c, "bindGroups")
    /\ conn' = [conn EXCEPT ![c] =
          IF ~PasswordRight(c) THEN Answered(@, "invalid_credentials")
          ELSE IF Disabled(c) THEN Answered(@, "user_disabled")
          ELSE [Answered(@, "success") EXCEPT
                  !.user = conn[c].row,
                  !.roles = UNION {RolesOf(u.id) : u \in conn[c].row},
                  !.bound = TRUE, !.anonymous = FALSE,
                  !.hadSuccessfulBind = TRUE]]
    /\ UNCHANGED <<directory, tokens, binds, searches>>

-----------------------------------------------------------------------------
(* handleSearch.  Fault: an anonymous bind counts as an authenticated one. *)
RestrictedUnbound(c) == ~conn[c].bound
Restricted(c) == ~conn[c].bound \/ conn[c].anonymous

SearchRefused(c) ==
    /\ At(c, "read")
    /\ SearchRate!Spent(c)
    /\ conn' = [conn EXCEPT ![c] = Answered(Begun(c), "refused")]
    /\ UNCHANGED <<directory, tokens, binds, searches>>

(* Malformed, for the root DSE, denied, or to be answered with entries.    *)
SearchLetThrough(c) ==
    /\ At(c, "read")
    /\ SearchRate!Grant(c)
    /\ \/ conn' = [conn EXCEPT ![c] = Answered(Begun(c), "refused")]
       \/ /\ Restricted(c)
          /\ conn' = [conn EXCEPT ![c] = Answered(Begun(c), "root_dse")]
       \/ /\ ~Restricted(c)
          /\ conn' = [conn EXCEPT ![c] = [Begun(c) EXCEPT !.pc = "users"]]
    /\ UNCHANGED <<directory, tokens, binds>>

(* A change to the directory, and operations that are never carried out.   *)
OtherRequest(c) ==
    /\ At(c, "read")
    /\ conn' = [conn EXCEPT ![c] = Answered(Begun(c), "refused")]
    /\ UNCHANGED <<directory, tokens, binds, searches>>

Request(c) ==
    \/ BindAgain(c) \/ BindRefused(c) \/ BindLetThrough(c)
    \/ SearchRefused(c) \/ SearchLetThrough(c) \/ OtherRequest(c)

(* IsMemberOf(user, "admins", "mvradmins").  Fault: it is never asked.     *)
AdminScopeNever(c) == FALSE
AdminScope(c) == conn[c].roles \cap AdminGroups # {}

(* visibleEntries: the selection from what the listings found.             *)
Visible(c, e) ==
    LET us == IF AdminScope(c) THEN e.users
              ELSE e.users \cap {u.name : u \in conn[c].user}
        gs == IF AdminScope(c) THEN e.groups ELSE e.groups \cap conn[c].roles
    IN [users |-> us, groups |-> gs,
        memberOf |-> {m \in e.memberOf : m[1] \in us},
        member |-> {m \in e.member : m[2] \in gs}]

Rows(table) == {[id |-> x.id, name |-> x.name] : x \in table}
Names(table) == {x.name : x \in table}

(* ListUsers: the rows, then the groups of each.                           *)
ListUsers(c) ==
    /\ At(c, "users")
    /\ conn' = [conn EXCEPT ![c] = [conn[c] EXCEPT
          !.pc = IF users = {} THEN "groups" ELSE "userGroups",
          !.entries.users = Names(users), !.todo = Rows(users)]]
    /\ UNCHANGED <<directory, tokens, binds, searches>>

UserGroups(c) ==
    /\ At(c, "userGroups")
    /\ \E x \in conn[c].todo :
          conn' = [conn EXCEPT ![c] = [conn[c] EXCEPT
             !.pc = IF conn[c].todo = {x} THEN "groups" ELSE "userGroups",
             !.entries.memberOf = @ \cup ({x.name} \X RolesOf(x.id)),
             !.todo = @ \ {x}]]
    /\ UNCHANGED <<directory, tokens, binds, searches>>

(* ListGroups: the rows, then the members of each; then the answer.        *)
Listed(c, k) ==
    IF k.todo = {}
    THEN [Answered(k, "entries") EXCEPT !.entries = Visible(c, k.entries)]
    ELSE [k EXCEPT !.pc = "groupMembers"]

ListGroups(c) ==
    /\ At(c, "groups")
    /\ conn' = [conn EXCEPT ![c] = Listed(c, [conn[c] EXCEPT
          !.entries.groups = Names(groups), !.todo = Rows(groups)])]
    /\ UNCHANGED <<directory, tokens, binds, searches>>

MembersOf(gid) == {u.name : u \in {v \in users : <<v.id, gid>> \in members}}

GroupMembers(c) ==
    /\ At(c, "groupMembers")
    /\ \E x \in conn[c].todo :
          conn' = [conn EXCEPT ![c] = Listed(c, [conn[c] EXCEPT
             !.entries.member = @ \cup (MembersOf(x.id) \X {x.name}),
             !.todo = @ \ {x}])]
    /\ UNCHANGED <<directory, tokens, binds, searches>>

-----------------------------------------------------------------------------
(* A change by the administration UI, which affects the accounts ids.      *)
Changed(ids) ==
    /\ changes < MaxChanges
    /\ changes' = changes + 1
    /\ conn' = [c \in Conns |->
          IF conn[c].pc \in {"none", "closed"} THEN conn[c]
          ELSE [conn[c] EXCEPT
             !.moved = TRUE,
             !.stale = @ \/ \E u \in conn[c].user \cup conn[c].row : u.id \in ids]]
    /\ UNCHANGED <<tokens, binds, searches>>

IdsIn(gid) == {m[1] : m \in {n \in members : n[2] = gid}}

ChangeUser ==
    \/ \E u \in User, gids \in SUBSET LiveGroupIds :
          CreateUser(u, gids) /\ Changed({u.id})
    \/ \E old \in users, pw \in Passwords, off \in BOOLEAN,
          gids \in SUBSET LiveGroupIds :
          /\ UpdateUser(old, [old EXCEPT !.pw = pw, !.disabled = off], gids)
          /\ Changed({old.id})
    \/ \E u \in users : DeleteUser(u.id) /\ Changed({u.id})

ChangeGroup ==
    \/ \E g \in Group : CreateGroup(g) /\ Changed({})
    \/ \E old \in groups, name \in GroupNames :
          /\ RenameGroup(old, [old EXCEPT !.name = name])
          /\ Changed(IdsIn(old.id))
    \/ \E g \in groups : DeleteGroup(g.id) /\ Changed(IdsIn(g.id))

(* Time passes for the limiters.                                           *)
BindsAge ==
    /\ BindRate!Age
    /\ UNCHANGED <<directory, conn, tokens, searches>>

SearchesAge ==
    /\ SearchRate!Age
    /\ UNCHANGED <<directory, conn, tokens, binds>>

(* What the goroutine of a connection does by itself.                      *)
Handle(c) ==
    \/ BindRow(c) \/ BindGroups(c)
    \/ ListUsers(c) \/ UserGroups(c) \/ ListGroups(c) \/ GroupMembers(c)
    \/ Reply(c) \/ CloseAfterReply(c) \/ Timeout(c) \/ Release(c)

Next ==
    \/ \E c \in Conns : Accept(c) \/ Request(c) \/ UnbindOrHangUp(c) \/ Handle(c)
    \/ ChangeUser \/ ChangeGroup
    \/ BindsAge \/ SearchesAge

Spec == Init /\ [][Next]_vars

(* A goroutine is scheduled, and a deadline passes, sooner or later.       *)
FairSpec == Spec /\ \A c \in Conns : WF_vars(Handle(c))

-----------------------------------------------------------------------------
(* Every token is held by one connection that is being served, and at most *)
(* MaxConns are, however they end.                                         *)
TokensCounted ==
    /\ tokens = Cardinality({c \in Conns : ~At(c, "none")})
    /\ tokens <= MaxConns

(* One successful bind per connection, anonymous or not: what it made of   *)
(* the connection lasts until the connection ends.                         *)
Identity(c) == <<conn[c].bound, conn[c].anonymous, conn[c].user, conn[c].roles>>
OneIdentity ==
    [][\A c \in Conns :
          conn[c].bound /\ conn'[c].pc \notin {"none", "closed"}
             => Identity(c)' = Identity(c)]_vars

RightNow(name, pw) ==
    \E u \in users : u.name = name /\ u.pw = pw /\ ~u.disabled

(* A bind as a lower-case name is accepted or rejected as the directory    *)
(* has it, although it is decided on a row read earlier, unless a change   *)
(* came in between.                                                        *)
BindVerdictRight ==
    \A c \in Conns : \A a \in conn[c].asked :
        ~conn[c].moved /\ Lower[a[1]] = a[1] =>
            /\ conn[c].result = "success" => RightNow(a[1], a[2])
            /\ conn[c].result \in {"invalid_credentials", "user_disabled"}
                  => ~RightNow(a[1], a[2])

IsAdmin(uid) == RolesOf(uid) \cap AdminGroups # {}

WithinRole(uid, name, e) ==
    IsAdmin(uid) \/ (e.users \subseteq {name} /\ e.groups \subseteq RolesOf(uid))

(* A connection is sent entries only if it is bound as a user, and other   *)
(* users' entries only if that user is a full-directory reader now, unless *)
(* the account or its groups changed after the bind read them.             *)
RevealedWithinRole ==
    \A c \in Conns : conn[c].result = "entries" =>
        /\ conn[c].bound /\ ~conn[c].anonymous
        /\ \A u \in conn[c].user :
              ~conn[c].stale => WithinRole(u.id, u.name, conn[c].entries)

Memberships ==
    {<<p[1].name, p[2].name>> : p \in
        {q \in users \X groups : <<q[1].id, q[2].id>> \in members}}

(* The entries a user has a right to.                                      *)
Due(uid) ==
    LET us == {u.name : u \in {v \in users : IsAdmin(uid) \/ v.id = uid}}
        gs == IF IsAdmin(uid) THEN Names(groups) ELSE RolesOf(uid)
    IN [users |-> us, groups |-> gs,
        memberOf |-> {m \in Memberships : m[1] \in us},
        member |-> {m \in Memberships : m[2] \in gs}]

(* An answer put together from many statements is the directory itself, no *)
(* entry missing and both sides of every membership in agreement, unless a *)
(* change came in between.                                                 *)
AnswerIsTheDirectory ==
    \A c \in Conns : \A u \in conn[c].user :
        conn[c].result = "entries" /\ ~conn[c].moved /\ ~conn[c].stale
            => conn[c].entries = Due(u.id)

(* Silent clients, and clients that do not read, cannot keep the server    *)
(* full: tokens come back again and again unless some connection goes on   *)
(* sending requests for ever.                                              *)
SlotsComeBack ==
    \/ []<>(tokens < MaxConns)
    \/ \E c \in Conns : []<><<Request(c)>>_vars

=============================================================================
