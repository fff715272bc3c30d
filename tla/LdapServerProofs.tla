-------------------------- MODULE LdapServerProofs --------------------------
(***************************************************************************)
(* Proofs about the connections of the LDAP server, for any number of      *)
(* them, any directory and any limits: tokens are never lost, and what a   *)
(* bind made of a connection lasts as long as the connection.  Second,     *)
(* about what they are told: verdicts and answers, put together from many  *)
(* statements, are the directory's.                                        *)
(*                                                                         *)
(* Two conditions are wanted of each connection besides: one that is bound *)
(* has had a successful bind, and one whose password is being looked up    *)
(* has not.  handleBind decides on the latter alone.                       *)
(***************************************************************************)
EXTENDS LdapServer, FiniteSetTheorems, TLAPS

Fields == {"pc", "bound", "anonymous", "hadSuccessfulBind", "user", "roles"}
Shaped(k) == Fields \subseteq DOMAIN k

Settled(k) ==
    /\ k.bound \in BOOLEAN /\ k.hadSuccessfulBind \in BOOLEAN
    /\ k.bound => k.hadSuccessfulBind
    /\ k.pc = "none" => ~k.bound
    /\ k.pc \in {"bindRow", "bindGroups"} => ~k.hadSuccessfulBind

SameIdentity(j, k) ==
    j.bound = k.bound /\ j.anonymous = k.anonymous /\ j.user = k.user /\ j.roles = k.roles

(* Connections that hold a token.                                          *)
Holders == {c \in Conns : ~At(c, "none")}

Pool ==
    /\ IsFiniteSet(Holders)
    /\ tokens = Cardinality(Holders) /\ tokens <= MaxConns

Sound == DOMAIN conn = Conns /\ \A c \in Conns : Shaped(conn[c]) /\ Settled(conn[c])

Inv == Pool /\ Sound

(* What every step of a connection that keeps its token does.              *)
Becomes(j, k) ==
    /\ j.pc # "none"
    /\ Shaped(j) /\ Settled(j)
    /\ k.bound /\ j.pc # "closed" => SameIdentity(j, k)

Move(c) ==
    /\ conn[c].pc # "none"
    /\ DOMAIN conn' = Conns /\ tokens' = tokens
    /\ \A d \in Conns \ {c} : conn'[d] = conn[d]
    /\ Becomes(conn'[c], conn[c])

-----------------------------------------------------------------------------
LEMMA Moved ==
    ASSUME NEW c \in Conns, Sound, NEW k, conn' = [conn EXCEPT ![c] = k],
           tokens' = tokens, conn[c].pc # "none", Becomes(k, conn[c])
    PROVE  Move(c)
  BY DEF Sound, Move

(* Dropping what a request has read leaves the connection what it is.      *)
LEMMA AnsweredShape ==
    ASSUME NEW k, NEW r, Shaped(k)
    PROVE  /\ Shaped(Answered(k, r)) /\ Answered(k, r).pc = "reply"
           /\ SameIdentity(Answered(k, r), k)
           /\ Answered(k, r).hadSuccessfulBind = k.hadSuccessfulBind
  BY SMT DEF Answered, Shaped, SameIdentity, Fields

LEMMA BegunShape ==
    ASSUME NEW c, Shaped(conn[c])
    PROVE  /\ Shaped(Begun(c)) /\ SameIdentity(Begun(c), conn[c])
           /\ Begun(c).hadSuccessfulBind = conn[c].hadSuccessfulBind
  BY SMT DEF Begun, Shaped, SameIdentity, Fields

LEMMA AnsweredBecomes ==
    ASSUME NEW k, NEW r, Shaped(k), Settled(k)
    PROVE  Becomes(Answered(k, r), k)
  BY AnsweredShape DEF Becomes, Settled, SameIdentity

LEMMA BegunAnsweredBecomes ==
    ASSUME NEW c \in Conns, NEW r, Sound
    PROVE  Becomes(Answered(Begun(c), r), conn[c])
  <1>1. Shaped(conn[c]) /\ Settled(conn[c])
    BY DEF Sound
  <1>2. /\ Shaped(Begun(c)) /\ SameIdentity(Begun(c), conn[c])
        /\ Begun(c).hadSuccessfulBind = conn[c].hadSuccessfulBind
    BY <1>1, BegunShape
  <1> QED BY <1>1, <1>2, AnsweredShape DEF Becomes, Settled, SameIdentity

LEMMA ClosedBecomes ==
    ASSUME NEW k
    PROVE  Becomes([NoConn EXCEPT !.pc = "closed"], k)
  BY SMT DEF NoConn, Fresh, Becomes, Shaped, Settled, Fields

-----------------------------------------------------------------------------
(* The connection's life.                                                  *)
LEMMA ReplyMoves == ASSUME NEW c \in Conns, Inv, Reply(c) PROVE Move(c)
  <1>1. Becomes([conn[c] EXCEPT !.pc = "read"], conn[c])
    BY SMT DEF Inv, Sound, Becomes, Shaped, Settled, SameIdentity, Fields
  <1>2. conn' = [conn EXCEPT ![c] = [conn[c] EXCEPT !.pc = "read"]]
    BY DEF Reply
  <1> QED BY <1>1, <1>2, Moved DEF Reply, At, Inv

LEMMA ClosingMoves ==
    ASSUME NEW c \in Conns, Inv, CloseAfterReply(c) \/ Timeout(c) \/ UnbindOrHangUp(c)
    PROVE  Move(c)
  BY ClosedBecomes, Moved
  DEF CloseAfterReply, Timeout, UnbindOrHangUp, DeadlinePasses, Closed, At, Inv

(* Requests that are answered at once and change nothing.                  *)
LEMMA AnsweringMoves ==
    ASSUME NEW c \in Conns, Inv,
           BindAgain(c) \/ BindRefused(c) \/ SearchRefused(c) \/ OtherRequest(c)
    PROVE  Move(c)
  BY BegunAnsweredBecomes, Moved
  DEF BindAgain, BindRefused, SearchRefused, OtherRequest, At, Inv

LEMMA BindLetThroughMoves == ASSUME NEW c \in Conns, Inv, BindLetThrough(c) PROVE Move(c)
  <1>1. /\ Shaped(conn[c]) /\ Settled(conn[c]) /\ ~conn[c].bound
        /\ ~conn[c].hadSuccessfulBind /\ Sound
    BY DEF Inv, Sound, Settled, BindLetThrough, BoundAlready
  <1>2. /\ Shaped(Begun(c)) /\ SameIdentity(Begun(c), conn[c])
        /\ Begun(c).hadSuccessfulBind = conn[c].hadSuccessfulBind
    BY <1>1, BegunShape
  <1>3. conn[c].pc # "none" /\ tokens' = tokens
    BY DEF BindLetThrough, At
  <1>4. ASSUME NEW r, conn' = [conn EXCEPT ![c] = Answered(Begun(c), r)] PROVE Move(c)
    BY <1>1, <1>3, <1>4, BegunAnsweredBecomes, Moved
  <1>5. CASE conn' = [conn EXCEPT ![c] =
                [Answered(Begun(c), "anonymous") EXCEPT
                   !.bound = TRUE, !.anonymous = TRUE, !.hadSuccessfulBind = TRUE]]
    <2> DEFINE a == Answered(Begun(c), "anonymous")
               k == [a EXCEPT !.bound = TRUE, !.anonymous = TRUE, !.hadSuccessfulBind = TRUE]
    <2>1. Shaped(a) /\ a.pc = "reply"
      BY <1>2, AnsweredShape
    <2> HIDE DEF a
    <2>2. Becomes(k, conn[c])
      BY <1>1, <2>1, SMT DEF Becomes, Shaped, Settled, Fields
    <2>3. conn' = [conn EXCEPT ![c] = k]
      BY <1>5 DEF a
    <2> QED BY <1>1, <1>3, <2>2, <2>3, Moved
  <1>6. ASSUME NEW name \in UserNames, NEW pw \in Passwords,
               conn' = [conn EXCEPT ![c] = [Begun(c) EXCEPT
                  !.pc = "bindRow", !.asked = {<<name, pw>>}, !.stale = FALSE]]
        PROVE  Move(c)
    <2> DEFINE b == Begun(c)
               k == [b EXCEPT !.pc = "bindRow", !.asked = {<<name, pw>>}, !.stale = FALSE]
    <2>1. Shaped(b) /\ ~b.hadSuccessfulBind /\ ~b.bound /\ b.bound \in BOOLEAN
          /\ b.hadSuccessfulBind \in BOOLEAN
      BY <1>1, <1>2 DEF SameIdentity, Settled
    <2> HIDE DEF b
    <2>2. Becomes(k, conn[c])
      BY <1>1, <2>1, SMT DEF Becomes, Shaped, Settled, Fields
    <2>3. conn' = [conn EXCEPT ![c] = k]
      BY <1>6 DEF b
    <2> QED BY <1>1, <1>3, <2>2, <2>3, Moved
  <1> QED BY <1>4, <1>5, <1>6 DEF BindLetThrough

LEMMA BindRowMoves == ASSUME NEW c \in Conns, Inv, BindRow(c) PROVE Move(c)
  <1>1. Shaped(conn[c]) /\ Settled(conn[c]) /\ Sound
    BY DEF Inv, Sound
  <1>2. conn[c].pc = "bindRow" /\ tokens' = tokens
    BY DEF BindRow, At
  <1>3. PICK found : conn' = [conn EXCEPT ![c] =
           IF found = {} THEN Answered(conn[c], "invalid_credentials")
                         ELSE [conn[c] EXCEPT !.pc = "bindGroups", !.row = found]]
    BY DEF BindRow
  <1>4. Becomes(Answered(conn[c], "invalid_credentials"), conn[c])
    BY <1>1, AnsweredBecomes
  <1>5. Becomes([conn[c] EXCEPT !.pc = "bindGroups", !.row = found], conn[c])
    BY <1>1, <1>2, SMT DEF Becomes, Shaped, Settled, SameIdentity, Fields
  <1> QED BY <1>1, <1>2, <1>3, <1>4, <1>5, Moved

LEMMA BindGroupsMoves == ASSUME NEW c \in Conns, Inv, BindGroups(c) PROVE Move(c)
  <1>1. /\ Shaped(conn[c]) /\ Settled(conn[c]) /\ Sound
        /\ ~conn[c].bound
    BY DEF Inv, Sound, Settled, BindGroups, At
  <1>2. conn[c].pc # "none" /\ tokens' = tokens
    BY DEF BindGroups, At
  <1> DEFINE a == Answered(conn[c], "success")
             k == [a EXCEPT !.user = conn[c].row,
                            !.roles = UNION {RolesOf(u.id) : u \in conn[c].row},
                            !.bound = TRUE, !.anonymous = FALSE,
                            !.hadSuccessfulBind = TRUE]
  <1>3. \/ \E r : conn' = [conn EXCEPT ![c] = Answered(conn[c], r)]
        \/ conn' = [conn EXCEPT ![c] = k]
    BY DEF BindGroups
  <1>4. \A r : Becomes(Answered(conn[c], r), conn[c])
    BY <1>1, AnsweredBecomes
  <1>5. Shaped(a) /\ a.pc = "reply"
    BY <1>1, AnsweredShape
  <1>6. Becomes(k, conn[c])
    <2> HIDE DEF a
    <2> QED BY <1>1, <1>5, SMT DEF Becomes, Shaped, Settled, Fields
  <1> HIDE DEF k
  <1> QED BY <1>1, <1>2, <1>3, <1>4, <1>6, Moved

-----------------------------------------------------------------------------
(* Searches: no step of theirs touches more than the answer.               *)
LEMMA SearchLetThroughMoves == ASSUME NEW c \in Conns, Inv, SearchLetThrough(c) PROVE Move(c)
  <1>1. Shaped(conn[c]) /\ Settled(conn[c]) /\ Sound
    BY DEF Inv, Sound
  <1>2. conn[c].pc # "none" /\ tokens' = tokens
    BY DEF SearchLetThrough, At
  <1> DEFINE b == Begun(c)
             k == [b EXCEPT !.pc = "users"]
  <1>3. \/ \E r : conn' = [conn EXCEPT ![c] = Answered(b, r)]
        \/ conn' = [conn EXCEPT ![c] = k]
    BY DEF SearchLetThrough
  <1>4. \A r : Becomes(Answered(b, r), conn[c])
    BY <1>1, BegunAnsweredBecomes
  <1>5. Becomes(k, conn[c])
    <2>1. /\ Shaped(b) /\ SameIdentity(b, conn[c])
          /\ b.hadSuccessfulBind = conn[c].hadSuccessfulBind
      BY <1>1, BegunShape
    <2> HIDE DEF b
    <2> QED BY <1>1, <2>1, SMT DEF Becomes, Shaped, Settled, SameIdentity, Fields
  <1> HIDE DEF b, k
  <1> QED BY <1>1, <1>2, <1>3, <1>4, <1>5, Moved

LEMMA ListedBecomes ==
    ASSUME NEW c, NEW k, Shaped(k), Settled(k)
    PROVE  Becomes(Listed(c, k), k)
  <1>1. Becomes([k EXCEPT !.pc = "groupMembers"], k)
    BY SMT DEF Becomes, Shaped, Settled, SameIdentity, Fields
  <1>2. \A e : Becomes([Answered(k, "entries") EXCEPT !.entries = e], k)
    <2> TAKE e
    <2> DEFINE a == Answered(k, "entries")
    <2>1. /\ Shaped(a) /\ a.pc = "reply" /\ SameIdentity(a, k)
          /\ a.hadSuccessfulBind = k.hadSuccessfulBind
      BY AnsweredShape
    <2> HIDE DEF a
    <2> DEFINE j == [a EXCEPT !.entries = e]
    <2>2. /\ Shaped(j) /\ j.pc = "reply" /\ SameIdentity(j, a)
          /\ j.hadSuccessfulBind = a.hadSuccessfulBind
      BY <2>1, SMT DEF Shaped, SameIdentity, Fields
    <2>3. Becomes(j, k)
      <3> HIDE DEF j
      <3> QED BY <2>1, <2>2 DEF Becomes, Settled, SameIdentity
    <2> QED BY <2>3 DEF a
  <1> QED BY <1>1, <1>2 DEF Listed

(* Changes to what a listing has gathered.                                 *)
LEMMA GatheredShape ==
    ASSUME NEW k, NEW j, Shaped(k), Settled(k), Shaped(j), j.pc = k.pc,
           SameIdentity(j, k), j.hadSuccessfulBind = k.hadSuccessfulBind
    PROVE  Settled(j) /\ \A l : Becomes(l, j) => Becomes(l, k)
  BY DEF Settled, SameIdentity, Becomes

LEMMA ListingMoves ==
    ASSUME NEW c \in Conns, Inv,
           ListUsers(c) \/ UserGroups(c) \/ ListGroups(c) \/ GroupMembers(c)
    PROVE  Move(c)
  <1>1. Shaped(conn[c]) /\ Settled(conn[c]) /\ Sound
    BY DEF Inv, Sound
  <1>2. conn[c].pc # "none" /\ tokens' = tokens
    BY DEF ListUsers, UserGroups, ListGroups, GroupMembers, At
  <1>3. CASE ListUsers(c)
    <2> DEFINE k == [conn[c] EXCEPT
                       !.pc = IF users = {} THEN "groups" ELSE "userGroups",
                       !.entries.users = Names(users), !.todo = Rows(users)]
    <2>1. Becomes(k, conn[c])
      BY <1>1, SMT DEF Becomes, Shaped, Settled, SameIdentity, Fields
    <2>2. conn' = [conn EXCEPT ![c] = k]
      BY <1>3 DEF ListUsers
    <2> HIDE DEF k
    <2> QED BY <1>1, <1>2, <2>1, <2>2, Moved
  <1>4. CASE UserGroups(c)
    <2>1. PICK x \in conn[c].todo : conn' = [conn EXCEPT ![c] = [conn[c] EXCEPT
             !.pc = IF conn[c].todo = {x} THEN "groups" ELSE "userGroups",
             !.entries.memberOf = @ \cup ({x.name} \X RolesOf(x.id)),
             !.todo = @ \ {x}]]
      BY <1>4 DEF UserGroups
    <2> DEFINE k == [conn[c] EXCEPT
             !.pc = IF conn[c].todo = {x} THEN "groups" ELSE "userGroups",
             !.entries.memberOf = @ \cup ({x.name} \X RolesOf(x.id)),
             !.todo = @ \ {x}]
    <2>2. Becomes(k, conn[c])
      BY <1>1, SMT DEF Becomes, Shaped, Settled, SameIdentity, Fields
    <2>3. conn' = [conn EXCEPT ![c] = k]
      BY <2>1
    <2> HIDE DEF k
    <2> QED BY <1>1, <1>2, <2>2, <2>3, Moved
  <1>5. CASE ListGroups(c)
    <2> DEFINE j == [conn[c] EXCEPT !.entries.groups = Names(groups), !.todo = Rows(groups)]
    <2>1. /\ Shaped(j) /\ j.pc = conn[c].pc /\ SameIdentity(j, conn[c])
          /\ j.hadSuccessfulBind = conn[c].hadSuccessfulBind
      BY <1>1, SMT DEF Shaped, SameIdentity, Fields
    <2>2. conn' = [conn EXCEPT ![c] = Listed(c, j)]
      BY <1>5 DEF ListGroups
    <2> HIDE DEF j
    <2>3. Becomes(Listed(c, j), conn[c])
      BY <1>1, <2>1, GatheredShape, ListedBecomes
    <2> QED BY <1>1, <1>2, <2>2, <2>3, Moved
  <1>6. CASE GroupMembers(c)
    <2>1. PICK x \in conn[c].todo : conn' = [conn EXCEPT ![c] = Listed(c, [conn[c] EXCEPT
             !.entries.member = @ \cup (MembersOf(x.id) \X {x.name}),
             !.todo = @ \ {x}])]
      BY <1>6 DEF GroupMembers
    <2> DEFINE j == [conn[c] EXCEPT
             !.entries.member = @ \cup (MembersOf(x.id) \X {x.name}),
             !.todo = @ \ {x}]
    <2>2. /\ Shaped(j) /\ j.pc = conn[c].pc /\ SameIdentity(j, conn[c])
          /\ j.hadSuccessfulBind = conn[c].hadSuccessfulBind
      BY <1>1, SMT DEF Shaped, SameIdentity, Fields
    <2>3. conn' = [conn EXCEPT ![c] = Listed(c, j)]
      BY <2>1
    <2> HIDE DEF j
    <2>4. Becomes(Listed(c, j), conn[c])
      BY <1>1, <2>2, GatheredShape, ListedBecomes
    <2> QED BY <1>1, <1>2, <2>3, <2>4, Moved
  <1> QED BY <1>3, <1>4, <1>5, <1>6

-----------------------------------------------------------------------------
(* What a step has to keep, and the identity it must not touch.            *)
Keeps == Inv' /\ \A c \in Conns :
            conn[c].bound /\ conn'[c].pc \notin {"none", "closed"}
               => Identity(c)' = Identity(c)

LEMMA FreshShape ==
    /\ Shaped(Fresh) /\ Settled(Fresh) /\ Fresh.pc = "read" /\ ~Fresh.bound
    /\ Shaped(NoConn) /\ Settled(NoConn) /\ NoConn.pc = "none"
  BY SMT DEF Fresh, NoConn, Shaped, Settled, Fields

LEMMA IdentityOf ==
    ASSUME NEW c, SameIdentity(conn'[c], conn[c])
    PROVE  Identity(c)' = Identity(c)
  BY DEF SameIdentity, Identity

LEMMA MoveKeeps == ASSUME NEW c \in Conns, Inv, Move(c) PROVE Keeps
  <1>1. Sound'
    BY DEF Inv, Sound, Move, Becomes
  <1>2. Holders' = Holders
    BY DEF Holders, At, Move, Becomes
  <1>3. Pool'
    BY <1>2 DEF Inv, Pool, Move
  <1>4. ASSUME NEW d \in Conns, conn[d].bound, conn'[d].pc \notin {"none", "closed"}
        PROVE  SameIdentity(conn'[d], conn[d])
    BY <1>4 DEF Move, Becomes, SameIdentity
  <1> QED BY <1>1, <1>3, <1>4, IdentityOf DEF Keeps, Inv

LEMMA AcceptKeeps == ASSUME NEW c \in Conns, Inv, Accept(c) PROVE Keeps
  <1>1. /\ DOMAIN conn' = Conns /\ conn'[c] = Fresh
        /\ \A d \in Conns \ {c} : conn'[d] = conn[d]
    BY DEF Accept, Inv, Sound
  <1>2. Sound'
    BY <1>1, FreshShape DEF Inv, Sound
  <1>3. Holders' = Holders \cup {c} /\ c \notin Holders
    BY <1>1, FreshShape DEF Holders, At, Accept
  <1>4. /\ IsFiniteSet(Holders') /\ Cardinality(Holders) \in Nat
        /\ Cardinality(Holders') = Cardinality(Holders) + 1
    BY <1>3, FS_AddElement, FS_CardinalityType DEF Inv, Pool
  <1>5. Pool'
    BY <1>4, LdapAssumption DEF Inv, Pool, Accept
  <1>6. ASSUME NEW d \in Conns, conn[d].bound, conn'[d].pc \notin {"none", "closed"}
        PROVE  SameIdentity(conn'[d], conn[d])
    <2>1. CASE d = c
      BY <1>6, <2>1 DEF Accept, At, Inv, Sound, Settled
    <2>2. CASE d # c
      BY <1>1, <2>2 DEF SameIdentity
    <2> QED BY <2>1, <2>2
  <1> QED BY <1>2, <1>5, <1>6, IdentityOf DEF Keeps, Inv

LEMMA ReleaseKeeps == ASSUME NEW c \in Conns, Inv, Release(c) PROVE Keeps
  <1>1. /\ DOMAIN conn' = Conns /\ conn'[c] = NoConn
        /\ \A d \in Conns \ {c} : conn'[d] = conn[d]
    BY DEF Release, Forgotten, Inv, Sound
  <1>2. Sound'
    BY <1>1, FreshShape DEF Inv, Sound
  <1>3. Holders' = Holders \ {c} /\ c \in Holders
    BY <1>1, FreshShape DEF Holders, At, Release
  <1>4. /\ IsFiniteSet(Holders') /\ Cardinality(Holders) \in Nat
        /\ Cardinality(Holders') = Cardinality(Holders) - 1
    BY <1>3, FS_RemoveElement, FS_CardinalityType DEF Inv, Pool
  <1>5. Pool'
    BY <1>4, LdapAssumption DEF Inv, Pool, Release, TokensLeft
  <1>6. ASSUME NEW d \in Conns, conn[d].bound, conn'[d].pc \notin {"none", "closed"}
        PROVE  SameIdentity(conn'[d], conn[d])
    BY <1>1, <1>6, FreshShape DEF SameIdentity
  <1> QED BY <1>2, <1>5, <1>6, IdentityOf DEF Keeps, Inv

(* Nothing the administrators do reaches into a connection.                *)
LEMMA ChangedKeeps == ASSUME NEW ids, Inv, Changed(ids) PROVE Keeps
  <1> DEFINE k(c) == [conn[c] EXCEPT
             !.moved = TRUE,
             !.stale = @ \/ \E u \in conn[c].user \cup conn[c].row : u.id \in ids]
  <1>1. /\ DOMAIN conn' = Conns /\ tokens' = tokens
        /\ \A c \in Conns : conn'[c] = IF conn[c].pc \in {"none", "closed"} THEN conn[c]
                                        ELSE k(c)
    BY DEF Changed
  <1>2. ASSUME NEW c \in Conns
        PROVE  /\ Shaped(k(c)) /\ k(c).pc = conn[c].pc
               /\ SameIdentity(k(c), conn[c])
               /\ k(c).hadSuccessfulBind = conn[c].hadSuccessfulBind
    <2>1. Shaped(conn[c])
      BY DEF Inv, Sound
    <2> QED BY <2>1, SMT DEF Shaped, SameIdentity, Fields
  <1> HIDE DEF k
  <1>3. \A c \in Conns :
           /\ Shaped(conn'[c]) /\ conn'[c].pc = conn[c].pc
           /\ SameIdentity(conn'[c], conn[c])
           /\ conn'[c].hadSuccessfulBind = conn[c].hadSuccessfulBind
    BY <1>1, <1>2 DEF Inv, Sound, SameIdentity
  <1>4. Sound'
    BY <1>1, <1>3 DEF Inv, Sound, Settled, SameIdentity
  <1>5. Holders' = Holders
    BY <1>3 DEF Holders, At
  <1>6. Pool'
    BY <1>1, <1>5 DEF Inv, Pool
  <1> QED BY <1>3, <1>4, <1>6, IdentityOf DEF Keeps, Inv

LEMMA UnchangedKeeps == Inv /\ UNCHANGED <<conn, tokens>> => Keeps
  BY DEF Inv, Pool, Sound, Holders, At, Keeps, Identity

-----------------------------------------------------------------------------
LEMMA InitInv == Init => Inv
  <1> SUFFICES ASSUME Init PROVE Inv
    OBVIOUS
  <1>1. Sound
    BY FreshShape DEF Init, Sound
  <1>2. Holders = {}
    BY FreshShape DEF Init, Holders, At
  <1>3. Pool
    BY <1>2, FS_EmptySet, LdapAssumption DEF Init, Pool
  <1> QED BY <1>1, <1>3 DEF Inv

LEMMA StepKeeps == Inv /\ [Next]_vars => Keeps
  <1> SUFFICES ASSUME Inv, [Next]_vars PROVE Keeps
    OBVIOUS
  <1>1. ASSUME NEW c \in Conns, Accept(c) PROVE Keeps
    BY <1>1, AcceptKeeps
  <1>2. ASSUME NEW c \in Conns, Request(c) PROVE Keeps
    BY <1>2, AnsweringMoves, BindLetThroughMoves, SearchLetThroughMoves, MoveKeeps
    DEF Request
  <1>3. ASSUME NEW c \in Conns, Release(c) PROVE Keeps
    BY <1>3, ReleaseKeeps
  <1>4. ASSUME NEW c \in Conns, UnbindOrHangUp(c) \/ Handle(c) PROVE Keeps
    BY <1>3, <1>4, ReplyMoves, ClosingMoves, BindRowMoves, BindGroupsMoves,
       ListingMoves, MoveKeeps DEF Handle
  <1>5. CASE ChangeUser
    BY <1>5, ChangedKeeps DEF ChangeUser
  <1>6. CASE ChangeGroup
    BY <1>6, ChangedKeeps DEF ChangeGroup
  <1>7. CASE BindsAge \/ SearchesAge \/ UNCHANGED vars
    BY <1>7, UnchangedKeeps DEF BindsAge, SearchesAge, vars
  <1> QED BY <1>1, <1>2, <1>4, <1>5, <1>6, <1>7 DEF Next

LEMMA Invariance == Spec => []Inv
  <1>1. Init => Inv
    BY InitInv
  <1>2. Inv /\ [Next]_vars => Inv'
    BY StepKeeps DEF Keeps
  <1> QED BY <1>1, <1>2, PTL DEF Spec

(* connTokens: Serve takes one per connection, handleConn's deferred       *)
(* function gives it back once, and the channel's capacity is the cap.     *)
THEOREM TokensAreCounted == Spec => []TokensCounted
  <1>1. Inv => TokensCounted
    BY DEF Inv, Pool, Holders, TokensCounted
  <1> QED BY <1>1, Invariance, PTL

(* handleBind: of all binds on a connection one at most changes what the   *)
(* connection is, and no search, failed bind or change of the directory    *)
(* does.                                                                   *)
THEOREM IdentityLasts == Spec => OneIdentity
  <1>1. Inv /\ [Next]_vars
        => [\A c \in Conns :
              conn[c].bound /\ conn'[c].pc \notin {"none", "closed"}
                 => Identity(c)' = Identity(c)]_vars
    BY StepKeeps DEF Keeps
  <1> QED BY <1>1, Invariance, PTL DEF Spec, OneIdentity

-----------------------------------------------------------------------------
(* The second half: what connections are told is what the directory holds. *)
(* Ids and names identify accounts, and no group that is still to come has *)
(* members already.                                                        *)
DirSound ==
    /\ \A u, v \in users : u.id = v.id \/ u.name = v.name => u = v
    /\ \A u \in users : u.id \in usedUids
    /\ \A g \in groups : g.id \in usedGids
    /\ \A m \in members : m[2] \in usedGids

(* A change that affects the accounts ids leaves others and their groups.  *)
Spares(ids) ==
    /\ \A u \in users : u.id \notin ids => u \in users'
    /\ \A uid : uid \notin ids => RolesOf(uid)' = RolesOf(uid)

LEMMA CreateUserSpares ==
    ASSUME DirSound, NEW u, NEW gids \in SUBSET LiveGroupIds, CreateUser(u, gids)
    PROVE  DirSound' /\ Spares({u.id})
  <1>1. DirSound'
    BY DEF CreateUser, DirSound, LiveGroupIds
  <1>2. \A uid : uid # u.id => \A gid : <<uid, gid>> \in members' <=> <<uid, gid>> \in members
    BY DEF CreateUser
  <1>3. \A uid : uid \notin {u.id} => RolesOf(uid)' = RolesOf(uid)
    BY <1>2 DEF CreateUser, RolesOf
  <1>4. \A v \in users : v \in users'
    BY DEF CreateUser
  <1> QED BY <1>1, <1>3, <1>4 DEF Spares

LEMMA UpdateUserSpares ==
    ASSUME DirSound, NEW old, NEW u, NEW gids \in SUBSET LiveGroupIds,
           UpdateUser(old, u, gids)
    PROVE  DirSound' /\ Spares({old.id})
  <1>1. DirSound'
    <2>1. \A v, w \in users' : v.id = w.id \/ v.name = w.name => v = w
      BY DEF UpdateUser, DirSound
    <2>2. \A v \in users' : v.id \in usedUids'
      BY DEF UpdateUser, DirSound
    <2>3. \A m \in members' : m[2] \in usedGids'
      BY DEF UpdateUser, DirSound, LiveGroupIds
    <2>4. \A g \in groups' : g.id \in usedGids'
      BY DEF UpdateUser, DirSound
    <2> QED BY <2>1, <2>2, <2>3, <2>4 DEF DirSound
  <1>2. \A uid : uid # old.id => \A gid : <<uid, gid>> \in members' <=> <<uid, gid>> \in members
    BY DEF UpdateUser
  <1>3. \A uid : uid \notin {old.id} => RolesOf(uid)' = RolesOf(uid)
    BY <1>2 DEF UpdateUser, RolesOf
  <1>4. \A v \in users : v.id \notin {old.id} => v \in users'
    BY DEF UpdateUser
  <1> QED BY <1>1, <1>3, <1>4 DEF Spares

LEMMA DeleteUserSpares ==
    ASSUME DirSound, NEW id, DeleteUser(id)
    PROVE  DirSound' /\ Spares({id})
  <1>1. DirSound'
    BY DEF DeleteUser, DirSound
  <1>2. \A uid : uid # id => \A gid : <<uid, gid>> \in members' <=> <<uid, gid>> \in members
    BY DEF DeleteUser
  <1>3. \A uid : uid \notin {id} => RolesOf(uid)' = RolesOf(uid)
    BY <1>2 DEF DeleteUser, RolesOf
  <1>4. \A v \in users : v.id \notin {id} => v \in users'
    BY DEF DeleteUser
  <1> QED BY <1>1, <1>3, <1>4 DEF Spares

LEMMA CreateGroupSpares ==
    ASSUME DirSound, NEW g, CreateGroup(g)
    PROVE  DirSound' /\ Spares({})
  <1>1. DirSound'
    BY DEF CreateGroup, DirSound
  <1>2. \A uid : <<uid, g.id>> \notin members
    BY DEF CreateGroup, DirSound
  <1>3. \A uid : RolesOf(uid)' = RolesOf(uid)
    BY <1>2 DEF CreateGroup, RolesOf
  <1>4. \A v \in users : v \in users'
    BY DEF CreateGroup
  <1> QED BY <1>1, <1>3, <1>4 DEF Spares

LEMMA RenameGroupSpares ==
    ASSUME DirSound, NEW old, NEW g, RenameGroup(old, g)
    PROVE  DirSound' /\ Spares(IdsIn(old.id))
  <1>1. DirSound'
    BY DEF RenameGroup, DirSound
  <1>2. \A uid : uid \notin IdsIn(old.id) => <<uid, old.id>> \notin members
    BY DEF IdsIn
  <1>3. \A uid : uid \notin IdsIn(old.id) => RolesOf(uid)' = RolesOf(uid)
    BY <1>2 DEF RenameGroup, RolesOf
  <1>4. \A v \in users : v \in users'
    BY DEF RenameGroup
  <1> QED BY <1>1, <1>3, <1>4 DEF Spares

LEMMA DeleteGroupSpares ==
    ASSUME DirSound, NEW id, DeleteGroup(id)
    PROVE  DirSound' /\ Spares(IdsIn(id))
  <1>1. DirSound'
    BY DEF DeleteGroup, DirSound
  <1>2. \A uid : uid \notin IdsIn(id) =>
            /\ <<uid, id>> \notin members
            /\ \A gid : <<uid, gid>> \in members' <=> <<uid, gid>> \in members
    BY DEF DeleteGroup, IdsIn
  <1>3. \A uid : uid \notin IdsIn(id) => RolesOf(uid)' = RolesOf(uid)
    BY <1>2 DEF DeleteGroup, RolesOf
  <1>4. \A v \in users : v \in users'
    BY DEF DeleteGroup
  <1> QED BY <1>1, <1>3, <1>4 DEF Spares

LEMMA ChangeSpares ==
    ASSUME DirSound, ChangeUser \/ ChangeGroup
    PROVE  DirSound' /\ \E ids : Changed(ids) /\ Spares(ids)
  <1>1. CASE ChangeUser
    BY <1>1, CreateUserSpares, UpdateUserSpares, DeleteUserSpares DEF ChangeUser
  <1>2. CASE ChangeGroup
    BY <1>2, CreateGroupSpares, RenameGroupSpares, DeleteGroupSpares DEF ChangeGroup
  <1> QED BY <1>1, <1>2

-----------------------------------------------------------------------------
(* What a connection knows, compared with the directory.                   *)
AllFields == {"pc", "bound", "anonymous", "hadSuccessfulBind", "user", "roles",
              "asked", "row", "entries", "todo", "result", "stale", "moved"}
Whole(k) ==
    /\ DOMAIN k = AllFields
    /\ DOMAIN k.entries = {"users", "groups", "memberOf", "member"}

Looking(k) == k.pc \in {"bindRow", "bindGroups"}
Listing(k) == k.pc \in {"users", "userGroups", "groups", "groupMembers"}

Standing(k) ==
    /\ {k.bound, k.anonymous, k.hadSuccessfulBind, k.stale, k.moved} \subseteq BOOLEAN
    /\ k.pc \in {"none", "closed"} => k.user = {} /\ k.asked = {} /\ k.result = "none"
    /\ k.bound => k.hadSuccessfulBind
    /\ ~k.hadSuccessfulBind => k.user = {}
    /\ Looking(k) => ~k.hadSuccessfulBind
    /\ Looking(k) \/ Listing(k) => k.result = "none"
    /\ k.result = "entries" \/ Listing(k) => k.bound /\ ~k.anonymous
    /\ \A u, v \in k.user : u = v

(* A bind, from the row to the verdict.                                    *)
Found(k) == {u \in users : \E a \in k.asked : u.name = Lower[a[1]]}

Verdict(k) ==
    \A a \in k.asked : Lower[a[1]] = a[1] =>
        /\ k.result = "success" => RightNow(a[1], a[2])
        /\ k.result \in {"invalid_credentials", "user_disabled"} => ~RightNow(a[1], a[2])

Binding(k) ==
    /\ Looking(k) => \E a : k.asked = {a}
    /\ k.pc = "bindGroups" =>
          /\ \A u, v \in k.row : u = v
          /\ ~k.stale => k.row \subseteq users
          /\ ~k.moved => k.row = Found(k)
    /\ ~k.moved => Verdict(k)

(* A search, from the first listing to the answer.                         *)
OfUsers(rows) == UNION {{x.name} \X RolesOf(x.id) : x \in rows}
OfGroups(rows) == UNION {MembersOf(x.id) \X {x.name} : x \in rows}

Gathered(k) ==
    ~k.moved =>
        /\ k.pc = "users" => k.entries = NoEntries
        /\ k.pc \in {"userGroups", "groups", "groupMembers"} => k.entries.users = Names(users)
        /\ k.pc \in {"userGroups", "groups"} => k.entries.member = {}
        /\ k.pc \in {"groups", "groupMembers"} => k.entries.memberOf = Memberships
        /\ k.pc = "userGroups" =>
              /\ k.todo \subseteq Rows(users)
              /\ k.entries.memberOf = OfUsers(Rows(users) \ k.todo)
        /\ k.pc = "groupMembers" =>
              /\ k.todo \subseteq Rows(groups)
              /\ k.entries.groups = Names(groups)
              /\ k.entries.member = OfGroups(Rows(groups) \ k.todo)

RolesKnown(k) == ~k.stale => \A u \in k.user : u \in users /\ k.roles = RolesOf(u.id)

Told(k) ==
    k.result = "entries" /\ ~k.stale => \A u \in k.user :
        /\ WithinRole(u.id, u.name, k.entries)
        /\ ~k.moved => k.entries = Due(u.id)

Good(k) ==
    /\ Whole(k) /\ Standing(k) /\ Binding(k) /\ Gathered(k) /\ RolesKnown(k) /\ Told(k)

Informed == DirSound /\ DOMAIN conn = Conns /\ \A c \in Conns : Good(conn[c])

-----------------------------------------------------------------------------
(* With the directory as it was, a connection is as right as it was.       *)
LEMMA SameDirectory ==
    ASSUME UNCHANGED <<users, groups, members>>
    PROVE  /\ \A uid : RolesOf(uid)' = RolesOf(uid)
           /\ \A gid : MembersOf(gid)' = MembersOf(gid)
           /\ Names(users)' = Names(users) /\ Names(groups)' = Names(groups)
           /\ Rows(users)' = Rows(users) /\ Rows(groups)' = Rows(groups)
           /\ Memberships' = Memberships
           /\ \A n, pw : RightNow(n, pw)' <=> RightNow(n, pw)
           /\ \A uid : IsAdmin(uid)' <=> IsAdmin(uid)
  <1>1. \A uid : RolesOf(uid)' = RolesOf(uid)
    BY DEF RolesOf
  <1>2. \A gid : MembersOf(gid)' = MembersOf(gid)
    BY DEF MembersOf
  <1>3. Names(users)' = Names(users) /\ Names(groups)' = Names(groups)
    BY DEF Names
  <1>4. Rows(users)' = Rows(users) /\ Rows(groups)' = Rows(groups)
    BY DEF Rows
  <1>5. Memberships' = Memberships
    BY DEF Memberships
  <1>6. \A n, pw : RightNow(n, pw)' <=> RightNow(n, pw)
    BY DEF RightNow
  <1>7. \A uid : IsAdmin(uid)' <=> IsAdmin(uid)
    BY <1>1 DEF IsAdmin
  <1> QED BY <1>1, <1>2, <1>3, <1>4, <1>5, <1>6, <1>7

LEMMA SameDue ==
    ASSUME UNCHANGED <<users, groups, members>>
    PROVE  \A uid : Due(uid)' = Due(uid)
  <1> SUFFICES ASSUME NEW uid PROVE Due(uid)' = Due(uid)
    OBVIOUS
  <1>1. IsAdmin(uid)' <=> IsAdmin(uid)
    BY SameDirectory
  <1>2. {u.name : u \in {v \in users : IsAdmin(uid) \/ v.id = uid}}'
        = {u.name : u \in {v \in users : IsAdmin(uid) \/ v.id = uid}}
    BY <1>1
  <1>3. (IF IsAdmin(uid) THEN Names(groups) ELSE RolesOf(uid))'
        = (IF IsAdmin(uid) THEN Names(groups) ELSE RolesOf(uid))
    BY <1>1, SameDirectory
  <1>4. Memberships' = Memberships
    BY SameDirectory
  <1> QED BY <1>2, <1>3, <1>4 DEF Due

LEMMA StaysGood ==
    ASSUME UNCHANGED <<users, groups, members>>, NEW c \in Conns, NEW k,
           conn'[c] = k, Good(k)
    PROVE  Good(conn[c])'
  <1> USE SameDirectory DEF Good
  <1>1. Whole(conn[c])' /\ Standing(conn[c])'
    BY DEF Whole, Standing, Looking, Listing
  <1>2. Binding(conn[c])'
    <2>1. Found(conn[c])' = Found(k)
      BY DEF Found
    <2>2. Verdict(conn[c])' <=> Verdict(k)
      BY DEF Verdict
    <2> QED BY <2>1, <2>2 DEF Binding, Looking
  <1>3. Gathered(conn[c])'
    <2>1. \A rows : OfUsers(rows)' = OfUsers(rows) /\ OfGroups(rows)' = OfGroups(rows)
      BY DEF OfUsers, OfGroups
    <2> QED BY <2>1 DEF Gathered
  <1>4. RolesKnown(conn[c])'
    BY DEF RolesKnown
  <1>5. Told(conn[c])'
    BY SameDue DEF Told, WithinRole
  <1> QED BY <1>1, <1>2, <1>3, <1>4, <1>5

LEMMA OwnStep ==
    ASSUME Informed, UNCHANGED directory, NEW c \in Conns, NEW k,
           conn' = [conn EXCEPT ![c] = k], Good(k)
    PROVE  Informed'
  <1>1. DirSound'
    BY DEF Informed, DirSound, directory
  <1>2. DOMAIN conn' = Conns
    BY DEF Informed
  <1>3. ASSUME NEW d \in Conns PROVE Good(conn[d])'
    <2>1. conn'[d] = k \/ conn'[d] = conn[d]
      BY DEF Informed
    <2>2. Good(conn[d]) /\ UNCHANGED <<users, groups, members>>
      BY DEF Informed, directory
    <2> QED BY <2>1, <2>2, StaysGood
  <1> QED BY <1>1, <1>2, <1>3 DEF Informed

(* A change makes connections it affects stale and all of them moved.      *)
LEMMA ChangedInformed ==
    ASSUME Informed, NEW ids, Changed(ids), Spares(ids), DirSound'
    PROVE  Informed'
  <1>1. ASSUME NEW c \in Conns PROVE Good(conn[c])'
    <2> DEFINE k == conn[c]
    <2> USE DEF Good
    <2>0. Good(k) /\ DOMAIN conn = Conns
      BY DEF Informed
    <2>1. CASE k.pc \in {"none", "closed"}
      <3>1. conn'[c] = k
        BY <2>1 DEF Changed
      <3>2. k.user = {} /\ k.asked = {} /\ k.result = "none" /\ ~Looking(k) /\ ~Listing(k)
        BY <2>0, <2>1 DEF Standing, Looking, Listing
      <3>3. Whole(conn[c])' /\ Standing(conn[c])'
        BY <2>0, <3>1 DEF Whole, Standing, Looking, Listing
      <3>4. Binding(conn[c])' /\ Gathered(conn[c])' /\ RolesKnown(conn[c])' /\ Told(conn[c])'
        BY <2>1, <3>1, <3>2 DEF Binding, Verdict, Gathered, RolesKnown, Told, Looking
      <3> QED BY <3>3, <3>4
    <2>2. CASE k.pc \notin {"none", "closed"}
      <3>1. conn'[c] = [k EXCEPT !.moved = TRUE,
                          !.stale = k.stale \/ \E u \in k.user \cup k.row : u.id \in ids]
        BY <2>2 DEF Changed
      <3> DEFINE j == conn'[c]
      <3>2. /\ DOMAIN j = AllFields /\ j.moved = TRUE
            /\ j.pc = k.pc /\ j.bound = k.bound /\ j.anonymous = k.anonymous
            /\ j.hadSuccessfulBind = k.hadSuccessfulBind /\ j.user = k.user
            /\ j.roles = k.roles /\ j.asked = k.asked /\ j.row = k.row
            /\ j.entries = k.entries /\ j.result = k.result
        BY <2>0, <3>1 DEF Whole, AllFields
      <3>3. /\ j.stale \in BOOLEAN
            /\ ~j.stale => ~k.stale /\ \A u \in k.user \cup k.row : u.id \notin ids
        BY <2>0, <3>1 DEF Whole, AllFields, Standing
      <3> HIDE DEF j
      <3>4. Whole(j)
        BY <2>0, <3>2 DEF Whole
      <3>5. /\ Looking(j) <=> Looking(k)
            /\ Listing(j) <=> Listing(k)
        BY <3>2 DEF Looking, Listing
      <3>6. Standing(j)
        BY <2>0, <3>2, <3>3, <3>5 DEF Standing
      <3> USE DEF j
      <3>7. Binding(conn[c])' /\ Gathered(conn[c])'
        BY <2>0, <3>2, <3>3 DEF Binding, Gathered, Looking, Spares
      <3>8. RolesKnown(conn[c])'
        BY <2>0, <3>2, <3>3 DEF RolesKnown, Spares
      <3>9. Told(conn[c])'
        BY <2>0, <3>2, <3>3 DEF Told, Spares, WithinRole, IsAdmin
      <3>10. Whole(conn[c])' /\ Standing(conn[c])'
        BY <3>4, <3>6
      <3> QED BY <3>7, <3>8, <3>9, <3>10
    <2> QED BY <2>1, <2>2
  <1>2. DOMAIN conn' = Conns
    BY DEF Changed
  <1> QED BY <1>1, <1>2 DEF Informed

-----------------------------------------------------------------------------
(* Requests up to their answer.                                            *)
LEMMA GoodAtEnds == Good(Fresh) /\ Good(NoConn) /\ Good([NoConn EXCEPT !.pc = "closed"])
  BY DEF Good, Fresh, NoConn, NoEntries, Whole, AllFields, Standing, Looking, Listing,
         Binding, Verdict, Gathered, RolesKnown, Told

LEMMA GoodReplied == ASSUME NEW k, Good(k), k.pc = "reply" PROVE Good([k EXCEPT !.pc = "read"])
  <1> DEFINE j == [k EXCEPT !.pc = "read"]
  <1>1. /\ DOMAIN j = AllFields /\ j.pc = "read"
        /\ j.bound = k.bound /\ j.anonymous = k.anonymous
        /\ j.hadSuccessfulBind = k.hadSuccessfulBind /\ j.user = k.user
        /\ j.roles = k.roles /\ j.asked = k.asked /\ j.entries = k.entries
        /\ j.result = k.result /\ j.stale = k.stale /\ j.moved = k.moved
    BY DEF Good, Whole, AllFields
  <1> HIDE DEF j
  <1>2. Good(j)
    BY <1>1 DEF Good, Whole, Standing, Looking, Listing, Binding, Verdict, Gathered,
                RolesKnown, Told
  <1> QED BY <1>2 DEF j

LEMMA AnsweredFields ==
    ASSUME NEW k, NEW r, Whole(k)
    PROVE  LET j == Answered(k, r)
           IN  /\ Whole(j) /\ j.pc = "reply" /\ j.result = r /\ j.row = {}
               /\ j.bound = k.bound /\ j.anonymous = k.anonymous
               /\ j.hadSuccessfulBind = k.hadSuccessfulBind /\ j.user = k.user
               /\ j.roles = k.roles /\ j.asked = k.asked /\ j.entries = k.entries
               /\ j.stale = k.stale /\ j.moved = k.moved
  BY DEF Answered, Whole, AllFields

LEMMA BegunFields ==
    ASSUME NEW c \in Conns, Whole(conn[c])
    PROVE  LET j == Begun(c)
               k == conn[c]
           IN  /\ Whole(j) /\ j.asked = {} /\ j.entries = NoEntries /\ j.result = "none"
               /\ j.moved = FALSE /\ j.pc = k.pc
               /\ j.bound = k.bound /\ j.anonymous = k.anonymous
               /\ j.hadSuccessfulBind = k.hadSuccessfulBind /\ j.user = k.user
               /\ j.roles = k.roles /\ j.stale = k.stale
  BY DEF Begun, NoEntries, Whole, AllFields

LEMMA GoodAnswered ==
    ASSUME NEW k, NEW r, Good(k),
           r \notin {"entries", "success", "invalid_credentials", "user_disabled"}
    PROVE  Good(Answered(k, r))
  <1> DEFINE j == Answered(k, r)
  <1>1. /\ Whole(j) /\ j.pc = "reply" /\ j.result = r
        /\ j.bound = k.bound /\ j.anonymous = k.anonymous
        /\ j.hadSuccessfulBind = k.hadSuccessfulBind /\ j.user = k.user
        /\ j.roles = k.roles /\ j.stale = k.stale /\ j.moved = k.moved
    BY AnsweredFields DEF Good
  <1> HIDE DEF j
  <1>2. Good(j)
    BY <1>1 DEF Good, Standing, Looking, Listing, Binding, Verdict, Gathered,
                RolesKnown, Told
  <1> QED BY <1>2 DEF j

LEMMA GoodBegun == ASSUME NEW c \in Conns, Good(conn[c]), At(c, "read") PROVE Good(Begun(c))
  <1> DEFINE j == Begun(c)
  <1>1. /\ Whole(j) /\ j.pc = "read" /\ j.result = "none" /\ j.moved = FALSE
        /\ j.bound = conn[c].bound /\ j.anonymous = conn[c].anonymous
        /\ j.hadSuccessfulBind = conn[c].hadSuccessfulBind /\ j.user = conn[c].user
        /\ j.roles = conn[c].roles /\ j.stale = conn[c].stale
    BY BegunFields DEF Good, At
  <1> HIDE DEF j
  <1>2. ~Looking(j) /\ ~Listing(j)
    BY <1>1 DEF Looking, Listing
  <1>3. Standing(j)
    BY <1>1, <1>2 DEF Good, Standing
  <1>4. Binding(j) /\ Gathered(j) /\ Told(j)
    BY <1>1, <1>2 DEF Binding, Verdict, Gathered, Told
  <1>5. RolesKnown(j)
    BY <1>1 DEF Good, RolesKnown
  <1> QED BY <1>1, <1>3, <1>4, <1>5 DEF Good, j

LEMMA PlainStepsInformed ==
    ASSUME NEW c \in Conns, Informed,
           \/ Accept(c) \/ Reply(c) \/ CloseAfterReply(c) \/ Timeout(c) \/ UnbindOrHangUp(c)
           \/ Release(c) \/ BindAgain(c) \/ BindRefused(c) \/ SearchRefused(c)
           \/ OtherRequest(c)
    PROVE  Informed'
  <1>0. Good(conn[c]) /\ DOMAIN conn = Conns
    BY DEF Informed
  <1>1. CASE Accept(c)
    BY <1>1, GoodAtEnds, OwnStep DEF Accept
  <1>2. CASE Reply(c)
    <2>1. conn' = [conn EXCEPT ![c] = [conn[c] EXCEPT !.pc = "read"]] /\ UNCHANGED directory
      BY <1>2 DEF Reply
    <2>2. Good([conn[c] EXCEPT !.pc = "read"])
      BY <1>0, <1>2, GoodReplied DEF Reply, At
    <2> QED BY <2>1, <2>2, OwnStep
  <1>3. CASE CloseAfterReply(c) \/ Timeout(c) \/ UnbindOrHangUp(c)
    BY <1>3, GoodAtEnds, OwnStep DEF CloseAfterReply, Timeout, UnbindOrHangUp, Closed
  <1>4. CASE Release(c)
    BY <1>4, GoodAtEnds, OwnStep DEF Release, Forgotten
  <1>5. CASE BindAgain(c) \/ BindRefused(c) \/ SearchRefused(c) \/ OtherRequest(c)
    <2>1. \E r \in {"bound_already", "rate_limited", "refused"} :
             conn' = [conn EXCEPT ![c] = Answered(Begun(c), r)]
      BY <1>5 DEF BindAgain, BindRefused, SearchRefused, OtherRequest
    <2>2. UNCHANGED directory /\ Good(Begun(c))
      BY <1>0, <1>5, GoodBegun DEF BindAgain, BindRefused, SearchRefused, OtherRequest
    <2>3. \A r \in {"bound_already", "rate_limited", "refused"} : Good(Answered(Begun(c), r))
      BY <2>2, GoodAnswered
    <2> QED BY <2>1, <2>2, <2>3, OwnStep
  <1> QED BY <1>1, <1>2, <1>3, <1>4, <1>5

LEMMA BindLetThroughInformed ==
    ASSUME NEW c \in Conns, Informed, BindLetThrough(c) PROVE Informed'
  <1> DEFINE b == Begun(c)
  <1>0. Good(b) /\ UNCHANGED directory /\ ~conn[c].hadSuccessfulBind /\ b.pc = "read"
    BY GoodBegun, BegunFields DEF Informed, Good, BindLetThrough, BoundAlready, At
  <1>1. ~b.hadSuccessfulBind /\ b.user = {} /\ b.result = "none" /\ ~b.bound
    BY <1>0, BegunFields DEF Informed, Good, Standing
  <1>2. CASE \E r \in {"bad_bind", "invalid_dn"} : conn' = [conn EXCEPT ![c] = Answered(b, r)]
    BY <1>0, <1>2, GoodAnswered, OwnStep
  <1>3. CASE conn' = [conn EXCEPT ![c] = [Answered(b, "anonymous") EXCEPT
                !.bound = TRUE, !.anonymous = TRUE, !.hadSuccessfulBind = TRUE]]
    <2> DEFINE a == Answered(b, "anonymous")
               j == [a EXCEPT !.bound = TRUE, !.anonymous = TRUE, !.hadSuccessfulBind = TRUE]
    <2>1. Good(a) /\ a.pc = "reply" /\ a.result = "anonymous" /\ a.user = {}
      BY <1>0, <1>1, GoodAnswered, AnsweredFields DEF Good
    <2> HIDE DEF a
    <2>2. /\ Whole(j) /\ j.pc = "reply" /\ j.result = "anonymous" /\ j.user = {}
          /\ j.bound = TRUE /\ j.anonymous = TRUE /\ j.hadSuccessfulBind = TRUE
          /\ j.stale = a.stale /\ j.moved = a.moved
      BY <2>1 DEF Good, Whole, AllFields
    <2> HIDE DEF j
    <2>3. Good(j)
      BY <2>1, <2>2 DEF Good, Standing, Looking, Listing, Binding, Verdict, Gathered,
                        RolesKnown, Told
    <2> QED BY <1>0, <1>3, <2>3, OwnStep DEF j, a
  <1>4. ASSUME NEW name \in UserNames, NEW pw \in Passwords,
               conn' = [conn EXCEPT ![c] = [b EXCEPT
                  !.pc = "bindRow", !.asked = {<<name, pw>>}, !.stale = FALSE]]
        PROVE  Informed'
    <2> DEFINE j == [b EXCEPT !.pc = "bindRow", !.asked = {<<name, pw>>}, !.stale = FALSE]
    <2> HIDE DEF b
    <2>1. /\ Whole(j) /\ j.pc = "bindRow" /\ j.asked = {<<name, pw>>} /\ j.stale = FALSE
          /\ j.result = "none" /\ j.user = {} /\ j.bound = b.bound
          /\ j.anonymous = b.anonymous /\ j.hadSuccessfulBind = b.hadSuccessfulBind
          /\ j.moved = b.moved
      BY <1>0, <1>1 DEF Good, Whole, AllFields
    <2> HIDE DEF j
    <2>2. Good(j)
      BY <1>0, <1>1, <2>1 DEF Good, Standing, Looking, Listing, Binding, Verdict, Gathered,
                        RolesKnown, Told
    <2> QED BY <1>0, <1>4, <2>2, OwnStep DEF j
  <1> QED BY <1>2, <1>3, <1>4 DEF BindLetThrough

LEMMA BindRowInformed == ASSUME NEW c \in Conns, Informed, BindRow(c) PROVE Informed'
  <1> DEFINE k == conn[c]
  <1>0. Good(k) /\ k.pc = "bindRow" /\ UNCHANGED directory /\ DirSound
    BY DEF Informed, BindRow, At
  <1>1. PICK a : k.asked = {a}
    BY <1>0 DEF Good, Binding, Looking
  <1>2. Found(k) = {u \in users : u.name = Lower[a[1]]}
    BY <1>1 DEF Found
  <1>3. conn' = [conn EXCEPT ![c] = IF Found(k) = {} THEN Answered(k, "invalid_credentials")
                                    ELSE [k EXCEPT !.pc = "bindGroups", !.row = Found(k)]]
    BY DEF BindRow, Found
  <1>4. CASE Found(k) = {}
    <2> DEFINE j == Answered(k, "invalid_credentials")
    <2>1. /\ Whole(j) /\ j.pc = "reply" /\ j.result = "invalid_credentials"
          /\ j.bound = k.bound /\ j.anonymous = k.anonymous /\ j.asked = k.asked
          /\ j.hadSuccessfulBind = k.hadSuccessfulBind /\ j.user = k.user
          /\ j.roles = k.roles /\ j.stale = k.stale /\ j.moved = k.moved
      BY <1>0, AnsweredFields DEF Good
    <2> HIDE DEF j
    <2>2. Verdict(j)
      BY <1>1, <1>2, <1>4, <2>1 DEF Verdict, RightNow
    <2>3. Good(j)
      BY <1>0, <2>1, <2>2 DEF Good, Standing, Looking, Listing, Binding, Gathered,
                              RolesKnown, Told
    <2> QED BY <1>0, <1>3, <1>4, <2>3, OwnStep DEF j
  <1>5. CASE Found(k) # {}
    <2> DEFINE j == [k EXCEPT !.pc = "bindGroups", !.row = Found(k)]
    <2>1. /\ Whole(j) /\ j.pc = "bindGroups" /\ j.row = Found(k) /\ j.result = k.result
          /\ j.bound = k.bound /\ j.anonymous = k.anonymous /\ j.asked = k.asked
          /\ j.hadSuccessfulBind = k.hadSuccessfulBind /\ j.user = k.user
          /\ j.roles = k.roles /\ j.stale = k.stale /\ j.moved = k.moved
      BY <1>0 DEF Good, Whole, AllFields
    <2>2. j.row \subseteq users /\ (\A u, v \in j.row : u = v) /\ Found(j) = Found(k)
      BY <1>0, <1>2, <2>1 DEF Found, DirSound
    <2> HIDE DEF j
    <2>3. Good(j)
      BY <1>0, <1>1, <2>1, <2>2 DEF Good, Standing, Looking, Listing, Binding, Verdict,
                                    Gathered, RolesKnown, Told
    <2> QED BY <1>0, <1>3, <1>5, <2>3, OwnStep DEF j
  <1> QED BY <1>4, <1>5

LEMMA BindGroupsInformed == ASSUME NEW c \in Conns, Informed, BindGroups(c) PROVE Informed'
  <1> DEFINE k == conn[c]
  <1>0. Good(k) /\ k.pc = "bindGroups" /\ UNCHANGED directory /\ DirSound
    BY DEF Informed, BindGroups, At
  <1>1. PICK a : k.asked = {a}
    BY <1>0 DEF Good, Binding, Looking
  <1>2. /\ \A u, v \in k.row : u = v
        /\ ~k.stale => k.row \subseteq users
        /\ ~k.moved => k.row = {u \in users : u.name = Lower[a[1]]}
    BY <1>0, <1>1 DEF Good, Binding, Found
  <1>3. ASSUME NEW r \in {"invalid_credentials", "user_disabled"},
               r = "invalid_credentials" => ~PasswordRight(c),
               r = "user_disabled" => Disabled(c),
               conn' = [conn EXCEPT ![c] = Answered(k, r)]
        PROVE  Informed'
    <2> DEFINE j == Answered(k, r)
    <2>1. /\ Whole(j) /\ j.pc = "reply" /\ j.result = r
          /\ j.bound = k.bound /\ j.anonymous = k.anonymous /\ j.asked = k.asked
          /\ j.hadSuccessfulBind = k.hadSuccessfulBind /\ j.user = k.user
          /\ j.roles = k.roles /\ j.stale = k.stale /\ j.moved = k.moved
      BY <1>0, AnsweredFields DEF Good
    <2> HIDE DEF j
    <2>2. ~k.moved /\ Lower[a[1]] = a[1] => ~RightNow(a[1], a[2])
      <3> SUFFICES ASSUME ~k.moved, Lower[a[1]] = a[1], NEW u \in users,
                          u.name = a[1], u.pw = a[2], ~u.disabled
                   PROVE  FALSE
        BY DEF RightNow
      <3>1. u \in k.row /\ k.row = {u}
        BY <1>2
      <3>2. PasswordRight(c)
        BY <1>1, <3>1 DEF PasswordRight
      <3>3. ~Disabled(c)
        BY <3>1 DEF Disabled
      <3> QED BY <1>3, <3>2, <3>3
    <2>3. ~j.moved => Verdict(j)
      BY <1>1, <1>3, <2>1, <2>2 DEF Verdict
    <2>4. ~Looking(j) /\ ~Listing(j)
      BY <2>1 DEF Looking, Listing
    <2>5. Standing(j)
      BY <1>0, <1>3, <2>1, <2>4 DEF Good, Standing
    <2>6. Binding(j)
      BY <2>1, <2>3, <2>4 DEF Binding
    <2>7. Gathered(j) /\ Told(j)
      BY <1>3, <2>1 DEF Gathered, Told
    <2>8. RolesKnown(j)
      BY <1>0, <2>1 DEF Good, RolesKnown
    <2> QED BY <1>0, <1>3, <2>1, <2>5, <2>6, <2>7, <2>8, OwnStep DEF j, Good
  <1>4. ASSUME PasswordRight(c), ~Disabled(c),
               conn' = [conn EXCEPT ![c] = [Answered(k, "success") EXCEPT
                  !.user = k.row, !.roles = UNION {RolesOf(u.id) : u \in k.row},
                  !.bound = TRUE, !.anonymous = FALSE, !.hadSuccessfulBind = TRUE]]
        PROVE  Informed'
    <2> DEFINE s == Answered(k, "success")
               j == [s EXCEPT
                  !.user = k.row, !.roles = UNION {RolesOf(u.id) : u \in k.row},
                  !.bound = TRUE, !.anonymous = FALSE, !.hadSuccessfulBind = TRUE]
    <2>1. /\ Whole(s) /\ s.pc = "reply" /\ s.result = "success"
          /\ s.asked = k.asked /\ s.stale = k.stale /\ s.moved = k.moved
      BY <1>0, AnsweredFields DEF Good
    <2> HIDE DEF s
    <2>2. /\ Whole(j) /\ j.pc = "reply" /\ j.result = "success" /\ j.user = k.row
          /\ j.roles = UNION {RolesOf(u.id) : u \in k.row} /\ j.asked = k.asked
          /\ j.bound = TRUE /\ j.anonymous = FALSE /\ j.hadSuccessfulBind = TRUE
          /\ j.stale = k.stale /\ j.moved = k.moved
      BY <2>1 DEF Whole, AllFields
    <2> HIDE DEF j
    <2>3. \A u \in k.row : UNION {RolesOf(v.id) : v \in k.row} = RolesOf(u.id)
      BY <1>2
    <2>4. RolesKnown(j)
      BY <1>2, <2>2, <2>3 DEF RolesKnown
    <2>5. ~j.moved => Verdict(j)
      BY <1>1, <1>2, <1>4, <2>2 DEF Verdict, RightNow, PasswordRight, Disabled
    <2>6. ~Looking(j) /\ ~Listing(j)
      BY <2>2 DEF Looking, Listing
    <2>7. Standing(j)
      <3>1. {k.stale, k.moved} \subseteq BOOLEAN
        BY <1>0 DEF Good, Standing
      <3>2. {j.bound, j.anonymous, j.hadSuccessfulBind, j.stale, j.moved} \subseteq BOOLEAN
        BY <2>2, <3>1
      <3>3. \A u, v \in j.user : u = v
        BY <1>2, <2>2
      <3> QED BY <2>2, <2>6, <3>2, <3>3 DEF Standing
    <2>8. Binding(j)
      BY <2>2, <2>5, <2>6 DEF Binding
    <2>9. Gathered(j) /\ Told(j)
      BY <2>2 DEF Gathered, Told
    <2>10. Good(j)
      BY <2>2, <2>4, <2>7, <2>8, <2>9 DEF Good
    <2> QED BY <1>0, <1>4, <2>10, OwnStep DEF j, s
  <1> QED BY <1>3, <1>4 DEF BindGroups

LEMMA SearchLetThroughInformed ==
    ASSUME NEW c \in Conns, Informed, SearchLetThrough(c) PROVE Informed'
  <1> DEFINE b == Begun(c)
  <1>0. Good(b) /\ UNCHANGED directory /\ b.pc = "read"
    BY GoodBegun, BegunFields DEF Informed, Good, SearchLetThrough, At
  <1>1. CASE \E r \in {"refused", "root_dse"} : conn' = [conn EXCEPT ![c] = Answered(b, r)]
    BY <1>0, <1>1, GoodAnswered, OwnStep
  <1>2. CASE ~Restricted(c) /\ conn' = [conn EXCEPT ![c] = [b EXCEPT !.pc = "users"]]
    <2> DEFINE j == [b EXCEPT !.pc = "users"]
    <2>1. b.bound /\ ~b.anonymous /\ b.result = "none" /\ b.asked = {} /\ b.entries = NoEntries
      BY <1>2, BegunFields DEF Restricted, Informed, Good
    <2> HIDE DEF b
    <2>2. /\ Whole(j) /\ j.pc = "users" /\ j.result = "none" /\ j.asked = {}
          /\ j.bound = b.bound /\ j.anonymous = b.anonymous /\ j.entries = b.entries
          /\ j.hadSuccessfulBind = b.hadSuccessfulBind /\ j.user = b.user
          /\ j.roles = b.roles /\ j.stale = b.stale /\ j.moved = b.moved
      BY <1>0, <2>1 DEF Good, Whole, AllFields
    <2> HIDE DEF j
    <2>3. Good(j)
      BY <1>0, <2>1, <2>2 DEF Good, Standing, Looking, Listing, Binding, Verdict,
                              Gathered, RolesKnown, Told
    <2> QED BY <1>0, <1>2, <2>3, OwnStep DEF j
  <1> QED BY <1>1, <1>2 DEF SearchLetThrough

-----------------------------------------------------------------------------
(* Listings.                                                               *)
Joined(p) ==
    \E u \in users, g \in groups : <<u.id, g.id>> \in members /\ p = <<u.name, g.name>>

LEMMA MembershipsJoined == \A p : p \in Memberships <=> Joined(p)
  <1>1. ASSUME NEW p \in Memberships PROVE Joined(p)
    <2>1. PICK q \in users \X groups :
             <<q[1].id, q[2].id>> \in members /\ p = <<q[1].name, q[2].name>>
      BY <1>1 DEF Memberships
    <2>2. q[1] \in users /\ q[2] \in groups
      OBVIOUS
    <2> QED BY <2>1, <2>2 DEF Joined
  <1>2. ASSUME NEW u \in users, NEW g \in groups, <<u.id, g.id>> \in members
        PROVE  <<u.name, g.name>> \in Memberships
    <2> DEFINE q == <<u, g>>
    <2>1. q \in users \X groups /\ q[1] = u /\ q[2] = g
      OBVIOUS
    <2> QED BY <1>2, <2>1 DEF Memberships
  <1> QED BY <1>1, <1>2 DEF Joined

LEMMA AllUsersListed == OfUsers(Rows(users)) = Memberships
  <1>1. ASSUME NEW p \in OfUsers(Rows(users)) PROVE Joined(p)
    <2>1. PICK x \in Rows(users) : p \in {x.name} \X RolesOf(x.id)
      BY DEF OfUsers
    <2>2. PICK u \in users : x.id = u.id /\ x.name = u.name
      BY DEF Rows
    <2>3. PICK n \in RolesOf(u.id) : p = <<u.name, n>>
      BY <2>1, <2>2
    <2>4. PICK g \in groups : <<u.id, g.id>> \in members /\ n = g.name
      BY DEF RolesOf
    <2> QED BY <2>3, <2>4 DEF Joined
  <1>2. ASSUME NEW p, Joined(p) PROVE p \in OfUsers(Rows(users))
    <2>1. PICK u \in users, g \in groups :
             <<u.id, g.id>> \in members /\ p = <<u.name, g.name>>
      BY <1>2 DEF Joined
    <2> DEFINE x == [id |-> u.id, name |-> u.name]
    <2>2. x \in Rows(users) /\ x.id = u.id /\ x.name = u.name
      BY DEF Rows
    <2>3. g.name \in RolesOf(u.id)
      BY <2>1 DEF RolesOf
    <2> HIDE DEF x
    <2>4. p \in {x.name} \X RolesOf(x.id)
      BY <2>1, <2>2, <2>3
    <2> QED BY <2>2, <2>4 DEF OfUsers
  <1> QED BY <1>1, <1>2, MembershipsJoined

LEMMA AllGroupsListed == OfGroups(Rows(groups)) = Memberships
  <1>1. ASSUME NEW p \in OfGroups(Rows(groups)) PROVE Joined(p)
    <2>1. PICK x \in Rows(groups) : p \in MembersOf(x.id) \X {x.name}
      BY DEF OfGroups
    <2>2. PICK g \in groups : x.id = g.id /\ x.name = g.name
      BY DEF Rows
    <2>3. PICK n \in MembersOf(g.id) : p = <<n, g.name>>
      BY <2>1, <2>2
    <2>4. PICK u \in users : <<u.id, g.id>> \in members /\ n = u.name
      BY DEF MembersOf
    <2> QED BY <2>3, <2>4 DEF Joined
  <1>2. ASSUME NEW p, Joined(p) PROVE p \in OfGroups(Rows(groups))
    <2>1. PICK u \in users, g \in groups :
             <<u.id, g.id>> \in members /\ p = <<u.name, g.name>>
      BY <1>2 DEF Joined
    <2> DEFINE x == [id |-> g.id, name |-> g.name]
    <2>2. x \in Rows(groups) /\ x.id = g.id /\ x.name = g.name
      BY DEF Rows
    <2>3. u.name \in MembersOf(g.id)
      BY <2>1 DEF MembersOf
    <2> HIDE DEF x
    <2>4. p \in MembersOf(x.id) \X {x.name}
      BY <2>1, <2>2, <2>3
    <2> QED BY <2>2, <2>4 DEF OfGroups
  <1> QED BY <1>1, <1>2, MembershipsJoined

(* The next row's groups, or members, are added.                           *)
LEMMA OneMore ==
    ASSUME NEW rows, NEW x
    PROVE  /\ OfUsers(rows \cup {x}) = OfUsers(rows) \cup ({x.name} \X RolesOf(x.id))
           /\ OfGroups(rows \cup {x}) = OfGroups(rows) \cup (MembersOf(x.id) \X {x.name})
  BY DEF OfUsers, OfGroups

LEMMA VisibleWithin ==
    ASSUME NEW c \in Conns, NEW e, NEW u, conn[c].user = {u}, conn[c].roles = RolesOf(u.id)
    PROVE  WithinRole(u.id, u.name, Visible(c, e))
  <1>1. AdminScope(c) <=> IsAdmin(u.id)
    BY DEF AdminScope, IsAdmin
  <1>2. ~AdminScope(c) => /\ Visible(c, e).users \subseteq {u.name}
                          /\ Visible(c, e).groups \subseteq RolesOf(u.id)
    BY DEF Visible
  <1> QED BY <1>1, <1>2 DEF WithinRole

LEMMA VisibleIsDue ==
    ASSUME NEW c \in Conns, NEW e, NEW u \in users, DirSound,
           conn[c].user = {u}, conn[c].roles = RolesOf(u.id),
           e.users = Names(users), e.groups = Names(groups),
           e.memberOf = Memberships, e.member = Memberships
    PROVE  Visible(c, e) = Due(u.id)
  <1> DEFINE us == {w.name : w \in {v \in users : IsAdmin(u.id) \/ v.id = u.id}}
             gs == IF IsAdmin(u.id) THEN Names(groups) ELSE RolesOf(u.id)
  <1>1. AdminScope(c) <=> IsAdmin(u.id)
    BY DEF AdminScope, IsAdmin
  <1>2. us = IF AdminScope(c) THEN e.users ELSE e.users \cap {w.name : w \in conn[c].user}
    <2>1. {v \in users : v.id = u.id} = {u}
      BY DEF DirSound
    <2>2. CASE IsAdmin(u.id)
      BY <1>1, <2>2 DEF Names
    <2>3. CASE ~IsAdmin(u.id)
      BY <1>1, <2>1, <2>3 DEF Names
    <2> QED BY <2>2, <2>3
  <1>3. gs = IF AdminScope(c) THEN e.groups ELSE e.groups \cap conn[c].roles
    BY <1>1 DEF Names, RolesOf
  <1>4. Visible(c, e) = [users |-> us, groups |-> gs,
                         memberOf |-> {m \in e.memberOf : m[1] \in us},
                         member |-> {m \in e.member : m[2] \in gs}]
    BY <1>2, <1>3 DEF Visible
  <1>5. Due(u.id) = [users |-> us, groups |-> gs,
                     memberOf |-> {m \in Memberships : m[1] \in us},
                     member |-> {m \in Memberships : m[2] \in gs}]
    BY DEF Due
  <1> HIDE DEF us, gs
  <1> QED BY <1>4, <1>5

LEMMA ListUsersInformed == ASSUME NEW c \in Conns, Informed, ListUsers(c) PROVE Informed'
  <1> DEFINE k == conn[c]
             j == [k EXCEPT !.pc = IF users = {} THEN "groups" ELSE "userGroups",
                            !.entries.users = Names(users), !.todo = Rows(users)]
  <1>0. Good(k) /\ k.pc = "users" /\ UNCHANGED directory
        /\ conn' = [conn EXCEPT ![c] = j]
    BY DEF Informed, ListUsers, At
  <1>1. /\ DOMAIN j = AllFields /\ j.pc = (IF users = {} THEN "groups" ELSE "userGroups")
        /\ j.result = k.result /\ j.asked = k.asked
        /\ j.bound = k.bound /\ j.anonymous = k.anonymous
        /\ j.hadSuccessfulBind = k.hadSuccessfulBind /\ j.user = k.user
        /\ j.roles = k.roles /\ j.stale = k.stale /\ j.moved = k.moved
        /\ j.todo = Rows(users) /\ j.entries = [k.entries EXCEPT !.users = Names(users)]
    BY <1>0 DEF Good, Whole, AllFields
  <1>2. /\ DOMAIN j.entries = {"users", "groups", "memberOf", "member"}
        /\ j.entries.users = Names(users)
        /\ j.entries.memberOf = k.entries.memberOf /\ j.entries.member = k.entries.member
    BY <1>0, <1>1 DEF Good, Whole
  <1>3. OfUsers(Rows(users) \ Rows(users)) = {} /\ (users = {} => Memberships = {})
    BY DEF OfUsers, Memberships
  <1> HIDE DEF j
  <1>4. ~k.moved => k.entries.memberOf = {} /\ k.entries.member = {}
    BY <1>0 DEF Good, Gathered, NoEntries
  <1>5. (j.pc = "groups" /\ users = {}) \/ j.pc = "userGroups"
    BY <1>1
  <1>6. Gathered(j)
    BY <1>1, <1>2, <1>3, <1>4, <1>5 DEF Gathered
  <1>7. Good(j)
    BY <1>0, <1>1, <1>2, <1>6 DEF Good, Whole, Standing, Looking, Listing, Binding, Verdict,
                                  RolesKnown, Told
  <1> QED BY <1>0, <1>7, OwnStep

LEMMA UserGroupsInformed == ASSUME NEW c \in Conns, Informed, UserGroups(c) PROVE Informed'
  <1> DEFINE k == conn[c]
  <1>0. Good(k) /\ k.pc = "userGroups" /\ UNCHANGED directory
    BY DEF Informed, UserGroups, At
  <1>1. PICK x \in k.todo : conn' = [conn EXCEPT ![c] = [k EXCEPT
             !.pc = IF k.todo = {x} THEN "groups" ELSE "userGroups",
             !.entries.memberOf = @ \cup ({x.name} \X RolesOf(x.id)),
             !.todo = @ \ {x}]]
    BY DEF UserGroups
  <1> DEFINE more == {x.name} \X RolesOf(x.id)
             j == [k EXCEPT !.pc = IF k.todo = {x} THEN "groups" ELSE "userGroups",
                            !.entries.memberOf = @ \cup more, !.todo = @ \ {x}]
  <1>2. /\ DOMAIN j = AllFields /\ j.pc = (IF k.todo = {x} THEN "groups" ELSE "userGroups")
        /\ j.result = k.result /\ j.asked = k.asked
        /\ j.bound = k.bound /\ j.anonymous = k.anonymous
        /\ j.hadSuccessfulBind = k.hadSuccessfulBind /\ j.user = k.user
        /\ j.roles = k.roles /\ j.stale = k.stale /\ j.moved = k.moved
        /\ j.todo = k.todo \ {x}
        /\ j.entries = [k.entries EXCEPT !.memberOf = k.entries.memberOf \cup more]
    BY <1>0 DEF Good, Whole, AllFields
  <1>3. /\ DOMAIN j.entries = {"users", "groups", "memberOf", "member"}
        /\ j.entries.users = k.entries.users /\ j.entries.member = k.entries.member
        /\ j.entries.memberOf = k.entries.memberOf \cup more
    BY <1>0, <1>2 DEF Good, Whole
  <1>4. ASSUME ~k.moved
        PROVE  /\ j.todo \subseteq Rows(users)
               /\ j.entries.memberOf = OfUsers(Rows(users) \ j.todo)
               /\ j.todo = {} => j.entries.memberOf = Memberships
    <2>1. k.todo \subseteq Rows(users) /\ k.entries.memberOf = OfUsers(Rows(users) \ k.todo)
      BY <1>0, <1>4 DEF Good, Gathered
    <2>2. OfUsers(Rows(users) \ (k.todo \ {x})) = OfUsers(Rows(users) \ k.todo) \cup more
      <3>1. Rows(users) \ (k.todo \ {x}) = (Rows(users) \ k.todo) \cup {x}
        BY <2>1
      <3> QED BY <3>1, OneMore
    <2>3. j.entries.memberOf = OfUsers(Rows(users) \ (k.todo \ {x}))
      BY <1>3, <2>1, <2>2
    <2>4. Rows(users) \ {} = Rows(users)
      OBVIOUS
    <2> QED BY <1>2, <2>1, <2>3, <2>4, AllUsersListed
  <1>5. j.pc = "groups" <=> j.todo = {}
    BY <1>2
  <1>6. conn' = [conn EXCEPT ![c] = j]
    BY <1>1
  <1> HIDE DEF j
  <1>7. Gathered(j)
    BY <1>0, <1>2, <1>3, <1>4, <1>5 DEF Good, Gathered
  <1>8. Good(j)
    BY <1>0, <1>2, <1>3, <1>7 DEF Good, Whole, Standing, Looking, Listing, Binding, Verdict,
                                  RolesKnown, Told
  <1> QED BY <1>0, <1>6, <1>8, OwnStep

(* The groups so far; with no row left, the answer is made of them.        *)
LEMMA GoodListed ==
    ASSUME NEW c \in Conns, DirSound, NEW k, Whole(k), Standing(k), RolesKnown(k),
           k.user = conn[c].user, k.roles = conn[c].roles, Listing(k),
           ~k.moved => /\ k.todo \subseteq Rows(groups)
                       /\ k.entries.users = Names(users) /\ k.entries.groups = Names(groups)
                       /\ k.entries.memberOf = Memberships
                       /\ k.entries.member = OfGroups(Rows(groups) \ k.todo)
    PROVE  Good(Listed(c, k))
  <1>1. CASE k.todo = {}
    <2> DEFINE s == Answered(k, "entries")
               j == [s EXCEPT !.entries = Visible(c, k.entries)]
    <2>1. /\ Whole(s) /\ s.pc = "reply" /\ s.result = "entries"
          /\ s.bound = k.bound /\ s.anonymous = k.anonymous
          /\ s.hadSuccessfulBind = k.hadSuccessfulBind /\ s.user = k.user
          /\ s.roles = k.roles /\ s.stale = k.stale /\ s.moved = k.moved
      BY AnsweredFields
    <2> HIDE DEF s
    <2>2. /\ DOMAIN j = AllFields /\ j.pc = "reply" /\ j.result = "entries"
          /\ j.bound = k.bound /\ j.anonymous = k.anonymous
          /\ j.hadSuccessfulBind = k.hadSuccessfulBind /\ j.user = k.user
          /\ j.roles = k.roles /\ j.stale = k.stale /\ j.moved = k.moved
          /\ j.entries = Visible(c, k.entries)
      BY <2>1 DEF Whole, AllFields
    <2> HIDE DEF j
    <2>3. DOMAIN Visible(c, k.entries) = {"users", "groups", "memberOf", "member"}
      BY DEF Visible
    <2>4. ~k.stale => \A u \in k.user : /\ u \in users /\ conn[c].user = {u}
                                        /\ conn[c].roles = RolesOf(u.id)
      BY DEF RolesKnown, Standing
    <2>5. ~k.moved => k.entries.member = Memberships
      <3>1. Rows(groups) \ {} = Rows(groups)
        OBVIOUS
      <3> QED BY <1>1, <3>1, AllGroupsListed
    <2>6. Told(j)
      <3>1. ASSUME ~k.stale, NEW u \in k.user
            PROVE  /\ WithinRole(u.id, u.name, Visible(c, k.entries))
                   /\ ~k.moved => Visible(c, k.entries) = Due(u.id)
        <4>1. u \in users /\ conn[c].user = {u} /\ conn[c].roles = RolesOf(u.id)
          BY <3>1, <2>4
        <4>2. WithinRole(u.id, u.name, Visible(c, k.entries))
          BY <4>1, VisibleWithin
        <4>3. ~k.moved => Visible(c, k.entries) = Due(u.id)
          BY <4>1, <2>5, VisibleIsDue
        <4> QED BY <4>2, <4>3
      <3> QED BY <3>1, <2>2 DEF Told
    <2>7. Good(j)
      BY <2>2, <2>3, <2>6 DEF Good, Whole, Standing, Looking, Listing, Binding, Verdict,
                              Gathered, RolesKnown
    <2>8. Listed(c, k) = j
      BY <1>1 DEF Listed, j, s
    <2> QED BY <2>7, <2>8
  <1>2. CASE k.todo # {}
    <2> DEFINE j == [k EXCEPT !.pc = "groupMembers"]
    <2>1. /\ Whole(j) /\ j.pc = "groupMembers" /\ j.result = k.result
          /\ j.bound = k.bound /\ j.anonymous = k.anonymous /\ j.asked = k.asked
          /\ j.hadSuccessfulBind = k.hadSuccessfulBind /\ j.user = k.user
          /\ j.roles = k.roles /\ j.stale = k.stale /\ j.moved = k.moved
          /\ j.entries = k.entries /\ j.todo = k.todo
      BY DEF Whole, AllFields
    <2> HIDE DEF j
    <2>2. Good(j)
      BY <2>1 DEF Good, Standing, Looking, Listing, Binding, Verdict, Gathered,
                  RolesKnown, Told
    <2>3. Listed(c, k) = j
      BY <1>2 DEF Listed, j
    <2> QED BY <2>2, <2>3
  <1> QED BY <1>1, <1>2

LEMMA ListGroupsInformed == ASSUME NEW c \in Conns, Informed, ListGroups(c) PROVE Informed'
  <1> DEFINE k == conn[c]
             j == [k EXCEPT !.entries.groups = Names(groups), !.todo = Rows(groups)]
  <1>0. Good(k) /\ k.pc = "groups" /\ UNCHANGED directory /\ DirSound
        /\ conn' = [conn EXCEPT ![c] = Listed(c, j)]
    BY DEF Informed, ListGroups, At
  <1>1. /\ DOMAIN j = AllFields /\ j.pc = k.pc /\ j.result = k.result
        /\ j.bound = k.bound /\ j.anonymous = k.anonymous /\ j.asked = k.asked
        /\ j.hadSuccessfulBind = k.hadSuccessfulBind /\ j.user = k.user
        /\ j.roles = k.roles /\ j.stale = k.stale /\ j.moved = k.moved
        /\ j.todo = Rows(groups) /\ j.entries = [k.entries EXCEPT !.groups = Names(groups)]
    BY <1>0 DEF Good, Whole, AllFields
  <1>2. /\ DOMAIN j.entries = {"users", "groups", "memberOf", "member"}
        /\ j.entries.users = k.entries.users /\ j.entries.groups = Names(groups)
        /\ j.entries.memberOf = k.entries.memberOf /\ j.entries.member = k.entries.member
    BY <1>0, <1>1 DEF Good, Whole
  <1>3. OfGroups(Rows(groups) \ Rows(groups)) = {}
    BY DEF OfGroups
  <1> HIDE DEF j
  <1>4. Whole(j) /\ Standing(j) /\ RolesKnown(j) /\ Listing(j)
    BY <1>0, <1>1, <1>2 DEF Good, Whole, Standing, Looking, Listing, RolesKnown
  <1>5. ~j.moved => /\ j.entries.users = Names(users) /\ j.entries.memberOf = Memberships
                    /\ j.entries.member = {}
    BY <1>0, <1>1, <1>2 DEF Good, Gathered
  <1>6. Good(Listed(c, j))
    BY <1>0, <1>1, <1>2, <1>3, <1>4, <1>5, GoodListed
  <1> QED BY <1>0, <1>6, OwnStep

LEMMA GroupMembersInformed ==
    ASSUME NEW c \in Conns, Informed, GroupMembers(c) PROVE Informed'
  <1> DEFINE k == conn[c]
  <1>0. Good(k) /\ k.pc = "groupMembers" /\ UNCHANGED directory /\ DirSound
    BY DEF Informed, GroupMembers, At
  <1>1. PICK x \in k.todo : conn' = [conn EXCEPT ![c] = Listed(c, [k EXCEPT
             !.entries.member = @ \cup (MembersOf(x.id) \X {x.name}), !.todo = @ \ {x}])]
    BY DEF GroupMembers
  <1> DEFINE more == MembersOf(x.id) \X {x.name}
             j == [k EXCEPT !.entries.member = @ \cup more, !.todo = @ \ {x}]
  <1>2. /\ DOMAIN j = AllFields /\ j.pc = k.pc /\ j.result = k.result
        /\ j.bound = k.bound /\ j.anonymous = k.anonymous /\ j.asked = k.asked
        /\ j.hadSuccessfulBind = k.hadSuccessfulBind /\ j.user = k.user
        /\ j.roles = k.roles /\ j.stale = k.stale /\ j.moved = k.moved
        /\ j.todo = k.todo \ {x}
        /\ j.entries = [k.entries EXCEPT !.member = k.entries.member \cup more]
    BY <1>0 DEF Good, Whole, AllFields
  <1>3. /\ DOMAIN j.entries = {"users", "groups", "memberOf", "member"}
        /\ j.entries.users = k.entries.users /\ j.entries.groups = k.entries.groups
        /\ j.entries.memberOf = k.entries.memberOf
        /\ j.entries.member = k.entries.member \cup more
    BY <1>0, <1>2 DEF Good, Whole
  <1>4. ASSUME ~k.moved
        PROVE  /\ j.todo \subseteq Rows(groups)
               /\ j.entries.member = OfGroups(Rows(groups) \ j.todo)
    <2>1. k.todo \subseteq Rows(groups) /\ k.entries.member = OfGroups(Rows(groups) \ k.todo)
      BY <1>0, <1>4 DEF Good, Gathered
    <2>2. OfGroups(Rows(groups) \ (k.todo \ {x})) = OfGroups(Rows(groups) \ k.todo) \cup more
      <3>1. Rows(groups) \ (k.todo \ {x}) = (Rows(groups) \ k.todo) \cup {x}
        BY <2>1
      <3> QED BY <3>1, OneMore
    <2> QED BY <1>2, <1>3, <2>1, <2>2
  <1>5. conn' = [conn EXCEPT ![c] = Listed(c, j)]
    BY <1>1
  <1> HIDE DEF j
  <1>6. Whole(j) /\ Standing(j) /\ RolesKnown(j) /\ Listing(j)
    BY <1>0, <1>2, <1>3 DEF Good, Whole, Standing, Looking, Listing, RolesKnown
  <1>7. ~j.moved => /\ j.entries.users = Names(users) /\ j.entries.groups = Names(groups)
                    /\ j.entries.memberOf = Memberships
    BY <1>0, <1>2, <1>3 DEF Good, Gathered
  <1>8. Good(Listed(c, j))
    BY <1>0, <1>2, <1>4, <1>6, <1>7, GoodListed
  <1> QED BY <1>0, <1>5, <1>8, OwnStep

-----------------------------------------------------------------------------
LEMMA InitInformed == Init => Informed
  <1> SUFFICES ASSUME Init PROVE Informed
    OBVIOUS
  <1>1. DirSound
    <2>1. \A u, v \in users : u.id = v.id \/ u.name = v.name => u = v
      BY LdapAssumption DEF Init
    <2>2. (\A u \in users : u.id \in usedUids) /\ (\A g \in groups : g.id \in usedGids)
      BY DEF Init, LiveUserIds, LiveGroupIds
    <2>3. \A m \in members : m[2] \in usedGids
      BY LdapAssumption DEF Init, LiveGroupIds
    <2> QED BY <2>1, <2>2, <2>3 DEF DirSound
  <1>2. DOMAIN conn = Conns /\ \A c \in Conns : conn[c] = NoConn
    BY DEF Init
  <1> QED BY <1>1, <1>2, GoodAtEnds DEF Informed

LEMMA StepInformed == Informed /\ [Next]_vars => Informed'
  <1> SUFFICES ASSUME Informed, [Next]_vars PROVE Informed'
    OBVIOUS
  <1>1. ASSUME NEW c \in Conns, Accept(c) \/ Request(c) \/ UnbindOrHangUp(c) \/ Handle(c)
        PROVE  Informed'
    BY <1>1, PlainStepsInformed, BindLetThroughInformed, BindRowInformed, BindGroupsInformed,
       SearchLetThroughInformed, ListUsersInformed, UserGroupsInformed, ListGroupsInformed,
       GroupMembersInformed DEF Request, Handle
  <1>2. CASE ChangeUser \/ ChangeGroup
    BY <1>2, ChangeSpares, ChangedInformed DEF Informed
  <1>3. CASE UNCHANGED <<directory, conn>>
    <2>1. DirSound'
      BY <1>3 DEF Informed, DirSound, directory
    <2>2. ASSUME NEW c \in Conns PROVE Good(conn[c])'
      BY <1>3, StaysGood DEF Informed, directory
    <2> QED BY <1>3, <2>1, <2>2 DEF Informed
  <1>4. CASE BindsAge \/ SearchesAge
    BY <1>3, <1>4 DEF BindsAge, SearchesAge
  <1>5. CASE UNCHANGED vars
    BY <1>3, <1>5 DEF vars, directory
  <1> QED BY <1>1, <1>2, <1>4, <1>5 DEF Next

LEMMA AlwaysInformed == Spec => []Informed
  BY InitInformed, StepInformed, PTL DEF Spec

(* AuthenticateUser and the checks of handleBind: with no change of the     *)
(* directory in between, the verdict is the directory's.                    *)
THEOREM VerdictIsRight == Spec => []BindVerdictRight
  <1>1. Informed => BindVerdictRight
    BY DEF Informed, Good, Binding, Verdict, BindVerdictRight
  <1> QED BY AlwaysInformed, <1>1, PTL

(* visibleEntries: a user is sent what the role at the bind allows, which   *)
(* is the role now unless account or groups have changed since.             *)
THEOREM RolesBound == Spec => []RevealedWithinRole
  <1>1. Informed => RevealedWithinRole
    BY DEF Informed, Good, Standing, Told, RevealedWithinRole
  <1> QED BY AlwaysInformed, <1>1, PTL

(* ListUsers and ListGroups, put together row by row, are the directory.    *)
THEOREM AnswersAreComplete == Spec => []AnswerIsTheDirectory
  <1>1. Informed => AnswerIsTheDirectory
    BY DEF Informed, Good, Told, AnswerIsTheDirectory
  <1> QED BY AlwaysInformed, <1>1, PTL

=============================================================================
