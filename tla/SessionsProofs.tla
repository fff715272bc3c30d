--------------------------- MODULE SessionsProofs ---------------------------
(***************************************************************************)
(* Proofs about internal/session/store.go for any number of tokens, names, *)
(* slots and any timeout.  The session limit rests on one strengthening:   *)
(* the tokens present are finitely many, so that their number is a number. *)
(***************************************************************************)
EXTENDS Sessions, FiniteSetTheorems, TLAPS

USE SessionsAssumption

(* Sizes of the token sets: finite, and within the limit.                  *)
Bounded ==
    /\ IsFiniteSet(Present)
    /\ Cardinality(Present) <= Max

(* A subset of a bounded set is bounded: what cleanup, logout and          *)
(* revocation leave of the table still fits.                               *)
LEMMA SubsetBounded ==
    ASSUME NEW S, NEW T, IsFiniteSet(S), Cardinality(S) <= Max, T \subseteq S
    PROVE  IsFiniteSet(T) /\ Cardinality(T) <= Max
  <1>1. /\ IsFiniteSet(T)
        /\ Cardinality(T) <= Cardinality(S)
    BY FS_Subset
  <1>2. Cardinality(S) \in Nat /\ Cardinality(T) \in Nat
    BY <1>1, FS_CardinalityType
  <1> QED BY <1>1, <1>2

(* The tables the operations build hold sessions, and no more than before. *)
LEMMA CleanedType ==
    ASSUME TypeOK
    PROVE  /\ Cleaned \in [Tokens -> Session]
           /\ \A t \in Tokens : Cleaned[t].user = NoName => Cleaned[t] = NoSession
           /\ \A t \in Tokens : Cleaned[t].user # NoName <=> t \in Kept
  BY DEF TypeOK, Cleaned, Kept, Present, Session, NoSession

(* Every state is well typed, and an absent session leaves no residue.     *)
THEOREM TypeCorrect == Spec => []TypeOK
  <1>1. Init => TypeOK
    BY DEF Init, TypeOK, Session, NoSession, Results
  <1>2. TypeOK /\ [Next]_vars => TypeOK'
    <2> SUFFICES ASSUME TypeOK, [Next]_vars PROVE TypeOK'
      OBVIOUS
    <2> USE DEF TypeOK, Session, Results
    <2>1. CASE CreateRefused
      BY <2>1, CleanedType DEF CreateRefused
    <2>2. ASSUME NEW t \in Tokens, NEW n \in Names, Create(t, n) PROVE TypeOK'
      BY <2>2, CleanedType DEF Create, Dated, NoSession
    <2>3. ASSUME NEW t \in Tokens, Get(t) PROVE TypeOK'
      BY <2>3, CleanedType DEF Get, Dated, Kept, Present, NoSession
    <2>4. ASSUME NEW t \in Tokens, GetMissing(t) PROVE TypeOK'
      BY <2>4, CleanedType DEF GetMissing
    <2>5. ASSUME NEW t \in Tokens, Delete(t) PROVE TypeOK'
      BY <2>5 DEF Delete, Deleted, NoSession
    <2>6. ASSUME NEW n \in Names, RevokeUser(n) PROVE TypeOK'
      BY <2>6 DEF RevokeUser, NoSession
    <2>7. CASE Tick
      BY <2>7 DEF Tick
    <2>8. CASE UNCHANGED vars
      BY <2>8 DEF vars
    <2> QED BY <2>1, <2>2, <2>3, <2>4, <2>5, <2>6, <2>7, <2>8 DEF Next
  <1> QED BY <1>1, <1>2, PTL DEF Spec

-----------------------------------------------------------------------------
(* One step keeps the table within the limit.  Create adds a token only    *)
(* when what cleanup left is below the limit; every other operation leaves *)
(* a subset of the tokens present.                                         *)
LEMMA BoundedStep ==
    ASSUME TypeOK, Bounded, [Next]_vars
    PROVE  Bounded'
  <1> USE DEF Bounded
  <1>0. ASSUME Present' \subseteq Present PROVE Bounded'
    BY <1>0, SubsetBounded
  <1>1. CASE CreateRefused
    BY <1>0, <1>1, CleanedType DEF CreateRefused, Present, Kept
  <1>2. ASSUME NEW t \in Tokens, NEW n \in Names, Create(t, n) PROVE Bounded'
    <2>1. Kept \subseteq Present
      BY DEF Kept
    <2>2. IsFiniteSet(Kept) /\ Cardinality(Kept) \in Nat
      BY <2>1, FS_Subset, FS_CardinalityType
    <2>3. Cardinality(Kept) < Max
      BY <1>2, <2>2 DEF Create, LimitReached
    <2>4. Present' \subseteq Kept \cup {t}
      BY <1>2, CleanedType DEF Create, Dated, Present
    <2>5. /\ IsFiniteSet(Kept \cup {t})
          /\ Cardinality(Kept \cup {t}) <= Max
      <3>1. \/ Cardinality(Kept \cup {t}) = Cardinality(Kept)
            \/ Cardinality(Kept \cup {t}) = Cardinality(Kept) + 1
        BY <2>2, FS_AddElement
      <3>2. IsFiniteSet(Kept \cup {t})
        BY <2>2, FS_AddElement
      <3> QED BY <2>2, <2>3, <3>1, <3>2
    <2> QED BY <2>4, <2>5, SubsetBounded
  <1>3. ASSUME NEW t \in Tokens, Get(t) PROVE Bounded'
    BY <1>0, <1>3, CleanedType DEF Get, Dated, Present, Kept
  <1>4. ASSUME NEW t \in Tokens, GetMissing(t) PROVE Bounded'
    BY <1>0, <1>4, CleanedType DEF GetMissing, Present, Kept
  <1>5. ASSUME NEW t \in Tokens, Delete(t) PROVE Bounded'
    BY <1>0, <1>5 DEF Delete, Deleted, Present, TypeOK, NoSession
  <1>6. ASSUME NEW n \in Names, RevokeUser(n) PROVE Bounded'
    BY <1>0, <1>6 DEF RevokeUser, Present, TypeOK, NoSession
  <1>7. CASE Tick
    BY <1>0, <1>7 DEF Tick, Present
  <1>8. CASE UNCHANGED vars
    BY <1>0, <1>8 DEF vars, Present
  <1> QED BY <1>1, <1>2, <1>3, <1>4, <1>5, <1>6, <1>7, <1>8 DEF Next

(* Hence every reachable table is finite and within the limit.             *)
LEMMA AlwaysBounded == Spec => []Bounded
  <1>1. Init => Bounded
    <2> SUFFICES ASSUME Init PROVE Bounded
      OBVIOUS
    <2>1. Present = {}
      BY DEF Init, Present, NoSession
    <2> QED BY <2>1, FS_EmptySet DEF Bounded
  <1>2. TypeOK /\ Bounded /\ [Next]_vars => Bounded'
    BY BoundedStep
  <1> QED BY <1>1, <1>2, TypeCorrect, PTL DEF Spec

(* The session limit holds in every reachable state, for every limit.      *)
THEOREM LimitHolds == Spec => []AtMostMaxSessions
  <1>1. Bounded => AtMostMaxSessions
    BY DEF Bounded, AtMostMaxSessions
  <1> QED BY <1>1, AlwaysBounded, PTL

-----------------------------------------------------------------------------
(* An expired, revoked or logged-out token is never accepted again: Get    *)
(* refreshes only what cleanup kept, and Create never redraws a token.     *)
THEOREM EndedForGood == Spec => EndedStaysEnded
  <1>1. TypeOK /\ [Next]_vars
          => [\A t \in issued : t \notin Valid => t \notin Valid']_vars
    <2> SUFFICES ASSUME TypeOK, [Next]_vars, NEW u \in issued, u \in Valid'
                 PROVE  u \in Valid
      OBVIOUS
    <2>x. u \in Tokens /\ sessions[u] \in Session /\ now \in Int
      BY DEF TypeOK
    <2>y. sessions'[u].user # NoName /\ now' <= sessions'[u].expiresAt
      BY DEF Valid, Present
    <2>0. /\ u \in Tokens /\ sessions[u] \in Session /\ now \in Int
          /\ sessions'[u].user # NoName /\ now' <= sessions'[u].expiresAt
      BY <2>x, <2>y
    <2>a. ASSUME sessions'[u] = Cleaned[u], now <= now', now' \in Int
          PROVE  u \in Valid
      BY <2>0, <2>a DEF Valid, Present, Cleaned, Expired, NoSession, Session
    <2>b. ASSUME sessions'[u] \in {sessions[u], NoSession}, now <= now', now' \in Int
          PROVE  u \in Valid
      BY <2>0, <2>b DEF Valid, Present, NoSession, Session
    <2>1. CASE CreateRefused
      BY <2>0, <2>1, <2>a DEF CreateRefused
    <2>2. ASSUME NEW t \in Tokens, NEW n \in Names, Create(t, n)
          PROVE  u \in Valid
      <3>1. u # t
        BY <2>2 DEF Create, FreshDraw
      <3>2. sessions'[u] = Cleaned[u] /\ now <= now' /\ now' \in Int
        BY <2>0, <2>2, <3>1, CleanedType DEF Create
      <3> QED BY <2>a, <3>2
    <2>3. ASSUME NEW t \in Tokens, Get(t) PROVE u \in Valid
      <3>1. CASE u = t
        BY <2>0, <2>3, <3>1 DEF Get, Kept, Expired, Valid, Session
      <3>2. CASE u # t
        <4>1. sessions'[u] = Cleaned[u] /\ now <= now' /\ now' \in Int
          BY <2>0, <2>3, <3>2, CleanedType DEF Get
        <4> QED BY <2>a, <4>1
      <3> QED BY <3>1, <3>2
    <2>4. ASSUME NEW t \in Tokens, GetMissing(t) PROVE u \in Valid
      BY <2>0, <2>4, <2>a DEF GetMissing
    <2>5. ASSUME NEW t \in Tokens, Delete(t) PROVE u \in Valid
      BY <2>0, <2>5, <2>b DEF Delete, Deleted, TypeOK
    <2>6. ASSUME NEW n \in Names, RevokeUser(n) PROVE u \in Valid
      BY <2>0, <2>6, <2>b DEF RevokeUser, TypeOK
    <2>7. CASE Tick
      BY <2>0, <2>7, <2>b DEF Tick
    <2>8. CASE UNCHANGED vars
      BY <2>0, <2>8, <2>b DEF vars
    <2> QED BY <2>1, <2>2, <2>3, <2>4, <2>5, <2>6, <2>7, <2>8 DEF Next
  <1> QED BY <1>1, TypeCorrect, PTL DEF Spec, EndedStaysEnded

(* A login is refused only while Max sessions are inside their timeout:    *)
(* the sessions Create counts are those cleanup kept, which are the valid  *)
(* ones.                                                                   *)
THEOREM NoSlotHeldByExpired == Spec => RefusedOnlyWhenFull
  <1>1. TypeOK /\ [Next]_vars
          => [ret' = "limit" => Cardinality(Valid) >= Max]_vars
    <2> SUFFICES ASSUME TypeOK, Next, ret' = "limit"
                 PROVE  Cardinality(Valid) >= Max
      OBVIOUS
    <2>1. Kept = Valid
      BY DEF Kept, Valid, Expired, Present, TypeOK, Session
    <2>2. CreateRefused
      BY DEF Next, Create, Get, GetMissing, Delete, RevokeUser, Tick
    <2> QED BY <2>1, <2>2 DEF CreateRefused, LimitReached
  <1> QED BY <1>1, TypeCorrect, PTL DEF Spec, RefusedOnlyWhenFull

(* The tokens in the map were all handed out by Create.                    *)
Drawn == Present \subseteq issued

(* Whatever is in the map was drawn before: only Create adds a token.      *)
LEMMA PresentWasDrawn == Spec => []Drawn
  <1>1. Init => Drawn
    BY DEF Init, Drawn, Present, NoSession
  <1>2. TypeOK /\ Drawn /\ [Next]_vars => Drawn'
    <2> SUFFICES ASSUME TypeOK, Present \subseteq issued, [Next]_vars,
                        NEW u \in Tokens, sessions'[u].user # NoName
                 PROVE  u \in issued'
      BY DEF Drawn, Present
    <2>0. Kept \subseteq issued
      BY DEF Kept
    <2>a. ASSUME sessions'[u] = Cleaned[u] PROVE u \in issued
      BY <2>0, <2>a, CleanedType
    <2>b. ASSUME sessions'[u] \in {sessions[u], NoSession} PROVE u \in issued
      BY <2>b DEF Present, NoSession
    <2>1. CASE CreateRefused
      BY <2>1, <2>a DEF CreateRefused
    <2>2. ASSUME NEW t \in Tokens, NEW n \in Names, Create(t, n)
          PROVE  u \in issued'
      <3>1. u # t => sessions'[u] = Cleaned[u]
        BY <2>2, CleanedType DEF Create
      <3> QED BY <2>2, <2>a, <3>1 DEF Create
    <2>3. ASSUME NEW t \in Tokens, Get(t) PROVE u \in issued'
      <3>1. u # t => sessions'[u] = Cleaned[u]
        BY <2>3, CleanedType DEF Get
      <3> QED BY <2>0, <2>3, <2>a, <3>1 DEF Get
    <2>4. ASSUME NEW t \in Tokens, GetMissing(t) PROVE u \in issued'
      BY <2>4, <2>a DEF GetMissing
    <2>5. ASSUME NEW t \in Tokens, Delete(t) PROVE u \in issued'
      BY <2>5, <2>b DEF Delete, Deleted, TypeOK
    <2>6. ASSUME NEW n \in Names, RevokeUser(n) PROVE u \in issued'
      BY <2>6, <2>b DEF RevokeUser, TypeOK
    <2>7. CASE Tick
      BY <2>7, <2>b DEF Tick
    <2>8. CASE UNCHANGED vars
      BY <2>8, <2>b DEF vars
    <2> QED BY <2>1, <2>2, <2>3, <2>4, <2>5, <2>6, <2>7, <2>8 DEF Next
  <1> QED BY <1>1, <1>2, TypeCorrect, PTL DEF Spec

(* Create and Get end no session inside its idle timeout: cleanup leaves   *)
(* it alone, Get rewrites its deadline only, and the token Create draws is *)
(* not in the map.                                                         *)
THEOREM ValidSurvives == Spec => CleanupSparesValid
  <1>1. TypeOK /\ Drawn /\ [Next]_vars
          => [ret' \in {"session", "missing", "limit"} =>
                \A t \in Valid : sessions'[t].user = sessions[t].user]_vars
    <2> SUFFICES ASSUME TypeOK, Present \subseteq issued, Next,
                        ret' \in {"session", "missing", "limit"},
                        NEW u \in Valid
                 PROVE  sessions'[u].user = sessions[u].user
      BY DEF Drawn
    <2>0. u \in Tokens /\ u \in Kept /\ u \in issued
      BY DEF Kept, Valid, Expired, Present, TypeOK, Session
    <2>a. Cleaned[u] = sessions[u]
      BY <2>0 DEF Kept, Cleaned
    <2>1. CASE CreateRefused
      BY <2>1, <2>a DEF CreateRefused
    <2>2. ASSUME NEW t \in Tokens, NEW n \in Names, Create(t, n)
          PROVE  sessions'[u].user = sessions[u].user
      <3>1. u # t
        BY <2>0, <2>2 DEF Create, FreshDraw
      <3> QED BY <2>0, <2>2, <2>a, <3>1, CleanedType DEF Create
    <2>3. ASSUME NEW t \in Tokens, Get(t)
          PROVE  sessions'[u].user = sessions[u].user
      BY <2>0, <2>3, <2>a, CleanedType DEF Get, Dated
    <2>4. ASSUME NEW t \in Tokens, GetMissing(t)
          PROVE  sessions'[u].user = sessions[u].user
      BY <2>4, <2>a DEF GetMissing
    <2>5. ~ \E t \in Tokens : Delete(t)
      BY DEF Delete
    <2>6. ~ \E n \in Names : RevokeUser(n)
      BY DEF RevokeUser
    <2>7. ~ Tick
      BY DEF Tick
    <2> QED BY <2>1, <2>2, <2>3, <2>4, <2>5, <2>6, <2>7 DEF Next
  <1> QED BY <1>1, TypeCorrect, PresentWasDrawn, PTL
           DEF Spec, CleanupSparesValid

-----------------------------------------------------------------------------
(* The store implements the abstract table: each operation closes some     *)
(* sessions, or closes the expired ones and opens one, or changes nothing  *)
(* the table shows.                                                        *)
THEOREM Refinement == Spec => ImplementsTable
  <1> USE DEF TypeOK, Session
  <1>0. TypeOK => Table!Live = Present
    BY DEF Table!Live, Present
  <1>1. Init => Table!TableInit
    BY DEF Init, Table!TableInit, NoSession
  <1>2. TypeOK /\ Bounded /\ [Next]_vars => [Table!TableNext]_(Table!tableVars)
    <2> SUFFICES ASSUME TypeOK, Bounded, [Next]_vars
                 PROVE  Table!TableNext \/ UNCHANGED Table!tableVars
      OBVIOUS
    <2> DEFINE Gone == Present \ Kept
    <2>0. Gone \in SUBSET Table!Live /\ Kept \subseteq Present
      BY <1>0 DEF Kept
    <2>c. ASSUME NEW S \in SUBSET Table!Live, Table!Close(S)
          PROVE  Table!TableNext
      BY <2>c DEF Table!TableNext
    <2>d. [t \in Tokens |-> Cleaned[t].user] = Table!Without(Gone)
      BY CleanedType DEF Table!Without, Cleaned, Kept, Present, NoSession
    <2>e. ASSUME sessions' = Cleaned, UNCHANGED issued PROVE Table!TableNext
      BY <2>0, <2>c, <2>d, <2>e DEF Table!Close
    <2>1. CASE CreateRefused
      BY <2>1, <2>e DEF CreateRefused
    <2>2. ASSUME NEW t \in Tokens, NEW n \in Names, Create(t, n)
          PROVE  Table!TableNext
      <3>1. Table!Live \ Gone = Kept
        BY <1>0, <2>0
      <3>2. Cardinality(Kept) \in Nat
        BY <2>0, FS_Subset, FS_CardinalityType DEF Bounded
      <3>3. Table!Cardinality(Table!Live \ Gone) < Max
        <4>1. Table!Cardinality(Kept) = Cardinality(Kept)
          BY DEF Table!Cardinality, Cardinality
        <4>2. Cardinality(Kept) < Max
          BY <2>2, <3>2 DEF Create, LimitReached
        <4> QED BY <3>1, <4>1, <4>2
      <3>4. [u \in Tokens |-> sessions'[u].user]
              = [Table!Without(Gone) EXCEPT ![t] = n]
        <4>1. \A u \in Tokens :
                 sessions'[u].user = IF u = t THEN n ELSE Cleaned[u].user
          BY <2>2, CleanedType DEF Create, Dated
        <4>2. \A u \in Tokens : Table!Without(Gone)[u] = Cleaned[u].user
          BY <2>d
        <4>3. Table!Without(Gone)
                = [u \in Tokens |-> Table!Without(Gone)[u]]
          BY DEF Table!Without
        <4> QED BY <4>1, <4>2, <4>3
      <3>5. Table!Open(Gone, t, n)
        BY <2>2, <3>3, <3>4 DEF Create, FreshDraw, Table!Open
      <3> QED BY <2>0, <3>5 DEF Table!TableNext
    <2>3. ASSUME NEW t \in Tokens, Get(t) PROVE Table!TableNext
      <3>1. [u \in Tokens |-> sessions'[u].user] = Table!Without(Gone)
        <4>1. Cleaned[t].user = sessions[t].user
          BY <2>3 DEF Get, Kept, Cleaned
        <4>2. \A u \in Tokens : sessions'[u].user = Cleaned[u].user
          BY <2>3, <4>1, CleanedType DEF Get, Dated
        <4> QED BY <2>d, <4>2
      <3> QED BY <2>0, <2>3, <2>c, <3>1 DEF Get, Table!Close
    <2>4. ASSUME NEW t \in Tokens, GetMissing(t) PROVE Table!TableNext
      BY <2>4, <2>e DEF GetMissing
    <2>5. ASSUME NEW t \in Tokens, Delete(t) PROVE Table!TableNext
      <3>1. {t} \cap Present \in SUBSET Table!Live
        BY <1>0
      <3>2. [u \in Tokens |-> sessions'[u].user]
              = Table!Without({t} \cap Present)
        BY <2>5 DEF Delete, Deleted, Table!Without, Present, NoSession
      <3> QED BY <2>5, <2>c, <3>1, <3>2 DEF Delete, Table!Close
    <2>6. ASSUME NEW n \in Names, RevokeUser(n) PROVE Table!TableNext
      <3> DEFINE Mine == {u \in Tokens : sessions[u].user = n}
      <3>1. Mine \in SUBSET Table!Live
        BY <1>0 DEF Present
      <3>2. [u \in Tokens |-> sessions'[u].user] = Table!Without(Mine)
        BY <2>6 DEF RevokeUser, Table!Without, NoSession
      <3> QED BY <2>6, <2>c, <3>1, <3>2 DEF RevokeUser, Table!Close
    <2>7. CASE Tick
      BY <2>7 DEF Tick, Table!tableVars
    <2>8. CASE UNCHANGED vars
      BY <2>8 DEF vars, Table!tableVars
    <2> QED
      BY <2>1, <2>2, <2>3, <2>4, <2>5, <2>6, <2>7, <2>8 DEF Next
  <1> QED BY <1>1, <1>2, TypeCorrect, AlwaysBounded, PTL
           DEF Spec, ImplementsTable, Table!TableSpec

=============================================================================
