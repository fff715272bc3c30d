-------------------------- MODULE BindLimiterProofs -------------------------
(***************************************************************************)
(* Proofs about the bind limiter for any set of addresses, any limit and   *)
(* any window.                                                             *)
(*                                                                         *)
(* The buckets lose information (pruning forgets old attempts, sweeps drop *)
(* whole buckets), so the bound on attempts let through does not follow    *)
(* from the buckets alone.  The invariant relates them to the history: a   *)
(* bucket holds attempts of its key that were let through, and all of      *)
(* those that are still inside the window.                                 *)
(***************************************************************************)
EXTENDS BindLimiter, FiniteSetTheorems, TLAPS

USE LimiterAssumption

(* The attempts of k let through within the window that ends now.          *)
RecentGrants(k) == {g \in granted : g.key = k /\ Recent(g)}

History ==
    /\ \A g \in granted : g.ts <= now
    /\ \A k \in Keys : \A e \in entries[k] : e \in granted /\ e.key = k
    /\ \A k \in Keys : RecentGrants(k) \subseteq entries[k]

(* The bound, with the windows that started before time 0 as well, and     *)
(* with what makes the numbers numbers.                                    *)
Bounded ==
    \A k \in Keys, t \in Int : /\ IsFiniteSet(GrantedFrom(k, t))
                               /\ Cardinality(GrantedFrom(k, t)) <= Limit

(* What a call prunes its bucket to is exactly the recent grants.          *)
LEMMA KeptIsRecent ==
    ASSUME TypeOK, History, NEW k \in Keys
    PROVE  Kept(k) = RecentGrants(k)
  BY DEF History, Kept, RecentGrants, Recent, TypeOK

LEMMA SubsetBounded ==
    ASSUME NEW S, NEW T, NEW n \in Nat, IsFiniteSet(S), Cardinality(S) <= n,
           T \subseteq S
    PROVE  IsFiniteSet(T) /\ Cardinality(T) <= n
  <1>1. IsFiniteSet(T) /\ Cardinality(T) <= Cardinality(S)
    BY FS_Subset
  <1>2. Cardinality(S) \in Nat /\ Cardinality(T) \in Nat
    BY <1>1, FS_CardinalityType
  <1> QED BY <1>1, <1>2

-----------------------------------------------------------------------------
LEMMA MapEntriesType ==
    ASSUME TypeOK
    PROVE  /\ MapEntries \in [Keys -> SUBSET Grant]
           /\ \A k \in Keys : /\ MapEntries[k] \subseteq entries[k]
                              /\ Kept(k) \subseteq MapEntries[k]
           /\ MapBuckets \subseteq buckets
           /\ \A k \in Keys \ MapBuckets : MapEntries[k] = {}
  <1>1. \A k \in Keys : Kept(k) \in SUBSET Grant /\ Kept(k) \subseteq entries[k]
    BY DEF TypeOK, Kept
  <1>2. \A k \in Keys \ SweptBuckets : Kept(k) = {}
    BY DEF TypeOK, Kept, SweptBuckets
  <1> QED BY <1>1, <1>2 DEF TypeOK, MapEntries, MapBuckets, SweptBuckets

(* Every state is well typed, and a key without a bucket has no entries.   *)
THEOREM TypeCorrect == Spec => []TypeOK
  <1>1. Init => TypeOK
    BY DEF Init, TypeOK
  <1>2. TypeOK /\ [Next]_vars => TypeOK'
    <2> SUFFICES ASSUME TypeOK, [Next]_vars PROVE TypeOK'
      OBVIOUS
    <2>1. ASSUME NEW k \in Keys, NEW added \in SUBSET Grant, Prune(k, added)
          PROVE  /\ entries' \in [Keys -> SUBSET Grant]
                 /\ \A l \in Keys \ buckets' : entries'[l] = {}
                 /\ buckets' \in SUBSET Keys
                 /\ nextSweep' \in Int
                 /\ now' \in 0..MaxTime
                 /\ calls' \in 0..MaxCalls
                 /\ lastCall' \in 0..MaxTime
      <3>1. Kept(k) \cup added \in SUBSET Grant
        BY DEF TypeOK, Kept
      <3>2. /\ entries' \in [Keys -> SUBSET Grant]
            /\ \A l \in Keys \ buckets' : entries'[l] = {}
            /\ buckets' \in SUBSET Keys
        BY <2>1, <3>1, MapEntriesType DEF Prune, TypeOK
      <3> QED BY <2>1, <3>2 DEF Prune, TypeOK
    <2>2. ASSUME NEW k \in Keys, Allow(k) PROVE TypeOK'
      <3>1. Attempt(k) \in Grant
        BY <2>2 DEF Allow, Prune, Attempt, Grant, TypeOK
      <3> QED BY <2>1, <2>2, <3>1 DEF Allow, TypeOK
    <2>3. ASSUME NEW k \in Keys, Refuse(k) PROVE TypeOK'
      BY <2>1, <2>3 DEF Refuse, TypeOK
    <2>4. CASE Tick
      BY <2>4 DEF Tick, TypeOK
    <2>5. CASE UNCHANGED vars
      BY <2>5 DEF vars, TypeOK
    <2> QED BY <2>2, <2>3, <2>4, <2>5 DEF Next
  <1> QED BY <1>1, <1>2, PTL DEF Spec

-----------------------------------------------------------------------------
(* Pruning and sweeping forget only attempts that are out of the window.   *)
THEOREM HistoryKept == Spec => []History
  <1>1. Init => History
    BY DEF Init, History, RecentGrants
  <1>2. TypeOK /\ TypeOK' /\ History /\ [Next]_vars => History'
    <2> SUFFICES ASSUME TypeOK, TypeOK', History, [Next]_vars PROVE History'
      OBVIOUS
    <2>0. \A k \in Keys : Kept(k) = RecentGrants(k)
      BY KeptIsRecent
    <2>1. ASSUME NEW k \in Keys, NEW added, Prune(k, added),
                 granted' = granted \cup added,
                 \A g \in added : g.key = k /\ g.ts = now
          PROVE  History'
      <3>1. \A l \in Keys : entries'[l] = IF l = k THEN Kept(k) \cup added
                                                   ELSE MapEntries[l]
        BY <2>1, MapEntriesType DEF Prune
      <3>2. \A l \in Keys :
               RecentGrants(l)' \subseteq RecentGrants(l) \cup
                                          {g \in added : l = k}
        BY <2>1 DEF RecentGrants, Recent, Prune
      <3>3. \A l \in Keys : RecentGrants(l)' \subseteq entries'[l]
        <4>1. \A l \in Keys : RecentGrants(l) \subseteq MapEntries[l]
          BY <2>0, MapEntriesType
        <4> QED BY <2>0, <3>1, <3>2, <4>1
      <3>4. \A l \in Keys : \A e \in entries'[l] : e \in granted' /\ e.key = l
        <4>1. \A l \in Keys : \A e \in entries[l] : e \in granted /\ e.key = l
          BY DEF History
        <4>2. entries'[k] \subseteq entries[k] \cup added
          BY <3>1 DEF Kept
        <4>3. \A l \in Keys : l # k => entries'[l] \subseteq entries[l]
          BY <3>1, MapEntriesType
        <4> QED BY <2>1, <4>1, <4>2, <4>3
      <3>5. \A g \in granted' : g.ts <= now'
        BY <2>1 DEF Prune, History, TypeOK
      <3> QED BY <3>3, <3>4, <3>5 DEF History
    <2>2. ASSUME NEW k \in Keys, Allow(k) PROVE History'
      BY <2>1, <2>2 DEF Allow, Attempt
    <2>3. ASSUME NEW k \in Keys, Refuse(k) PROVE History'
      <3>1. granted' = granted \cup {}
        BY <2>3 DEF Refuse
      <3> QED BY <2>1, <2>3, <3>1 DEF Refuse
    <2>4. CASE Tick
      BY <2>4 DEF Tick, History, RecentGrants, Recent, TypeOK, Grant
    <2>5. CASE UNCHANGED vars
      BY <2>5 DEF vars, History, RecentGrants, Recent
    <2> QED BY <2>2, <2>3, <2>4, <2>5 DEF Next
  <1> QED BY <1>1, <1>2, TypeCorrect, PTL DEF Spec

-----------------------------------------------------------------------------
(* One attempt more: the attempts of k in any window that contains the     *)
(* present are, but for the new one, attempts still inside the window that *)
(* ends now, of which the limiter found fewer than Limit.                  *)
LEMMA BoundedStep ==
    ASSUME TypeOK, TypeOK', History, Bounded, NEW k \in Keys, Allow(k)
    PROVE  Bounded'
  <1>1. SUFFICES ASSUME NEW l \in Keys, NEW t \in Int
                 PROVE  /\ IsFiniteSet(GrantedFrom(l, t)')
                        /\ Cardinality(GrantedFrom(l, t)') <= Limit
    BY DEF Bounded
  <1>2. Kept(k) = RecentGrants(k)
    BY KeptIsRecent
  <1>3. \A g \in granted : g.ts <= now /\ g.ts \in Int
    BY DEF History, TypeOK, Grant
  <1>4. Attempt(k).key = k /\ Attempt(k).ts = now /\ now \in Int
    BY DEF Attempt, TypeOK
  <1>5. GrantedFrom(l, t)' \subseteq GrantedFrom(l, t) \cup {Attempt(k)}
    BY DEF Allow, GrantedFrom
  <1>6. CASE l = k /\ t <= now /\ now < t + Window
    <2>1. GrantedFrom(l, t) \subseteq Kept(k)
      BY <1>2, <1>3, <1>4, <1>6 DEF GrantedFrom, RecentGrants, Recent
    <2>2. Kept(k) \subseteq GrantedFrom(k, now - Window + 1)
      BY <1>2, <1>3, <1>4 DEF GrantedFrom, RecentGrants, Recent
    <2>3. IsFiniteSet(GrantedFrom(k, now - Window + 1))
      BY <1>4 DEF Bounded
    <2>4. IsFiniteSet(Kept(k)) /\ Cardinality(Kept(k)) \in Nat
      BY <2>2, <2>3, FS_Subset, FS_CardinalityType
    <2>5. Cardinality(Kept(k)) < Limit
      BY <2>4 DEF Allow, Full
    <2>6. /\ IsFiniteSet(Kept(k) \cup {Attempt(k)})
          /\ \/ Cardinality(Kept(k) \cup {Attempt(k)}) = Cardinality(Kept(k))
             \/ Cardinality(Kept(k) \cup {Attempt(k)}) = Cardinality(Kept(k)) + 1
      BY <2>4, FS_AddElement
    <2>7. Cardinality(Kept(k) \cup {Attempt(k)}) <= Limit
      BY <2>4, <2>5, <2>6
    <2>8. GrantedFrom(l, t)' \subseteq Kept(k) \cup {Attempt(k)}
      BY <1>5, <2>1
    <2> QED BY <2>6, <2>7, <2>8, SubsetBounded
  <1>7. CASE ~(l = k /\ t <= now /\ now < t + Window)
    <2>1. GrantedFrom(l, t)' \subseteq GrantedFrom(l, t)
      BY <1>4, <1>5, <1>7 DEF GrantedFrom
    <2>2. /\ IsFiniteSet(GrantedFrom(l, t))
          /\ Cardinality(GrantedFrom(l, t)) <= Limit
      BY DEF Bounded
    <2> QED BY <2>1, <2>2, SubsetBounded
  <1> QED BY <1>6, <1>7

(* The bound in the form the induction needs.                              *)
THEOREM AlwaysBounded == Spec => []Bounded
  <1>1. Init => Bounded
    <2> SUFFICES ASSUME Init, NEW k \in Keys, NEW t \in Int
                 PROVE  /\ IsFiniteSet(GrantedFrom(k, t))
                        /\ Cardinality(GrantedFrom(k, t)) <= Limit
      BY DEF Bounded
    <2>1. GrantedFrom(k, t) = {}
      BY DEF Init, GrantedFrom
    <2> QED BY <2>1, FS_EmptySet
  <1>2. TypeOK /\ TypeOK' /\ History /\ Bounded /\ [Next]_vars => Bounded'
    <2> SUFFICES ASSUME TypeOK, TypeOK', History, Bounded, [Next]_vars
                 PROVE  Bounded'
      OBVIOUS
    <2>1. ASSUME NEW k \in Keys, Allow(k) PROVE Bounded'
      BY <2>1, BoundedStep
    <2>2. CASE UNCHANGED granted
      BY <2>2 DEF Bounded, GrantedFrom
    <2> QED BY <2>1, <2>2 DEF Next, Refuse, Tick, vars
  <1> QED BY <1>1, <1>2, TypeCorrect, HistoryKept, PTL DEF Spec

(* The rate limit: no stretch of time as long as the window ever sees more *)
(* than Limit bind attempts of one address let through.                    *)
THEOREM RateLimited == Spec => []WindowBound
  <1>1. Bounded => WindowBound
    BY DEF Bounded, WindowBound
  <1> QED BY <1>1, AlwaysBounded, PTL

(* The limiter refuses an attempt only when Limit attempts of the same     *)
(* address went through within the last window.                            *)
THEOREM RefusalsJustified == Spec => []RefusedOnlyAtLimit
  <1>1. Init => RefusedOnlyAtLimit
    BY DEF Init, RefusedOnlyAtLimit
  <1>2. TypeOK /\ History /\ RefusedOnlyAtLimit /\ [Next]_vars
          => RefusedOnlyAtLimit'
    <2> SUFFICES ASSUME TypeOK, History, RefusedOnlyAtLimit, [Next]_vars
                 PROVE  RefusedOnlyAtLimit'
      OBVIOUS
    <2>1. ASSUME NEW k \in Keys, Refuse(k) PROVE RefusedOnlyAtLimit'
      <3>1. Cardinality(RecentGrants(k)) >= Limit
        BY <2>1, KeptIsRecent DEF Refuse, Full
      <3>2. refused' = {k} /\ granted' = granted /\ now' = now
        BY <2>1 DEF Refuse, Prune
      <3>3. RecentGrants(k)
              = {g \in granted' : g.key = k /\ now' - g.ts < Window}
        BY <3>2 DEF RecentGrants, Recent
      <3> QED BY <3>1, <3>2, <3>3 DEF RefusedOnlyAtLimit
    <2>2. CASE refused' = {}
      BY <2>2 DEF RefusedOnlyAtLimit
    <2>3. CASE UNCHANGED vars
      BY <2>3 DEF vars, RefusedOnlyAtLimit
    <2> QED BY <2>1, <2>2, <2>3 DEF Next, Allow, Tick
  <1> QED BY <1>1, <1>2, TypeCorrect, HistoryKept, PTL DEF Spec

-----------------------------------------------------------------------------
(* What keeps the map small: the next sweep is at most a window away, and  *)
(* every bucket has an attempt that will be less than two windows old by   *)
(* then.                                                                   *)
Swept ==
    /\ nextSweep <= lastCall + Window
    /\ lastCall <= now
    /\ buckets # {} => lastCall <= nextSweep
    /\ \A k \in buckets : \E e \in entries[k] : nextSweep - e.ts < 2 * Window

(* Buckets of addresses that stopped trying are dropped: at every call,    *)
(* each bucket left in the map has an attempt less than two windows old.   *)
THEOREM AddressesForgotten == Spec => []BucketsReclaimed
  <1>1. Init => Swept
    BY DEF Init, Swept
  <1>2. TypeOK /\ TypeOK' /\ Swept /\ [Next]_vars => Swept'
    <2> SUFFICES ASSUME TypeOK, TypeOK', Swept, [Next]_vars PROVE Swept'
      OBVIOUS
    <2>1. ASSUME NEW k \in Keys, NEW added \in SUBSET Grant, Prune(k, added),
                 \E e \in Kept(k) \cup added : now - e.ts < Window
          PROVE  Swept'
      <3>1. \A l \in Keys : entries'[l] = IF l = k THEN Kept(k) \cup added
                                                   ELSE MapEntries[l]
        BY <2>1, MapEntriesType DEF Prune
      <3>2. /\ nextSweep' <= now + Window /\ now <= nextSweep'
            /\ lastCall' = now /\ now' = now /\ nextSweep' \in Int /\ now \in Int
        BY <2>1 DEF Prune, SweepDue, Swept, TypeOK
      <3>3. ASSUME NEW l \in buckets', l # k
            PROVE  \E e \in entries'[l] : nextSweep' - e.ts < 2 * Window
        <4>1. l \in MapBuckets /\ l \in Keys /\ entries'[l] = MapEntries[l]
          BY <2>1, <3>1, <3>3 DEF Prune, TypeOK
        <4>2. CASE SweepDue
          <5>1. PICK e \in Kept(l) : now - e.ts < Window
            BY <4>1, <4>2 DEF MapBuckets, SweptBuckets, Kept, Recent
          <5>2. e \in entries'[l] /\ e.ts \in Int
            BY <4>1, <4>2, <5>1 DEF MapEntries, Kept, TypeOK, Grant
          <5>3. nextSweep' - e.ts < 2 * Window
            BY <3>2, <5>1, <5>2
          <5> QED BY <5>2, <5>3
        <4>3. CASE ~SweepDue
          BY <2>1, <4>1, <4>3 DEF MapBuckets, MapEntries, Swept, Prune
        <4> QED BY <4>2, <4>3
      <3>4. \E e \in entries'[k] : nextSweep' - e.ts < 2 * Window
        <4>1. PICK e \in Kept(k) \cup added : now - e.ts < Window
          BY <2>1
        <4>2. e \in entries'[k] /\ e.ts \in Int
          BY <2>1, <3>1, <4>1 DEF Kept, TypeOK, Grant
        <4>3. nextSweep' - e.ts < 2 * Window
          BY <3>2, <4>1, <4>2
        <4> QED BY <4>2, <4>3
      <3> QED BY <3>2, <3>3, <3>4 DEF Swept
    <2>2. ASSUME NEW k \in Keys, Allow(k) PROVE Swept'
      <3>1. Attempt(k) \in Grant
        BY <2>2 DEF Allow, Prune, Attempt, Grant, TypeOK
      <3>2. now - Attempt(k).ts < Window
        BY DEF Attempt, TypeOK
      <3> QED BY <2>1, <2>2, <3>1, <3>2 DEF Allow
    <2>3. ASSUME NEW k \in Keys, Refuse(k) PROVE Swept'
      <3>1. Kept(k) # {}
        BY <2>3, FS_EmptySet DEF Refuse, Full
      <3>2. \E e \in Kept(k) : now - e.ts < Window
        BY <3>1 DEF Kept, Recent
      <3> QED BY <2>1, <2>3, <3>2 DEF Refuse
    <2>4. CASE Tick
      BY <2>4 DEF Tick, Swept, TypeOK
    <2>5. CASE UNCHANGED vars
      BY <2>5 DEF vars, Swept
    <2> QED BY <2>2, <2>3, <2>4, <2>5 DEF Next
  <1>3. TypeOK /\ Swept => BucketsReclaimed
    <2> SUFFICES ASSUME TypeOK, Swept, NEW k \in buckets
                 PROVE  \E e \in entries[k] : lastCall - e.ts < 2 * Window
      BY DEF BucketsReclaimed
    <2>1. PICK e \in entries[k] : nextSweep - e.ts < 2 * Window
      BY DEF Swept
    <2>2. e.ts \in Int /\ lastCall <= nextSweep /\ lastCall \in Int /\ nextSweep \in Int
      BY DEF Swept, TypeOK, Grant
    <2> QED BY <2>1, <2>2
  <1> QED BY <1>1, <1>2, <1>3, TypeCorrect, PTL DEF Spec

-----------------------------------------------------------------------------
(* What is left of a bucket is a set with a size, and at most Limit big.   *)
Sized == \A k \in Keys : /\ IsFiniteSet(Kept(k))
                          /\ Cardinality(Kept(k)) \in 0..Limit

LEMMA KeptSize == TypeOK /\ History /\ Bounded => Sized
  <1> SUFFICES ASSUME TypeOK, History, Bounded, NEW k \in Keys
               PROVE  /\ IsFiniteSet(Kept(k))
                      /\ Cardinality(Kept(k)) \in 0..Limit
    BY DEF Sized
  <1>1. now - Window + 1 \in Int
    BY DEF TypeOK
  <1>2. Kept(k) = RecentGrants(k)
    BY KeptIsRecent
  <1>3. \A g \in granted : g.ts <= now /\ g.ts \in Int
    BY DEF History, TypeOK, Grant
  <1>4. Kept(k) \subseteq GrantedFrom(k, now - Window + 1)
    BY <1>2, <1>3 DEF GrantedFrom, RecentGrants, Recent, TypeOK
  <1>5. /\ IsFiniteSet(GrantedFrom(k, now - Window + 1))
        /\ Cardinality(GrantedFrom(k, now - Window + 1)) <= Limit
    BY <1>1 DEF Bounded
  <1>6. IsFiniteSet(Kept(k)) /\ Cardinality(Kept(k)) <= Limit
    BY <1>4, <1>5, SubsetBounded
  <1> QED BY <1>6, FS_CardinalityType

(* While the clock stands still, no bucket but that of the caller changes. *)
LEMMA OthersKept ==
    ASSUME TypeOK, NEW k \in Keys, NEW added, Prune(k, added),
           \A e \in added : e.ts = now
    PROVE  /\ Kept(k)' = Kept(k) \cup added
           /\ \A l \in Keys : l # k => Kept(l)' = Kept(l)
  <1>1. \A l \in Keys : entries'[l] = IF l = k THEN Kept(k) \cup added
                                               ELSE MapEntries[l]
    BY MapEntriesType DEF Prune
  <1>2. now' = now /\ now \in Int
    BY DEF Prune, TypeOK
  <1>3. \A e : Recent(e)' <=> Recent(e)
    BY <1>2 DEF Recent
  <1>4. \A e \in added : Recent(e)
    BY <1>2 DEF Recent
  <1>5. Kept(k)' = Kept(k) \cup added
    BY <1>1, <1>3, <1>4 DEF Kept
  <1>6. \A l \in Keys : l # k => Kept(l)' = Kept(l)
    BY <1>1, <1>3, MapEntriesType DEF Kept
  <1> QED BY <1>5, <1>6

(* The limiter with its clock, buckets and sweeps implements the quota.    *)
THEOREM Refinement == Spec => ImplementsQuota
  <1> DEFINE size == [k \in Keys |-> Cardinality(Kept(k))]
  <1>1. Init => Budget!QuotaInit
    <2> SUFFICES ASSUME Init PROVE size = [k \in Keys |-> 0]
      BY DEF Budget!QuotaInit
    <2>1. \A k \in Keys : Kept(k) = {}
      BY DEF Init, Kept
    <2> QED BY <2>1, FS_EmptySet
  <1>2. TypeOK /\ Sized /\ Sized' /\ [Next]_vars => [Budget!QuotaNext]_size
    <2> SUFFICES ASSUME TypeOK, Sized, Sized', [Next]_vars
                 PROVE  Budget!QuotaNext \/ size' = size
      OBVIOUS
    <2>1. \A k \in Keys : IsFiniteSet(Kept(k)) /\ Cardinality(Kept(k)) \in 0..Limit
      BY DEF Sized
    <2>2. \A k \in Keys : Cardinality(Kept(k)') \in 0..Limit
      BY DEF Sized
    <2>3. ASSUME NEW k \in Keys, Allow(k) PROVE Budget!QuotaNext \/ size' = size
      <3>1. /\ Kept(k)' = Kept(k) \cup {Attempt(k)}
            /\ \A l \in Keys : l # k => Kept(l)' = Kept(l)
        BY <2>3, OthersKept DEF Allow, Attempt
      <3>2. \/ Cardinality(Kept(k)') = Cardinality(Kept(k))
            \/ Cardinality(Kept(k)') = Cardinality(Kept(k)) + 1
        BY <2>1, <3>1, FS_AddElement
      <3>3. CASE Cardinality(Kept(k)') = Cardinality(Kept(k))
        BY <3>1, <3>3
      <3>4. CASE Cardinality(Kept(k)') = Cardinality(Kept(k)) + 1
        <4>1. ~Budget!Spent(k)
          BY <2>3 DEF Allow, Full, Budget!Spent
        <4>2. size' = [size EXCEPT ![k] = @ + 1]
          BY <3>1, <3>4
        <4> QED BY <4>1, <4>2 DEF Budget!QuotaNext, Budget!Grant
      <3> QED BY <3>2, <3>3, <3>4
    <2>4. ASSUME NEW k \in Keys, Refuse(k) PROVE size' = size
      BY <2>4, OthersKept DEF Refuse
    <2>5. CASE Tick
      <3>1. ASSUME NEW k \in Keys PROVE Cardinality(Kept(k)') <= Cardinality(Kept(k))
        <4>1. Kept(k)' \subseteq Kept(k)
          BY <2>5 DEF Tick, Kept, Recent, TypeOK, Grant
        <4> QED BY <2>1, <4>1, FS_Subset
      <3> QED BY <2>2, <3>1 DEF Budget!QuotaNext, Budget!Age
    <2>6. CASE UNCHANGED vars
      BY <2>6 DEF vars, Kept, Recent
    <2> QED BY <2>3, <2>4, <2>5, <2>6 DEF Next
  <1> QED BY <1>1, <1>2, KeptSize, TypeCorrect, HistoryKept, AlwaysBounded, PTL
          DEF Spec, ImplementsQuota, Budget!QuotaSpec

=============================================================================
