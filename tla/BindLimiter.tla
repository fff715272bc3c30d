----------------------------- MODULE BindLimiter ----------------------------
(***************************************************************************)
(* The per-address limiter of LDAP bind attempts: windowLimiter in         *)
(* internal/ldapserver/server.go.  One mutex makes each call of Allow one  *)
(* action.  A bucket holds the times of the attempts let through; a sweep, *)
(* run by some call at most once per window, drops the buckets whose every *)
(* time is too old, so that addresses seen once do not pile up.            *)
(*                                                                         *)
(* Two attempts in one clock tick are two elements of the slice, so each   *)
(* entry here carries its key and the serial number of its call.           *)
(***************************************************************************)
EXTENDS Integers, FiniteSets

CONSTANTS
    Keys,       \* source addresses
    Window,     \* the window, in ticks (10 seconds in the program)
    Limit,      \* attempts let through per window (3 in the program)
    MaxTime,    \* bound on the clock
    MaxCalls    \* bound on the calls of Allow

ASSUME LimiterAssumption ==
    /\ Window \in Nat \ {0}
    /\ Limit \in Nat \ {0}
    /\ MaxTime \in Nat
    /\ MaxCalls \in Nat

VARIABLES
    entries,    \* entries[k]: the attempts in the bucket of k
    buckets,    \* the keys of the map
    nextSweep,  \* before the first call: the zero time, earlier than any
    now,        \* the clock
    granted,    \* history: every attempt let through
    calls,      \* history: the number of calls
    lastCall,   \* history: when Allow was last called
    refused     \* history: the keys the last step refused ({} or {k})

vars == <<entries, buckets, nextSweep, now, granted, calls, lastCall, refused>>

Grant == [key : Keys, ts : 0..MaxTime, serial : 1..MaxCalls]

TypeOK ==
    /\ entries \in [Keys -> SUBSET Grant]
    /\ \A k \in Keys \ buckets : entries[k] = {}
    /\ buckets \in SUBSET Keys
    /\ nextSweep \in Int
    /\ now \in 0..MaxTime
    /\ granted \in SUBSET Grant
    /\ calls \in 0..MaxCalls
    /\ lastCall \in 0..MaxTime
    /\ refused \in SUBSET Keys

Init ==
    /\ entries = [k \in Keys |-> {}]
    /\ buckets = {}
    /\ nextSweep = -1
    /\ now = 0
    /\ granted = {}
    /\ calls = 0
    /\ lastCall = 0
    /\ refused = {}

-----------------------------------------------------------------------------
(* Fault: an attempt exactly one window old still counts.                  *)
RecentClosed(e) == now - e.ts <= Window
(* Fault: attempts are forgotten a tick early.                             *)
RecentShort(e) == now - e.ts < Window - 1
Recent(e) == now - e.ts < Window

(* Fault: the sweep never comes due after the first call.                  *)
SweepOnce == nextSweep = -1
SweepDue == now > nextSweep

Kept(k) == {e \in entries[k] : Recent(e)}

(* sweepLocked                                                             *)
(* Fault: emptied buckets stay in the map.                                 *)
SweptNone == buckets
SweptBuckets == {k \in buckets : Kept(k) # {}}

(* The map after the sweep, if one is due.                                 *)
MapEntries == IF SweepDue THEN [k \in Keys |-> Kept(k)] ELSE entries
MapBuckets == IF SweepDue THEN SweptBuckets ELSE buckets

(* Fault: one attempt too many passes the comparison.                      *)
FullOffByOne(k) == Cardinality(Kept(k)) > Limit
Full(k) == Cardinality(Kept(k)) >= Limit

(* What every call does: sweep if due, and prune the bucket of its key.    *)
Prune(k, added) ==
    /\ calls < MaxCalls
    /\ calls' = calls + 1
    /\ lastCall' = now
    /\ nextSweep' = IF SweepDue THEN now + Window ELSE nextSweep
    /\ entries' = [MapEntries EXCEPT ![k] = Kept(k) \cup added]
    /\ buckets' = MapBuckets \cup {k}
    /\ UNCHANGED now

(* Fault: the time the attempt expires is stored for the time it was made. *)
AttemptExpiry(k) == [key |-> k, ts |-> now + Window, serial |-> calls + 1]
Attempt(k) == [key |-> k, ts |-> now, serial |-> calls + 1]

Allow(k) ==
    /\ ~Full(k)
    /\ Prune(k, {Attempt(k)})
    /\ granted' = granted \cup {Attempt(k)}
    /\ refused' = {}

Refuse(k) ==
    /\ Full(k)
    /\ Prune(k, {})
    /\ refused' = {k}
    /\ UNCHANGED granted

Tick ==
    /\ now < MaxTime
    /\ now' = now + 1
    /\ refused' = {}
    /\ UNCHANGED <<entries, buckets, nextSweep, granted, calls, lastCall>>

Next == (\E k \in Keys : Allow(k) \/ Refuse(k)) \/ Tick

Spec == Init /\ [][Next]_vars

-----------------------------------------------------------------------------
(* The attempts of k let through at the times [t, t + Window).             *)
GrantedFrom(k, t) ==
    {g \in granted : g.key = k /\ t <= g.ts /\ g.ts < t + Window}

(* Whatever the sweeps and the ticks, no stretch of time as long as the    *)
(* window sees more than Limit attempts of one address let through.        *)
WindowBound ==
    \A k \in Keys, t \in 0..MaxTime : Cardinality(GrantedFrom(k, t)) <= Limit

(* An attempt is refused only if Limit attempts of the same address were   *)
(* let through within the last window: refused attempts do not count, and  *)
(* no other address's attempts do.                                         *)
RefusedOnlyAtLimit ==
    \A k \in refused :
        Cardinality({g \in granted : g.key = k /\ now - g.ts < Window}) >= Limit

(* Addresses do not accumulate: at every call, each bucket in the map      *)
(* holds an attempt less than two windows old.                             *)
BucketsReclaimed ==
    \A k \in buckets : \E e \in entries[k] : lastCall - e.ts < 2 * Window

(* To its caller the limiter is a quota per address: the sweep, which runs *)
(* in a call for some address and prunes the buckets of all, never makes a *)
(* difference to what another address is allowed.                          *)
Budget == INSTANCE Quota WITH
             recent <- [k \in Keys |-> Cardinality(Kept(k))]
ImplementsQuota == Budget!QuotaSpec

=============================================================================
