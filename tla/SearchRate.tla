----------------------------- MODULE SearchRate -----------------------------
(***************************************************************************)
(* The search limiter of one LDAP connection: rateCounter in               *)
(* internal/ldapserver/server.go.  The connection's goroutine is its only  *)
(* caller.  It counts in consecutive windows of a second, each of which    *)
(* starts with the first search after the previous one has passed.         *)
(***************************************************************************)
EXTENDS Integers, FiniteSets

CONSTANTS
    Second,     \* ticks in a second
    Limit,      \* searches per window (50 in the program)
    MaxTime,    \* bound on the clock
    MaxCalls    \* bound on the searches

ASSUME RateAssumption ==
    /\ Second \in Nat \ {0}
    /\ Limit \in Nat \ {0}
    /\ MaxTime \in Nat
    /\ MaxCalls \in Nat

VARIABLES
    windowStart,    \* before the first search: the zero time, long past
    count,
    now,            \* the clock
    granted,        \* history: every search let through
    calls,          \* history: the number of searches
    refused         \* history: the last step refused a search

vars == <<windowStart, count, now, granted, calls, refused>>

Grant == [ts : 0..MaxTime, serial : 1..MaxCalls]

TypeOK ==
    /\ windowStart \in {-Second} \cup 0..MaxTime
    /\ count \in 0..Limit
    /\ now \in 0..MaxTime
    /\ granted \in SUBSET Grant
    /\ calls \in 0..MaxCalls
    /\ refused \in BOOLEAN

Init ==
    /\ windowStart = -Second
    /\ count = 0
    /\ now = 0
    /\ granted = {}
    /\ calls = 0
    /\ refused = FALSE

-----------------------------------------------------------------------------
(* Fault: a new window opens as soon as a tick has passed.                 *)
WindowOverEarly == now > windowStart
(* Fault: a window is never over once one has been opened.                 *)
WindowOverNever == windowStart = -Second
WindowOver == now - windowStart >= Second

(* The state the limit is checked in: a new window, if the last is over.   *)
Start == IF WindowOver THEN now ELSE windowStart
Count == IF WindowOver THEN 0 ELSE count

Attempt == [ts |-> now, serial |-> calls + 1]

(* Fault: the limit is compared with > instead of >=.                      *)
SpentOffByOne == Count > Limit
Spent == Count >= Limit

Allow ==
    /\ calls < MaxCalls
    /\ ~Spent
    /\ windowStart' = Start
    /\ count' = Count + 1
    /\ granted' = granted \cup {Attempt}
    /\ calls' = calls + 1
    /\ refused' = FALSE
    /\ UNCHANGED now

Refuse ==
    /\ calls < MaxCalls
    /\ Spent
    /\ windowStart' = Start
    /\ count' = Count
    /\ calls' = calls + 1
    /\ refused' = TRUE
    /\ UNCHANGED <<now, granted>>

Tick ==
    /\ now < MaxTime
    /\ now' = now + 1
    /\ refused' = FALSE
    /\ UNCHANGED <<windowStart, count, granted, calls>>

Next == Allow \/ Refuse \/ Tick

Spec == Init /\ [][Next]_vars

-----------------------------------------------------------------------------
(* The searches let through in the second that starts at t.                *)
InSecond(t) == {g \in granted : t <= g.ts /\ g.ts < t + Second}

(* What a counter of consecutive windows can promise: a burst at the end   *)
(* of one window and another at the start of the next put fewer than       *)
(* twice Limit searches into one second, and never more.                   *)
BurstBound ==
    \A t \in 0..MaxTime : Cardinality(InSecond(t)) <= 2 * Limit - 1

(* A search is refused only if Limit searches of this connection were let  *)
(* through within the last second.                                         *)
RefusedOnlyAtLimit ==
    refused => Cardinality({g \in granted : now - g.ts < Second}) >= Limit

(* To its caller the counter is a quota: a search counts until the window  *)
(* it fell into is over, and the opening of a window, which happens inside *)
(* the next call, is not visible before that call.                         *)
Budget == INSTANCE Quota WITH
             Keys <- {"searches"}, recent <- [k \in {"searches"} |-> Count]
ImplementsQuota == Budget!QuotaSpec

=============================================================================
