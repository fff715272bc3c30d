------------------------------ MODULE Sessions ------------------------------
(***************************************************************************)
(* The session store of the web UI, internal/session/store.go.  Every      *)
(* operation runs under one mutex, so each is one action; but Create and   *)
(* Get read the clock twice, once to drop expired sessions and once to     *)
(* date the session they return, and time may pass between the readings.   *)
(***************************************************************************)
EXTENDS Integers, FiniteSets

CONSTANTS Tokens, Names, NoName, Max,
    Timeout,    \* the idle timeout (15 minutes in the program)
    MaxTime     \* bound on the clock

ASSUME SessionsAssumption ==
    /\ NoName \notin Names
    /\ Max \in Nat
    /\ Timeout \in Nat
    /\ MaxTime \in Nat

VARIABLES
    sessions,   \* sessions[t]: [user, expiresAt]; user is NoName when absent
    issued,     \* tokens drawn so far (rand.Read never repeats one)
    now,        \* the clock: time.Now() with its monotonic reading
    ret         \* what the last call returned

vars == <<sessions, issued, now, ret>>

Session == [user : Names \cup {NoName}, expiresAt : Nat]
NoSession == [user |-> NoName, expiresAt |-> 0]
Results == {"none", "session", "missing", "limit"}

TypeOK ==
    /\ sessions \in [Tokens -> Session]
    /\ \A t \in Tokens : sessions[t].user = NoName => sessions[t] = NoSession
    /\ issued \subseteq Tokens
    /\ now \in 0..MaxTime
    /\ ret \in Results

Present == {t \in Tokens : sessions[t].user # NoName}

(* What a call of Get made now would return a session for.                 *)
Valid == {t \in Present : now <= sessions[t].expiresAt}

Init ==
    /\ sessions = [t \in Tokens |-> NoSession]
    /\ issued = {}
    /\ now = 0
    /\ ret = "none"

-----------------------------------------------------------------------------
(* Fault: the boundary instant already counts as expired.                  *)
ExpiredAtDeadline(s) == now >= s.expiresAt
(* Fault: Create and Get do not drop expired sessions first.               *)
ExpiredNever(s) == FALSE
Expired(s) == now > s.expiresAt

(* cleanupLocked                                                           *)
Cleaned == [t \in Tokens |-> IF Expired(sessions[t]) THEN NoSession
                                                     ELSE sessions[t]]
Kept == {t \in Present : ~Expired(sessions[t])}

(* Fault: the limit is compared with > instead of >=.                      *)
LimitOffByOne == Cardinality(Kept) > Max
LimitReached == Cardinality(Kept) >= Max

(* Create at the limit: ErrSessionLimit, after the cleanup.                *)
CreateRefused ==
    /\ LimitReached
    /\ sessions' = Cleaned
    /\ ret' = "limit"
    /\ UNCHANGED <<issued, now>>

Dated(n, at) == [user |-> n, expiresAt |-> at + Timeout]

(* Fault: a token is drawn again.                                          *)
RepeatedDraw(t) == t \notin Kept
FreshDraw(t) == t \notin issued

Create(t, n) ==
    /\ ~LimitReached
    /\ FreshDraw(t)
    /\ \E later \in now..MaxTime :
          /\ now' = later
          /\ sessions' = [Cleaned EXCEPT ![t] = Dated(n, later)]
    /\ issued' = issued \cup {t}
    /\ ret' = "session"

Get(t) ==
    /\ t \in Kept
    /\ \E later \in now..MaxTime :
          /\ now' = later
          /\ sessions' = [Cleaned EXCEPT ![t] = Dated(sessions[t].user, later)]
    /\ ret' = "session"
    /\ UNCHANGED issued

GetMissing(t) ==
    /\ t \notin Kept
    /\ sessions' = Cleaned
    /\ ret' = "missing"
    /\ UNCHANGED <<issued, now>>

(* Fault: the entry is blanked instead of removed.                         *)
Blanked(t) == [sessions EXCEPT ![t].user = NoName]
Deleted(t) == [sessions EXCEPT ![t] = NoSession]

Delete(t) ==
    /\ sessions' = Deleted(t)
    /\ ret' = "none"
    /\ UNCHANGED <<issued, now>>

RevokeUser(n) ==
    /\ sessions' = [t \in Tokens |-> IF sessions[t].user = n THEN NoSession
                                                             ELSE sessions[t]]
    /\ ret' = "none"
    /\ UNCHANGED <<issued, now>>

(* Time passes; no goroutine sweeps the table.                             *)
Tick ==
    /\ now < MaxTime
    /\ now' = now + 1
    /\ ret' = "none"
    /\ UNCHANGED <<sessions, issued>>

Next ==
    \/ CreateRefused
    \/ \E t \in Tokens, n \in Names : Create(t, n)
    \/ \E t \in Tokens : Get(t) \/ GetMissing(t) \/ Delete(t)
    \/ \E n \in Names : RevokeUser(n)
    \/ Tick

Spec == Init /\ [][Next]_vars

-----------------------------------------------------------------------------
(* The session limit is global and strict: the table never holds more than *)
(* Max sessions, whatever logins, refreshes and expiries interleave.       *)
AtMostMaxSessions == Cardinality(Present) <= Max

(* A session that has ended stays ended: once a token that was handed out  *)
(* is no longer accepted (logged out, revoked or idle for longer than the  *)
(* timeout, even if still in the map), no later call makes it acceptable.  *)
EndedStaysEnded ==
    [][\A t \in issued : t \notin Valid => t \notin Valid']_vars

(* A login is turned away only when Max sessions are really in use: a      *)
(* session that has run out never holds a slot against a new login.        *)
RefusedOnlyWhenFull ==
    [][ret' = "limit" => Cardinality(Valid) >= Max]_vars

(* A session used within the last Timeout ticks is not lost to cleanup:    *)
(* only Delete and RevokeUser (whose calls return nothing) end a session   *)
(* that is still inside its idle timeout while the clock stands.           *)
CleanupSparesValid ==
    [][ret' \in {"session", "missing", "limit"} =>
          \A t \in Valid : sessions'[t].user = sessions[t].user]_vars

(* The store implements the abstract table.                                *)
Table == INSTANCE SessionTable WITH
            owner <- [t \in Tokens |-> sessions[t].user]
ImplementsTable == Table!TableSpec

=============================================================================
