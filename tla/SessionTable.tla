---------------------------- MODULE SessionTable ----------------------------
(***************************************************************************)
(* What the web UI's session store promises, without clocks: a bounded     *)
(* table from session tokens to user names.  A token is fresh, then live   *)
(* for one user, then gone for good.  Module Sessions (the code of         *)
(* internal/session/store.go) is shown to implement this module, and       *)
(* module WebAdmin runs the HTTP handlers on top of it.                    *)
(***************************************************************************)
EXTENDS Integers, FiniteSets

CONSTANTS
    Tokens,     \* session tokens: 32 random bytes, never drawn twice
    Names,      \* user names
    NoName,     \* marks a token that is not in the table
    Max         \* the session limit

ASSUME TableAssumption ==
    /\ NoName \notin Names
    /\ Max \in Nat

VARIABLES
    owner,      \* owner[t]: the user name token t stands for
    issued      \* the tokens handed out so far

tableVars == <<owner, issued>>

Live == {t \in Tokens : owner[t] # NoName}
OwnedBy(n) == {t \in Tokens : owner[t] = n}

TableTypeOK ==
    /\ owner \in [Tokens -> Names \cup {NoName}]
    /\ issued \subseteq Tokens

TableInit ==
    /\ owner = [t \in Tokens |-> NoName]
    /\ issued = {}

-----------------------------------------------------------------------------
Without(S) == [t \in Tokens |-> IF t \in S THEN NoName ELSE owner[t]]

(* Sessions end: logout, revocation of a user, expiry.                     *)
Close(S) ==
    /\ owner' = Without(S)
    /\ UNCHANGED issued

(* A login: room is made by dropping the sessions S, and one session is    *)
(* added, of a token that never named a session before.                    *)
Open(S, t, n) ==
    /\ t \notin issued
    /\ Cardinality(Live \ S) < Max
    /\ owner' = [Without(S) EXCEPT ![t] = n]
    /\ issued' = issued \cup {t}

TableNext ==
    \E S \in SUBSET Live :
        \/ Close(S)
        \/ \E t \in Tokens, n \in Names : Open(S, t, n)

TableSpec == TableInit /\ [][TableNext]_tableVars

=============================================================================
