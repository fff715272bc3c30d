------------------------------- MODULE Quota --------------------------------
(***************************************************************************)
(* What a rate limiter promises its caller, without a clock: an attempt is *)
(* let through while fewer than Limit of its key's attempts are recent,    *)
(* and recent attempts cease to be so as time passes, any number at a      *)
(* time.  Module BindLimiter implements it; module LdapServer uses it.     *)
(***************************************************************************)
EXTENDS Integers

CONSTANTS Keys, Limit

VARIABLE recent     \* recent[k]: attempts of k that still count

QuotaTypeOK == recent \in [Keys -> 0..Limit]

QuotaInit == recent = [k \in Keys |-> 0]

Spent(k) == recent[k] >= Limit

Grant(k) ==
    /\ ~Spent(k)
    /\ recent' = [recent EXCEPT ![k] = @ + 1]

Age ==
    /\ recent' \in [Keys -> 0..Limit]
    /\ \A k \in Keys : recent'[k] <= recent[k]

QuotaNext == Age \/ \E k \in Keys : Grant(k)

QuotaSpec == QuotaInit /\ [][QuotaNext]_recent

=============================================================================
