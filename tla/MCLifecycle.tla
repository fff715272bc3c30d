---- MODULE MCLifecycle ----
(* Two default groups and accounts, two base DNs and a text that is none.   *)
EXTENDS Lifecycle

MCGroups == <<"admins", "users">>
MCUsers == <<"admin", "user">>
MCNormal == [t \in Texts |-> IF t = "DC=a" THEN "dc=a"
                             ELSE IF t = "dc=b" THEN "dc=b" ELSE "none"]
============================
