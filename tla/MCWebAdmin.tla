---- MODULE MCWebAdmin ----
(* Two administrators of one group; a third account or a second group may   *)
(* be created.                                                              *)
EXTENDS WebAdmin, TLC

CONSTANTS alice, bob

MCSeedUsers ==
    {[id |-> 1, name |-> alice, pw |-> "p", disabled |-> FALSE],
     [id |-> 2, name |-> bob, pw |-> "p", disabled |-> FALSE]}
MCSeedGroups == {[id |-> 1, name |-> "admins"]}
MCSeedMembers == {<<1, 1>>, <<2, 1>>}

Symmetry == Permutations(Reqs) \cup Permutations(Tokens)
===========================
