---- MODULE MCLdapServer ----
(* A full-directory reader, alice, and a standard user, bob, whose account  *)
(* is named Bob in the instance that has that name.  Connections c1 and c2  *)
(* come from one address, c3 from another.                                  *)
EXTENDS LdapServer

MCLower == [n \in UserNames |-> IF n = "Bob" THEN "bob" ELSE n]
MCAddrOf == [c \in Conns |-> IF c = "c3" THEN "a2" ELSE "a1"]
MCSeedUsers ==
    {[id |-> 1, name |-> "alice", pw |-> "p", disabled |-> FALSE],
     [id |-> 2, name |-> IF "Bob" \in UserNames THEN "Bob" ELSE "bob",
      pw |-> "p", disabled |-> FALSE]}
MCSeedGroups == {[id |-> 1, name |-> "admins"], [id |-> 2, name |-> "users"]}
MCSeedMembers == {<<1, 1>>, <<2, 2>>}
=============================
