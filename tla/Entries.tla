------------------------------ MODULE Entries -------------------------------
(***************************************************************************)
(* Entries of the LDAP directory, the filters that pick them and the       *)
(* attributes that are sent of them: internal/ldapserver/server.go and     *)
(* filter.go.                                                              *)
(*                                                                         *)
(* An entry has a DN, legacy DNs, and attributes from lower-case names to  *)
(* sets of texts.                                                          *)
(***************************************************************************)
EXTENDS Names, FiniteSets

CONSTANTS
    Filters,        \* [op, attr, value, args] with args among Filters
    Depth,          \* Depth[f]: greater than that of each of f's args
    Unsupported     \* operators that parseFilter does not know

ASSUME FiltersAssumption ==
    /\ \A f \in Filters : /\ f.op \in {"and", "or", "eq", "present"} \cup Unsupported
                          /\ f.attr \in Words /\ f.value \in Text
                          /\ f.args \subseteq Filters
                          /\ \A g \in f.args : Depth[g] < Depth[f]
    /\ Depth \in [Filters -> Nat]
    /\ Unsupported \cap {"and", "or", "eq", "present"} = {}

(* The words that the program itself puts into entries.                    *)
EntryWords ==
    {"namingcontexts", "supportedldapversion", "vendorname", "objectclass", "dc", "ou", "uid",
     "cn", "displayname", "memberof", "distinguishedname", "member", "uniquemember", "memberuid",
     "3", "NanoLDAP", "top", "domain", "organizationalUnit", "inetOrgPerson", "groupOfNames"}

ASSUME EntriesAssumption == EntryWords \subseteq Words

-----------------------------------------------------------------------------
(* One value for an attribute, and the values a set of names makes.        *)
One(word) == {<<Plain(word)>>}

RootDSE(base) ==
    [dn |-> Empty, aliases |-> {},
     operational |-> {"namingcontexts", "supportedldapversion", "vendorname"},
     attrs |-> [a \in {"namingcontexts", "supportedldapversion", "vendorname", "objectclass"} |->
        CASE a = "namingcontexts" -> {base}
          [] a = "supportedldapversion" -> One("3")
          [] a = "vendorname" -> One("NanoLDAP")
          [] OTHER -> One("top")]]

Entry(dn, aliases, attrs) ==
    [dn |-> dn, aliases |-> aliases, attrs |-> attrs, operational |-> {}]

BaseEntry(base) ==
    Entry(base, {}, [a \in {"objectclass", "dc"} |->
        IF a = "dc" THEN {<<Plain(base[i].value)>> : i \in DOMAIN base}
        ELSE One("top") \cup One("domain")])

ContainerEntry(word, base) ==
    Entry(<<Ou(word)>> \o base, {}, [a \in {"objectclass", "ou"} |->
        IF a = "ou" THEN One(word) ELSE One("top") \cup One("organizationalUnit")])

UserEntry(user, groups, base) ==
    Entry(UserDN(base, user.name), {LegacyUserDN(base, user.name)},
          [a \in {"objectclass", "uid", "cn", "displayname", "memberof", "distinguishedname"} |->
            CASE a = "objectclass" -> One("inetOrgPerson")
              [] a = "displayname" -> {user.display}
              [] a = "memberof" -> {GroupDN(base, g) : g \in groups}
              [] a = "distinguishedname" -> {UserDN(base, user.name)}
              [] OTHER -> {user.name}])

GroupEntry(group, members, base) ==
    Entry(GroupDN(base, group), {LegacyGroupDN(base, group)},
          [a \in {"objectclass", "cn", "member", "uniquemember", "memberuid"} |->
            CASE a = "objectclass" -> One("groupOfNames")
              [] a = "cn" -> {group}
              [] a = "memberuid" -> members
              [] OTHER -> {UserDN(base, u) : u \in members}])

EntryWithinScope(base, scope, entry) ==
    \E dn \in {entry.dn} \cup entry.aliases : DnWithinScope(base, scope, dn)

-----------------------------------------------------------------------------
(* parseFilter: one unsupported filter anywhere inside spoils the whole.   *)
Parses[f \in Filters] == f.op \notin Unsupported /\ \A g \in f.args : Parses[g]

(* matchesAttributeValue: DNs of members and groups are compared in their  *)
(* short form, everything else as text without case.                       *)
(* Fault: the one name of the attribute that clients use less is left out. *)
DnAttributesTwo == {"member", "memberof"}
DnAttributes == {"member", "memberof", "uniquemember"}

MatchesAttributeValue(attr, actual, wanted) ==
    IF Lower[attr] \in DnAttributes
    THEN NormalizeComparableDN(actual) = NormalizeComparableDN(wanted)
    ELSE Fold(actual) = Fold(wanted)

(* Match of each kind of filter.  An attribute without values is present.  *)
Match(filter, attrs) ==
    LET m[f \in Filters] ==
        \/ f.op = "and" /\ \A g \in f.args : m[g]
        \/ f.op = "or" /\ \E g \in f.args : m[g]
        \/ f.op = "eq" /\ Lower[f.attr] \in DOMAIN attrs
                       /\ \E v \in attrs[Lower[f.attr]] :
                             MatchesAttributeValue(f.attr, v, f.value)
        \/ f.op = "present" /\ Lower[f.attr] \in DOMAIN attrs
    IN  m[filter]

-----------------------------------------------------------------------------
(* selectedAttributes: the names of the attributes sent.  1.1 beats all    *)
(* else, and no name at all asks for everything.                           *)
Requests(asked, wildcards) == \E w \in asked : Lower[Trim[w]] \in wildcards

Named(entry, asked) == {a \in DOMAIN entry.attrs : \E w \in asked : Lower[w] = a}

SelectedAttributes(entry, asked) ==
    IF "1.1" \in asked THEN {}
    ELSE IF asked = {} THEN DOMAIN entry.attrs
    ELSE Named(entry, asked)
         \cup (IF Requests(asked, {"*", "all"}) THEN DOMAIN entry.attrs \ entry.operational
               ELSE {})
         \cup (IF Requests(asked, {"+", "all"}) THEN DOMAIN entry.attrs \cap entry.operational
               ELSE {})

=============================================================================
