---- MODULE MCAnswers ----
(* Words stand for themselves: lower case, and without outer spaces, where  *)
(* a pair below does not say otherwise.                                     *)
EXTENDS Answers

P(a, v) == [attr |-> a, value |-> v]
W(w) == <<Plain(w)>>

Lowered == "UID" :> "uid" @@ "OU" :> "ou" @@ "DC" :> "dc" @@ "People" :> "people"
    @@ "Example" :> "example" @@ "Bob" :> "bob" @@ "Alice" :> "alice" @@ "Staff" :> "staff"
    @@ "memberOf" :> "memberof" @@ "uniqueMember" :> "uniquemember"
    @@ "memberUid" :> "memberuid" @@ "objectClass" :> "objectclass" @@ "ALL" :> "all"
    @@ "Admins" :> "admins" @@ "inetOrgPerson" :> "inetorgperson"
    @@ "groupOfNames" :> "groupofnames" @@ "organizationalUnit" :> "organizationalunit"
    @@ "NanoLDAP" :> "nanoldap"
Trimmed == " uid" :> "uid" @@ "bob " :> "bob" @@ " +" :> "+"
Displays == {127, 128, 255, 256, 65535, 65536, 70000}
Display == 127 :> "d127" @@ 128 :> "d128" @@ 255 :> "d255" @@ 256 :> "d256"
    @@ 65535 :> "d65535" @@ 65536 :> "d65536" @@ 70000 :> "d70000"

MCWords == DOMAIN Lowered \cup {Lowered[w] : w \in DOMAIN Lowered}
    \cup DOMAIN Trimmed \cup {Display[n] : n \in Displays}
    \cup {"", "no =", "cn", "ou", "groups", "com", "smith", "john", "displayname",
          "distinguishedname", "member", "namingcontexts", "supportedldapversion",
          "vendorname", "top", "domain", "3", "*", "+", "1.1", "mvradmins"}
    \cup {"uid", "dc", "people", "example", "bob", "alice", "staff", "admins"}
MCLower == [w \in MCWords |-> IF w \in DOMAIN Lowered THEN Lowered[w] ELSE w]
MCTrim == [w \in MCWords |-> IF w \in DOMAIN Trimmed THEN Trimmed[w] ELSE w]
MCOctets == [w \in MCWords |->
    IF \E n \in Displays : Display[n] = w THEN CHOOSE n \in Displays : Display[n] = w
    ELSE IF w = "" THEN 0 ELSE 6]

Com == P("dc", "com")
Ex == <<P("dc", "example"), Com>>
MCBaseDNs == {<<P("DC", "Example"), Com>>, <<Com>>, <<P("ou", "people"), Com>>, <<P("dc", "")>>}

Smith == W("smith") \o W("john")
People == W("bob") \o <<Ou("people")>>
U(name, size) == [name |-> name, display |-> W(Display[size])]
Dir(users, groups, members) == [users |-> users, groups |-> groups, members |-> members]
MCDirectories ==
    {Dir({U(W("alice"), 127), U(W("bob"), 128)}, {W("admins"), W("staff")},
         {<<W("alice"), W("admins")>>, <<W("alice"), W("staff")>>, <<W("bob"), W("staff")>>}),
     Dir({U(W("alice"), 255), U(W("Alice"), 256), U(W("bob"), 65535)},
         {W("Admins"), W("Staff"), W("staff")},
         {<<W("alice"), W("Admins")>>, <<W("Alice"), W("staff")>>, <<W("bob"), W("Staff")>>}),
     Dir({U(W("bob"), 65536), U(W("Bob"), 70000), U(Smith, 128)}, {W("mvradmins"), W("staff")},
         {<<Smith, W("mvradmins")>>, <<W("bob"), W("mvradmins")>>, <<W("Bob"), W("staff")>>}),
     Dir({U(W("alice"), 128), U(People, 128)}, {W("admins")},
         {<<W("alice"), W("admins")>>, <<People, W("admins")>>})}

Names == {W("alice"), W("bob"), W("Bob"), Smith}
Bases == {Ex, <<Com>>, <<P("dc", "Example"), Com>>}
MCBindDNs ==
    {Rdn("uid", n) \o c \o b : n \in Names \cup {People}, c \in {<<>>, <<Ou("people")>>}, b \in {Ex, <<Com>>}}
    \cup {<<P("UID", "Bob"), P("OU", "People")>> \o Ex, <<P(" uid", "bob ")>> \o Ex,
          <<P("cn", "bob")>> \o Ex, <<P("uid", "")>> \o Ex, <<P("uid", "bob"), Ou("groups")>> \o Ex,
          Ex, PeopleBaseDN(Ex), <<P("uid", "bob")>>, Empty \o Ex}

F(op, attr, value, args) == [op |-> op, attr |-> attr, value |-> value, args |-> args]
Present(a) == F("present", a, Empty, {})
Eq(a, v) == F("eq", a, v, {})
GroupNames == {W("admins"), W("staff")}
Simple == {Present("objectClass"), Present("memberof"), Present("no ="),
           Eq("objectClass", W("inetOrgPerson")), Eq("uid", W("Bob")), Eq("cn", W("staff"))}
    \cup {Eq(a, Rdn("cn", g) \o c \o Ex) : a \in {"memberOf"}, g \in GroupNames,
             c \in {<<>>, <<Ou("groups")>>, <<Ou("people")>>}}
    \cup {Eq(a, Rdn("uid", n) \o c \o b) : a \in {"member", "uniqueMember"},
             n \in {W("alice"), W("Bob"), Smith}, c \in {<<>>, <<Ou("people")>>}, b \in {Ex, <<Com>>}}
    \cup {Eq("memberUid", n) : n \in Names}
    \cup {Eq("member", <<P("uid", "alice"), P("dc", "example"), Ou("people"), Com>>),
          Eq("memberOf", <<P("cn", "staff"), Ou("groups"), Ou("groups")>> \o Ex)}
Other == F("substrings", "uid", Empty, {})
AnyMember(n) == F("or", "no =", Empty,
    {Eq("member", UserDN(Ex, n)), Eq("uniqueMember", LegacyUserDN(Ex, n)), Eq("memberUid", n)})
Compound ==
    {AnyMember(W("bob")), AnyMember(W("alice")), F("and", "no =", Empty, {}), F("or", "no =", Empty, {}),
     F("and", "no =", Empty, {Present("memberof"), Eq("uid", W("Bob"))}),
     F("or", "no =", Empty, {Present("objectClass"), Other})}
Nested == {F("and", "no =", Empty, {Present("objectClass"), AnyMember(W("bob"))})}
MCFilters == Simple \cup Compound \cup Nested \cup {Other} \cup UNION {f.args : f \in Compound}
MCDepth[f \in MCFilters] == IF f.args = {} THEN 0 ELSE 1 + Max({MCDepth[g] : g \in f.args})

Q(base, scope, filter, attrs, id) ==
    [base |-> base, scope |-> scope, filter |-> filter, attrs |-> attrs, id |-> id]
SearchBases ==
    {Empty, <<Com>>, Ex, <<P("dc", "Example"), Com>>, <<P("dc", "example")>>}
    \cup UNION {{<<Ou("people")>> \o b, <<P("OU", "People")>> \o b, <<Ou("groups")>> \o b} : b \in {Ex, <<Com>>}}
    \cup {Rdn("uid", n) \o c \o Ex : n \in Names, c \in {<<>>, <<Ou("people")>>, <<Ou("groups")>>}}
    \cup {Rdn("cn", g) \o c \o Ex : g \in GroupNames, c \in {<<>>, <<Ou("groups")>>}}
MCSearches ==
    {Q(b, s, Present("objectClass"), {}, <<1>>) : b \in SearchBases, s \in {"base", "one", "sub"}}
    \cup {Q(b, "sub", f, {"1.1"}, <<1>>) : b \in {Ex, <<Com>>}, f \in MCFilters}
    \cup {Q(b, "sub", Present("objectClass"), as, <<1>>) : b \in {Ex, Empty},
             as \in {{"*"}, {"+"}, {"ALL"}, {" +"}, {"*", "1.1"}, {"displayname"},
                     {"memberOf", "uid"}, {"vendorname"}, {"*", "vendorname"}, {"no ="}}}
    \cup {Q(Ex, s, Present("objectClass"), {}, id) : s \in {"base", "bad"},
             id \in {<<127>>, <<128>>, <<0, 128>>, <<0, 0, 5>>, <<127, 255, 255>>, <<255>>,
                     <<1, 0, 0, 0>>, <<1, 0>>}}
============================
