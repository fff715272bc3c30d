------------------------------- MODULE Answers ------------------------------
(***************************************************************************)
(* What one bind or search is answered: handleBind and handleSearch of     *)
(* internal/ldapserver/server.go with their texts, over the DNs, filters   *)
(* and attributes of module Entries and the encoding of module Codec.      *)
(*                                                                         *)
(* LdapServer has the statements of a request interleaved with changes of  *)
(* the directory, passwords, limits and the connection's life, and takes a *)
(* search for the whole tree; here a request is one step, every password   *)
(* is right, and what matters is which account a DN names, which entries a *)
(* search picks, and whether the answer reads back.                        *)
(***************************************************************************)
EXTENDS Entries, Codec, FiniteSetsExt

CONSTANTS
    Octets,         \* Octets[w]: length of word w
    Directories,    \* [users, groups, members]: what may be stored
    BaseDNs,        \* what administrators may ask the base DN to be
    BindDNs,        \* DNs that clients bind with
    Searches        \* [base, scope, filter, attrs, id] that clients send

ASSUME AnswersAssumption ==
    /\ Octets \in [Words -> Nat]
    /\ BaseDNs \cup BindDNs \subseteq Text
    /\ \A d \in Directories :
          /\ IsFiniteSet(d.users) /\ IsFiniteSet(d.groups)
          /\ \A u \in d.users : Name(u.name) /\ u.display \in Text
          /\ \A g \in d.groups : Name(g)
          /\ d.members \subseteq {u.name : u \in d.users} \X d.groups
    /\ \A q \in Searches : /\ q.base \in Text /\ q.filter \in Filters /\ q.attrs \subseteq Words
                             /\ q.id \in Seq(Octet) \ {<<>>}

VARIABLES
    baseDN,     \* the base DN in force
    dir,        \* the directory stored
    who,        \* of the connection: no account, or the one bound, with its groups
    asked,      \* the request at hand: none, a bind DN or a search
    answer      \* what it was answered

answersVars == <<baseDN, dir, who, asked, answer>>

Nobody == [name |-> Empty, groups |-> {}, bound |-> FALSE]
Nothing == [kind |-> "none"]
Result(code) == [code |-> code, id |-> <<>>, entries |-> {}]

GroupsOf(d, name) == {m[2] : m \in {x \in d.members : x[1] = name}}
MembersOf(d, group) == {m[1] : m \in {x \in d.members : x[2] = group}}

AnswersInit ==
    /\ baseDN \in UNION {NormalizeBaseDN(t) : t \in BaseDNs}
    /\ dir \in Directories
    /\ who = Nobody
    /\ asked = Nothing
    /\ answer = Result("none")

-----------------------------------------------------------------------------
(* The administrators.                                                     *)
UpdateBaseDN(t) ==
    /\ asked = Nothing
    /\ baseDN' \in NormalizeBaseDN(t)
    /\ UNCHANGED <<dir, who, asked, answer>>

ChangeDirectory(d) ==
    /\ asked = Nothing
    /\ dir' = d
    /\ UNCHANGED <<baseDN, who, asked, answer>>

(* The answer has been read, and the client stays or connects anew.        *)
Done ==
    /\ asked # Nothing
    /\ asked' = Nothing
    /\ answer' = Result("none")
    /\ who' \in {who, Nobody}
    /\ UNCHANGED <<baseDN, dir>>

-----------------------------------------------------------------------------
(* handleBind on a connection that has not bound: the name in the DN is    *)
(* looked up as it is spelt after normalisation.                           *)
Bind(dn) ==
    LET found == UsernameFromDN(baseDN, dn)
        accounts == {u \in dir.users : u.name \in found}
    IN  /\ asked = Nothing /\ ~who.bound
        /\ asked' = [kind |-> "bind", dn |-> dn]
        /\ \/ found = {} /\ answer' = Result("invalid_dn") /\ UNCHANGED who
           \/ found # {} /\ accounts = {}
              /\ answer' = Result("invalid_credentials") /\ UNCHANGED who
           \/ \E u \in accounts :
                 /\ answer' = Result("success")
                 /\ who' = [name |-> u.name, groups |-> GroupsOf(dir, u.name), bound |-> TRUE]
        /\ UNCHANGED <<baseDN, dir>>

-----------------------------------------------------------------------------
(* visibleEntries.                                                         *)
AdminScope == \E g \in who.groups : Fold(g) \in One("admins") \cup One("mvradmins")
VisibleUsers == {u \in dir.users : AdminScope \/ u.name = who.name}
VisibleGroups == {g \in dir.groups : AdminScope \/ g \in who.groups}

VisibleEntries ==
    {BaseEntry(baseDN), ContainerEntry("people", baseDN), ContainerEntry("groups", baseDN)}
    \cup {UserEntry(u, GroupsOf(dir, u.name), baseDN) : u \in VisibleUsers}
    \cup {GroupEntry(g, MembersOf(dir, g), baseDN) : g \in VisibleGroups}

IsAnonymousRootDSERequest(q) == q.base = Empty /\ q.scope \in {"base", "sub"}

(* parseSearchRequest; scopes other than the three are refused.            *)
WellFormed(q) == q.scope \in {"base", "one", "sub"} /\ Parses[q.filter]

Picked(q) ==
    {e \in VisibleEntries : EntryWithinScope(q.base, q.scope, e) /\ Match(q.filter, e.attrs)}

(* handleSearch; the rate limit is LdapServer's.                           *)
Answer(q) ==
    IF ~WellFormed(q) THEN Result("protocolError")
    ELSE IF who.bound THEN [Result("success") EXCEPT !.entries = Picked(q)]
    ELSE IF IsAnonymousRootDSERequest(q)
         THEN [Result("success") EXCEPT !.entries = {RootDSE(baseDN)}]
    ELSE Result("insufficientAccessRights")

Search(q) ==
    /\ asked = Nothing
    /\ asked' = [kind |-> "search", base |-> q.base, scope |-> q.scope, filter |-> q.filter,
                 attrs |-> q.attrs, id |-> q.id]
    /\ answer' = [Answer(q) EXCEPT !.id = IntegerOctets(IntOf(q.id))]
    /\ UNCHANGED <<baseDN, dir, who>>

AnswersNext ==
    \/ \E t \in BaseDNs : UpdateBaseDN(t)
    \/ \E d \in Directories : ChangeDirectory(d)
    \/ \E dn \in BindDNs : Bind(dn)
    \/ \E q \in Searches : Search(q)
    \/ Done

AnswersSpec == AnswersInit /\ [][AnswersNext]_answersVars

-----------------------------------------------------------------------------
(* searchEntryPacket: the sizes of the contents of its elements.           *)
PartSize(p) == IF p.attr = "no =" THEN Octets[p.value] ELSE Octets[p.attr] + 1 + Octets[p.value]
TextSize(t) == Len(t) - 1 + MapThenSumSet(LAMBDA i : PartSize(t[i]), DOMAIN t)

ValuesSize(entry, a) == MapThenSumSet(LAMBDA v : Element(TextSize(v)), entry.attrs[a])
AttributeSize(entry, a) == Element(Octets[a]) + Element(ValuesSize(entry, a))
AttributesSize(entry, names) ==
    MapThenSumSet(LAMBDA a : Element(AttributeSize(entry, a)), names)
EntrySize(entry, names) == Element(TextSize(entry.dn)) + Element(AttributesSize(entry, names))

Sizes(entry, names, id) ==
    {TextSize(entry.dn), AttributesSize(entry, names), EntrySize(entry, names),
     Element(Len(id)) + Element(EntrySize(entry, names))}
    \cup (UNION {{AttributeSize(entry, a), ValuesSize(entry, a)} : a \in names})
    \cup (UNION {{TextSize(v) : v \in entry.attrs[a]} : a \in names})

-----------------------------------------------------------------------------
(* A search is within the tree that the documents describe: the base entry *)
(* above the two containers and all accounts and groups, and each account  *)
(* and group once more below its container.  Two exceptions: the base that *)
(* is empty or blank, which names no entry here (yet one level below it    *)
(* lies a base DN of one component), and names with a comma, whose DNs,    *)
(* unescaped, have one component too many.                                 *)
At(q, dn) == NormalizeDN(q.base) = NormalizeDN(dn)
Leaves(entries) == {e \in entries : Cardinality(e.aliases) = 1}

InTree(q) ==
    LET all == VisibleEntries
        accounts == {UserEntry(u, GroupsOf(dir, u.name), baseDN) : u \in VisibleUsers}
        self(entry) == IF q.scope = "one" THEN {} ELSE {entry}
        below(entries) == IF q.scope = "base" THEN {} ELSE entries
        named == {e \in Leaves(all) : At(q, e.dn) \/ \E dn \in e.aliases : At(q, dn)}
        levels == Len(baseDN) - Len(q.base)
    IN  IF At(q, baseDN) THEN self(BaseEntry(baseDN)) \cup below(all \ {BaseEntry(baseDN)})
        ELSE IF At(q, PeopleBaseDN(baseDN))
             THEN self(ContainerEntry("people", baseDN)) \cup below(accounts)
        ELSE IF At(q, GroupsBaseDN(baseDN))
             THEN self(ContainerEntry("groups", baseDN)) \cup below(Leaves(all) \ accounts)
        ELSE IF named # {} THEN UNION {self(e) : e \in named}
        ELSE IF ~Under(NormalizeDN(baseDN), NormalizeDN(q.base)) THEN {}
        ELSE {e \in all : q.scope = "sub" \/ (q.scope = "one" /\ levels = 1 /\ e.dn = baseDN)}

Searched == asked # Nothing /\ asked.kind = "search" /\ answer.code = "success" /\ who.bound

AllNames == {u.name : u \in dir.users} \cup dir.groups

ScopeAgreesWithTree ==
    (Searched /\ NormalizeDN(asked.base) # Empty /\ \A name \in AllNames : Len(name) = 1)
        => answer.entries = {e \in InTree(asked) : Match(asked.filter, e.attrs)}

(* Searches of the whole tree for members of a group or groups of a member *)
(* give the memberships stored, whichever of the four attributes and of    *)
(* the two forms of a DN a client uses.  Two exceptions, as a container is *)
(* dropped from a DN wherever it stands: DNs with a container elsewhere    *)
(* than right above the base, or with the other kind's, match as well; and *)
(* so do those of names with a container in them, like "bob,ou=people".    *)
Same(t, dns) == NormalizeDN(t) \in {NormalizeDN(dn) : dn \in dns}

GroupMeant(f, g) ==
    Lower[f.attr] = "memberof" /\ Same(f.value, {GroupDN(baseDN, g), LegacyGroupDN(baseDN, g)})
UserMeant(f, u) ==
    \/ Lower[f.attr] \in {"member", "uniquemember"}
       /\ Same(f.value, {UserDN(baseDN, u), LegacyUserDN(baseDN, u)})
    \/ Lower[f.attr] = "memberuid" /\ Fold(f.value) = Fold(u)

Containers == {Ou("people"), Ou("groups")}
ContainersOf(t) == {i \in DOMAIN t : NormalizeDN(t)[i] \in Containers}
OfDNs == {"memberof", "member", "uniquemember"}
OwnContainer(f) == IF Lower[f.attr] = "memberof" THEN Ou("groups") ELSE Ou("people")

AboutMembers(f) ==
    /\ f.op = "eq" /\ Lower[f.attr] \in OfDNs \cup {"memberuid"}
    /\ Lower[f.attr] \in OfDNs =>
          \A i \in ContainersOf(f.value) : /\ i = Len(f.value) - Len(baseDN)
                                          /\ NormalizeDN(f.value)[i] = OwnContainer(f)

Meant(f) ==
    {UserEntry(u, GroupsOf(dir, u.name), baseDN) :
        u \in {x \in VisibleUsers : \E m \in dir.members : m[1] = x.name /\ GroupMeant(f, m[2])}}
    \cup {GroupEntry(g, MembersOf(dir, g), baseDN) :
        g \in {x \in VisibleGroups : \E m \in dir.members : m[2] = x /\ UserMeant(f, m[1])}}

MembershipSearchesAgree ==
    (Searched /\ At(asked, baseDN) /\ asked.scope = "sub"
        /\ \A name \in AllNames : ContainersOf(name) = {}) =>
        LET fs == IF asked.filter.op = "or" THEN asked.filter.args ELSE {asked.filter}
        IN  (\A f \in fs : AboutMembers(f)) => answer.entries = UNION {Meant(f) : f \in fs}

(* A bind reaches the account whose DN, in either form and under the base  *)
(* DN now in force, the client gave.  Two exceptions: a name that          *)
(* normalisation changes, one with capitals for instance, cannot bind, and *)
(* its DN reaches the account with the normal name if there is one; and of *)
(* a name that ends in ",ou=people" the short DN is the legacy one of the  *)
(* name without that end, and reaches that.                                *)
EndsInPeople(name) == NormalizeDN(name)[Len(name)] = Ou("people")
Reaches(dn, name) ==
    \/ Same(dn, {LegacyUserDN(baseDN, name)})
    \/ ~EndsInPeople(name) /\ Same(dn, {UserDN(baseDN, name)})

BindNamesTheAccount ==
    (asked # Nothing /\ asked.kind = "bind") =>
        LET named == {u \in dir.users : Reaches(asked.dn, u.name)}
        IN  /\ answer.code = "success" <=> \E u \in named : NormalizeDN(u.name) = u.name
            /\ answer.code = "success" => who.name \in {u.name : u \in named}

(* A client that decodes an answer, as the server itself does for its      *)
(* trace, finds every element where it was put, unless one of them has     *)
(* 65536 octets or more: then never.  And it finds the id it sent, as long *)
(* as that is none the program reads as negative.                          *)
AnswerReadsBack ==
    /\ \A e \in answer.entries :
          LET sizes == Sizes(e, SelectedAttributes(e, asked.attrs), answer.id)
          IN  (\A n \in sizes : ReadsBack(n)) <=> (\A n \in sizes : n < 65536)
    /\ answer.id # <<>> /\ ValueOf(asked.id) \in 0..(Word \div 2 - 1)
          => ValueOf(answer.id) = ValueOf(asked.id)

=============================================================================
