------------------------------- MODULE Names --------------------------------
(***************************************************************************)
(* Distinguished names as the LDAP server handles them: as text.           *)
(* internal/ldapserver/server.go and filter.go, and NormalizeBaseDN of     *)
(* internal/directory/settings.go.                                         *)
(*                                                                         *)
(* A text is the sequence of its parts between commas, a part the words    *)
(* before and after its first "="; the empty text has one, empty, part.    *)
(* Nothing is escaped: a name with a comma is a text of two parts.         *)
(***************************************************************************)
EXTENDS Integers, SequencesExt

CONSTANTS
    Words,
    Lower,      \* Lower[w]: w in lower case
    Trim        \* Trim[w]: w without the spaces around it

(* The words that the program itself puts into names.                      *)
OwnWords == {"", "no =", "uid", "cn", "ou", "dc", "people", "groups"}

ASSUME NamesAssumption ==
    /\ Lower \in [Words -> Words] /\ Trim \in [Words -> Words]
    /\ OwnWords \subseteq Words
    /\ \A w \in OwnWords : Lower[w] = w /\ Trim[w] = w
    /\ \A w \in Words : /\ Lower[Trim[w]] = Trim[Lower[w]]
                        /\ Lower[Lower[w]] = Lower[w] /\ Trim[Trim[w]] = Trim[w]

Part == [attr : Words, value : Words]
Plain(w) == [attr |-> "no =", value |-> w]
Empty == <<Plain("")>>

Text == Seq(Part) \ {<<>>}

(* What an account or a group can be called: not the empty text, and       *)
(* without "=" before its first comma (a limit of this model).             *)
Name(t) == t \in Text /\ t # Empty /\ t[1].attr = "no ="

-----------------------------------------------------------------------------
(* strings.EqualFold, strings.ToLower on a text.                           *)
FoldPart(p) == [attr |-> Lower[p.attr], value |-> Lower[p.value]]
Fold(t) == [i \in DOMAIN t |-> FoldPart(t[i])]

(* normalizeDN: spaces around a part are dropped; the spaces around an "=" *)
(* belong to no part's edge and the words here have none there.            *)
TrimPart(p) == [attr |-> Trim[p.attr], value |-> Trim[p.value]]
NormalizeDN(t) == [i \in DOMAIN t |-> FoldPart(TrimPart(t[i]))]

ParentDN(t) == IF Len(t) = 1 THEN Empty ELSE Tail(t)
Under(t, base) == IsStrictSuffix(base, t)

(* dnWithinScope.  Fault: the subtree leaves out its root.                 *)
InSubtreeBelow(dn, base) == Under(dn, base)
InSubtree(dn, base) == dn = base \/ Under(dn, base)

DnWithinScope(base, scope, dn) ==
    LET b == NormalizeDN(base)
        d == NormalizeDN(dn)
    IN  \/ scope = "base" /\ d = b
        \/ scope = "one" /\ ParentDN(d) = b
        \/ scope = "sub" /\ InSubtree(d, b)

-----------------------------------------------------------------------------
(* The DNs of accounts and groups under a base, and their legacy forms.    *)
Rdn(attr, name) == <<[attr |-> attr, value |-> name[1].value]>> \o Tail(name)
Ou(word) == [attr |-> "ou", value |-> word]

PeopleBaseDN(base) == <<Ou("people")>> \o base
GroupsBaseDN(base) == <<Ou("groups")>> \o base
UserDN(base, name) == Rdn("uid", name) \o base
GroupDN(base, name) == Rdn("cn", name) \o base
LegacyUserDN(base, name) == Rdn("uid", name) \o PeopleBaseDN(base)
LegacyGroupDN(base, name) == Rdn("cn", name) \o GroupsBaseDN(base)

(* usernameFromDN: no name, or the one.                                    *)
(* Fault: the legacy form is not tried.                                    *)
BindSuffixFlat(dn, base) == base
BindSuffix(dn, base) ==
    IF Under(dn, PeopleBaseDN(base)) THEN PeopleBaseDN(base) ELSE base

UsernameFromDN(base, dn) ==
    LET n == NormalizeDN(dn)
        suffix == BindSuffix(n, NormalizeDN(base))
        rdn == SubSeq(n, 1, Len(n) - Len(suffix))
    IN  IF Under(n, suffix) /\ rdn[1].attr = "uid" /\ rdn # Rdn("uid", Empty)
        THEN {<<Plain(rdn[1].value)>> \o Tail(rdn)}
        ELSE {}

(* normalizeComparableDN: the first inner ou=people goes, then the first   *)
(* inner ou=groups.                                                        *)
DropInner(t, part) ==
    LET at == {i \in 2..(Len(t) - 1) : t[i] = part}
    IN  IF at = {} THEN t ELSE RemoveAt(t, CHOOSE i \in at : \A j \in at : i <= j)

NormalizeComparableDN(t) ==
    DropInner(DropInner(NormalizeDN(t), Ou("people")), Ou("groups"))

(* NormalizeBaseDN: no base, or the one.                                   *)
NormalizeBaseDN(t) ==
    IF \A i \in DOMAIN t : NormalizeDN(t)[i].attr = "dc" /\ Trim[t[i].value] # ""
    THEN {[i \in DOMAIN t |-> [attr |-> "dc", value |-> Trim[t[i].value]]]}
    ELSE {}

=============================================================================
