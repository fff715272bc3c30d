---------------------------- MODULE AnswersProofs ---------------------------
(***************************************************************************)
(* Proofs about the requests of a connection: which account a bind         *)
(* reaches, which entries a search picks, and how an answer is read, for   *)
(* any directory, base DN, DNs and filters (module Answers); how lengths   *)
(* and integers are written and read (module Codec); and how many searches *)
(* are let through (module SearchRate).                                    *)
(***************************************************************************)
EXTENDS Answers, SearchRate, FiniteSetTheorems, SequenceTheorems, WellFoundedInduction, TLAPS

-----------------------------------------------------------------------------
(* Texts.                                                                  *)
Normal(p) == FoldPart(TrimPart(p))

LEMMA TextIsSeq ==
    ASSUME NEW t \in Text
    PROVE  /\ t \in Seq(Part) /\ Len(t) \in Nat \ {0} /\ DOMAIN t = 1..Len(t)
           /\ \A i \in 1..Len(t) : t[i] \in Part
  BY DEF Text

LEMMA ConsFacts ==
    ASSUME NEW p \in Part, NEW t \in Seq(Part)
    PROVE  /\ Cons(p, t) \in Text /\ Len(Cons(p, t)) = Len(t) + 1
           /\ Cons(p, t)[1] = p /\ Tail(Cons(p, t)) = t
           /\ \A i \in 1..Len(t) : Cons(p, t)[i + 1] = t[i]
  <1>1. /\ Cons(p, t) \in Seq(Part) /\ Len(Cons(p, t)) = Len(t) + 1
        /\ Cons(p, t)[1] = p
        /\ \A i \in 1..Len(t) : Cons(p, t)[i + 1] = t[i]
    BY DEF Cons
  <1>2. Cons(p, t) # <<>>
    BY <1>1
  <1>3. Tail(Cons(p, t)) = t
    <2> DEFINE u == Tail(Cons(p, t))
    <2>1. u \in Seq(Part) /\ Len(u) = Len(t) /\ \A i \in 1..Len(t) : u[i] = t[i]
      BY <1>1, <1>2
    <2> QED BY <2>1, SeqEqual
  <1> QED BY <1>1, <1>2, <1>3 DEF Text

LEMMA ConsInjective ==
    ASSUME NEW p \in Part, NEW q \in Part, NEW s \in Seq(Part), NEW t \in Seq(Part),
           Cons(p, s) = Cons(q, t)
    PROVE  p = q /\ s = t
  <1>1. Cons(p, s)[1] = p /\ Tail(Cons(p, s)) = s
    BY ConsFacts
  <1>2. Cons(q, t)[1] = q /\ Tail(Cons(q, t)) = t
    BY ConsFacts
  <1> QED BY <1>1, <1>2

LEMMA HeadAndTail ==
    ASSUME NEW t \in Text
    PROVE  /\ t[1] \in Part /\ Tail(t) \in Seq(Part) /\ t = Cons(t[1], Tail(t))
           /\ Len(t) = Len(Tail(t)) + 1
           /\ \A i \in 1..Len(Tail(t)) : Tail(t)[i] = t[i + 1]
  <1>1. t \in Seq(Part) /\ Len(t) \in Nat \ {0}
    BY TextIsSeq
  <1>2. /\ t[1] \in Part /\ Tail(t) \in Seq(Part) /\ Len(t) = Len(Tail(t)) + 1
        /\ \A i \in 1..Len(Tail(t)) : Tail(t)[i] = t[i + 1]
    BY <1>1
  <1> DEFINE s == Tail(t)
             c == Cons(t[1], s)
  <1>3. /\ c \in Seq(Part) /\ Len(c) = Len(s) + 1 /\ c[1] = t[1]
        /\ \A i \in 1..Len(s) : c[i + 1] = s[i]
    BY <1>2, ConsFacts DEF Text
  <1> HIDE DEF s
  <1>4. ASSUME NEW i \in 1..Len(c) PROVE c[i] = t[i]
    <2>1. CASE i = 1
      BY <1>3, <2>1
    <2>2. CASE i # 1
      <3>1. i - 1 \in 1..Len(s) /\ (i - 1) + 1 = i
        BY <1>2, <1>3, <2>2 DEF s
      <3>2. c[(i - 1) + 1] = s[i - 1] /\ s[i - 1] = t[(i - 1) + 1]
        BY <1>2, <1>3, <3>1 DEF s
      <3> QED BY <3>1, <3>2
    <2> QED BY <2>1, <2>2
  <1> HIDE DEF c
  <1>5. Len(c) = Len(t)
    BY <1>2, <1>3 DEF s
  <1>6. c = t
    BY <1>1, <1>3, <1>4, <1>5, SeqEqual
  <1> QED BY <1>2, <1>6 DEF c, s

LEMMA NormalType ==
    ASSUME NEW p \in Part
    PROVE  /\ Normal(p) \in Part /\ Normal(Normal(p)) = Normal(p)
           /\ Normal(p).attr = Lower[Trim[p.attr]] /\ Normal(p).value = Lower[Trim[p.value]]
  <1>1. \A w \in Words : /\ Lower[Trim[w]] \in Words
                         /\ Lower[Trim[Lower[Trim[w]]]] = Lower[Trim[w]]
    BY NamesAssumption
  <1>2. p.attr \in Words /\ p.value \in Words
    BY DEF Part
  <1>3. /\ Normal(p) = [attr |-> Lower[Trim[p.attr]], value |-> Lower[Trim[p.value]]]
        /\ Normal(Normal(p)) = [attr |-> Lower[Trim[Normal(p).attr]],
                                value |-> Lower[Trim[Normal(p).value]]]
    BY DEF Normal, FoldPart, TrimPart
  <1> QED BY <1>1, <1>2, <1>3 DEF Part

LEMMA NormalizeType ==
    ASSUME NEW t \in Seq(Part)
    PROVE  /\ NormalizeDN(t) \in Seq(Part) /\ Len(NormalizeDN(t)) = Len(t)
           /\ \A i \in 1..Len(t) : NormalizeDN(t)[i] = Normal(t[i])
  <1>1. NormalizeDN(t) = [i \in 1..Len(t) |-> Normal(t[i])]
    BY DEF NormalizeDN, Normal
  <1>2. \A i \in 1..Len(t) : Normal(t[i]) \in Part
    BY NormalType
  <1>3. Len(t) \in Nat
    OBVIOUS
  <1> QED BY <1>1, <1>2, <1>3

LEMMA NormalizeText ==
    ASSUME NEW t \in Text
    PROVE  NormalizeDN(t) \in Text
  BY NormalizeType, TextIsSeq DEF Text

LEMMA NormalizeIdempotent ==
    ASSUME NEW t \in Seq(Part)
    PROVE  NormalizeDN(NormalizeDN(t)) = NormalizeDN(t)
  <1> DEFINE n == NormalizeDN(t)
  <1>1. /\ n \in Seq(Part) /\ Len(n) = Len(t)
        /\ \A i \in 1..Len(t) : n[i] = Normal(t[i])
    BY NormalizeType
  <1> HIDE DEF n
  <1>2. /\ NormalizeDN(n) \in Seq(Part) /\ Len(NormalizeDN(n)) = Len(n)
        /\ \A i \in 1..Len(n) : NormalizeDN(n)[i] = Normal(n[i])
    BY <1>1, NormalizeType
  <1>3. \A i \in 1..Len(t) : NormalizeDN(n)[i] = n[i]
    BY <1>1, <1>2, NormalType
  <1>4. NormalizeDN(n) = n
    BY <1>1, <1>2, <1>3, SeqEqual
  <1> QED BY <1>4 DEF n

LEMMA NormalizeConcat ==
    ASSUME NEW s \in Seq(Part), NEW t \in Seq(Part)
    PROVE  NormalizeDN(s \o t) = NormalizeDN(s) \o NormalizeDN(t)
  <1> DEFINE m == NormalizeDN(s)
             n == NormalizeDN(t)
             u == s \o t
             v == NormalizeDN(u)
  <1>1. /\ m \in Seq(Part) /\ Len(m) = Len(s) /\ \A i \in 1..Len(s) : m[i] = Normal(s[i])
    BY NormalizeType
  <1>2. /\ n \in Seq(Part) /\ Len(n) = Len(t) /\ \A i \in 1..Len(t) : n[i] = Normal(t[i])
    BY NormalizeType
  <1>3. /\ u \in Seq(Part) /\ Len(u) = Len(s) + Len(t)
        /\ \A i \in 1..Len(u) : u[i] = IF i <= Len(s) THEN s[i] ELSE t[i - Len(s)]
    BY ConcatProperties
  <1>4. v \in Seq(Part) /\ Len(v) = Len(u) /\ \A i \in 1..Len(u) : v[i] = Normal(u[i])
    BY <1>3, NormalizeType
  <1> HIDE DEF m, n, v
  <1>5. /\ m \o n \in Seq(Part) /\ Len(m \o n) = Len(s) + Len(t)
        /\ \A i \in 1..(Len(s) + Len(t)) :
              (m \o n)[i] = IF i <= Len(s) THEN m[i] ELSE n[i - Len(s)]
    <2>1. /\ m \o n \in Seq(Part) /\ Len(m \o n) = Len(m) + Len(n)
          /\ \A i \in 1..(Len(m) + Len(n)) :
                (m \o n)[i] = IF i <= Len(m) THEN m[i] ELSE n[i - Len(m)]
      <3>1. m \in Seq(Part) /\ n \in Seq(Part)
        BY <1>1, <1>2
      <3> QED BY <3>1, ConcatProperties
    <2>2. Len(m) = Len(s) /\ Len(n) = Len(t)
      BY <1>1, <1>2
    <2> QED BY <2>1, <2>2
  <1> HIDE DEF u
  <1>6. ASSUME NEW i \in 1..(Len(s) + Len(t)) PROVE v[i] = (m \o n)[i]
    <2>1. CASE i <= Len(s)
      BY <1>1, <1>3, <1>4, <1>5, <2>1
    <2>2. CASE ~(i <= Len(s))
      <3>1. i - Len(s) \in 1..Len(t)
        BY <2>2
      <3> QED BY <1>2, <1>3, <1>4, <1>5, <2>2, <3>1
    <2> QED BY <2>1, <2>2
  <1>7. v = m \o n
    BY <1>3, <1>4, <1>5, <1>6, SeqEqual
  <1> QED BY <1>7 DEF m, n, u, v

LEMMA NormalizeCons ==
    ASSUME NEW p \in Part, NEW t \in Seq(Part)
    PROVE  NormalizeDN(Cons(p, t)) = Cons(Normal(p), NormalizeDN(t))
  <1>1. NormalizeDN(<<p>>) = <<Normal(p)>>
    <2> DEFINE s == <<p>>
    <2>1. s \in Seq(Part) /\ Len(s) = 1 /\ s[1] = p
      OBVIOUS
    <2> HIDE DEF s
    <2>2. NormalizeDN(s) \in Seq(Part) /\ Len(NormalizeDN(s)) = 1 /\ NormalizeDN(s)[1] = Normal(p)
      BY <2>1, NormalizeType
    <2>3. NormalizeDN(s) = <<Normal(p)>>
      BY <2>2
    <2> QED BY <2>3 DEF s
  <1>2. <<p>> \in Seq(Part)
    OBVIOUS
  <1>3. NormalizeDN(<<p>> \o t) = NormalizeDN(<<p>>) \o NormalizeDN(t)
    BY <1>2, NormalizeConcat
  <1> QED BY <1>1, <1>3 DEF Cons

-----------------------------------------------------------------------------
(* A text under another.                                                   *)
LEMMA UnderMeans ==
    ASSUME NEW t \in Seq(Part), NEW b \in Seq(Part)
    PROVE  Under(t, b) <=> /\ Len(b) < Len(t)
                           /\ \A i \in 1..Len(b) : b[i] = t[Len(t) - Len(b) + i]
  <1> DEFINE rt == Reverse(t)
             rb == Reverse(b)
  <1>1. Len(t) \in Nat /\ Len(b) \in Nat
    OBVIOUS
  <1>2. /\ rt \in Seq(Part) /\ Len(rt) = Len(t)
        /\ \A i \in 1..Len(t) : rt[i] = t[Len(t) - i + 1]
    BY <1>1 DEF Reverse
  <1>3. /\ rb \in Seq(Part) /\ Len(rb) = Len(b)
        /\ \A i \in 1..Len(b) : rb[i] = b[Len(b) - i + 1]
    BY <1>1 DEF Reverse
  <1>4. Under(t, b) <=> /\ Len(rb) <= Len(rt)
                        /\ SubSeq(rb, 1, Len(rb)) = SubSeq(rt, 1, Len(rb))
                        /\ b # t
    BY DEF Under, IsStrictSuffix, IsSuffix, IsPrefix
  <1> HIDE DEF rt, rb
  <1>5. ASSUME Len(b) <= Len(t)
        PROVE  SubSeq(rb, 1, Len(b)) = SubSeq(rt, 1, Len(b))
                  <=> \A i \in 1..Len(b) : rb[i] = rt[i]
    <2> DEFINE x == SubSeq(rb, 1, Len(b))
               y == SubSeq(rt, 1, Len(b))
    <2>1. /\ x \in Seq(Part) /\ Len(x) = Len(b) /\ \A i \in 1..Len(b) : x[i] = rb[i]
          /\ y \in Seq(Part) /\ Len(y) = Len(b) /\ \A i \in 1..Len(b) : y[i] = rt[i]
      BY <1>1, <1>2, <1>3, <1>5
    <2> HIDE DEF x, y
    <2>2. x = y <=> \A i \in 1..Len(b) : x[i] = y[i]
      BY <2>1, SeqEqual
    <2>3. x = y <=> \A i \in 1..Len(b) : rb[i] = rt[i]
      BY <2>1, <2>2
    <2> QED BY <2>3 DEF x, y
  <1>6. ASSUME Len(b) <= Len(t)
        PROVE  (\A i \in 1..Len(b) : rb[i] = rt[i])
                  <=> \A i \in 1..Len(b) : b[i] = t[Len(t) - Len(b) + i]
    <2>1. ASSUME NEW i \in 1..Len(b)
          PROVE  /\ Len(b) - i + 1 \in 1..Len(b)
                 /\ rb[Len(b) - i + 1] = b[i]
                 /\ rt[Len(b) - i + 1] = t[Len(t) - Len(b) + i]
      <3>1. /\ Len(b) - i + 1 \in 1..Len(b) /\ Len(b) - i + 1 \in 1..Len(t)
            /\ Len(b) - (Len(b) - i + 1) + 1 = i
            /\ Len(t) - (Len(b) - i + 1) + 1 = Len(t) - Len(b) + i
        BY <1>1, <1>6
      <3> QED BY <1>2, <1>3, <3>1
    <2>2. ASSUME NEW i \in 1..Len(b)
          PROVE  /\ Len(b) - i + 1 \in 1..Len(b)
                 /\ Len(b) - (Len(b) - i + 1) + 1 = i
      BY <1>1
    <2>3. ASSUME \A i \in 1..Len(b) : rb[i] = rt[i], NEW i \in 1..Len(b)
          PROVE  b[i] = t[Len(t) - Len(b) + i]
      BY <2>1, <2>3
    <2>4. ASSUME \A i \in 1..Len(b) : b[i] = t[Len(t) - Len(b) + i], NEW i \in 1..Len(b)
          PROVE  rb[i] = rt[i]
      <3> DEFINE j == Len(b) - i + 1
      <3>1. j \in 1..Len(b) /\ Len(b) - j + 1 = i
        BY <2>2
      <3> HIDE DEF j
      <3>2. rb[Len(b) - j + 1] = b[j] /\ rt[Len(b) - j + 1] = t[Len(t) - Len(b) + j]
        BY <2>1, <3>1
      <3> QED BY <2>4, <3>1, <3>2
    <2> QED BY <2>3, <2>4
  <1>7. CASE Len(b) < Len(t)
    <2>1. Len(b) <= Len(t) /\ b # t
      BY <1>1, <1>7
    <2>2. Under(t, b) <=> SubSeq(rb, 1, Len(b)) = SubSeq(rt, 1, Len(b))
      BY <1>2, <1>3, <1>4, <2>1
    <2> QED BY <1>5, <1>6, <1>7, <2>1, <2>2
  <1>8. CASE ~(Len(b) < Len(t))
    <2>1. SUFFICES ASSUME Under(t, b) PROVE FALSE
      BY <1>8
    <2>2. Len(b) = Len(t) /\ b # t
      BY <1>1, <1>2, <1>3, <1>4, <1>8, <2>1
    <2>3. \A i \in 1..Len(b) : b[i] = t[Len(t) - Len(b) + i]
      BY <1>1, <1>2, <1>3, <1>4, <1>5, <1>6, <2>1, <2>2
    <2>4. \A i \in 1..Len(b) : b[i] = t[i]
      BY <1>1, <2>2, <2>3
    <2> QED BY <2>2, <2>4, SeqEqual
  <1> QED BY <1>7, <1>8

(* One component more, and what is under what.                             *)
LEMMA UnderCons ==
    ASSUME NEW p \in Part, NEW t \in Text, NEW b \in Text
    PROVE  Under(Cons(p, t), b) <=> (b = t \/ Under(t, b))
  <1> DEFINE c == Cons(p, t)
  <1>1. /\ c \in Seq(Part) /\ Len(c) = Len(t) + 1
        /\ \A i \in 1..Len(t) : c[i + 1] = t[i]
    BY ConsFacts, TextIsSeq
  <1> HIDE DEF c
  <1>2. /\ t \in Seq(Part) /\ b \in Seq(Part) /\ Len(t) \in Nat \ {0} /\ Len(b) \in Nat \ {0}
    BY TextIsSeq
  <1>3. Under(c, b) <=> /\ Len(b) < Len(c)
                        /\ \A i \in 1..Len(b) : b[i] = c[Len(c) - Len(b) + i]
    BY <1>1, <1>2, UnderMeans
  <1>4. Under(t, b) <=> /\ Len(b) < Len(t)
                        /\ \A i \in 1..Len(b) : b[i] = t[Len(t) - Len(b) + i]
    BY <1>2, UnderMeans
  <1>5. ASSUME Len(b) <= Len(t), NEW i \in 1..Len(b)
        PROVE  c[Len(c) - Len(b) + i] = t[Len(t) - Len(b) + i]
    <2>1. /\ Len(t) - Len(b) + i \in 1..Len(t)
          /\ Len(c) - Len(b) + i = (Len(t) - Len(b) + i) + 1
      BY <1>1, <1>2, <1>5
    <2> QED BY <1>1, <2>1
  <1>6. CASE Len(b) < Len(t)
    <2>1. b # t
      BY <1>2, <1>6
    <2> QED BY <1>1, <1>2, <1>3, <1>4, <1>5, <1>6, <2>1 DEF c
  <1>7. CASE Len(b) = Len(t)
    <2>1. Under(c, b) <=> \A i \in 1..Len(b) : b[i] = t[i]
      BY <1>1, <1>2, <1>3, <1>5, <1>7
    <2>2. b = t <=> \A i \in 1..Len(b) : b[i] = t[i]
      BY <1>2, <1>7, SeqEqual
    <2>3. ~Under(t, b)
      BY <1>2, <1>4, <1>7
    <2> QED BY <2>1, <2>2, <2>3 DEF c
  <1>8. CASE Len(b) > Len(t)
    <2>1. b # t /\ ~Under(t, b) /\ ~Under(c, b)
      BY <1>1, <1>2, <1>3, <1>4, <1>8
    <2> QED BY <2>1 DEF c
  <1> QED BY <1>2, <1>6, <1>7, <1>8

LEMMA UnderIsLonger ==
    ASSUME NEW t \in Text, NEW b \in Text, Under(t, b) PROVE Len(b) < Len(t)
  BY UnderMeans, TextIsSeq

(* Above a text, and what is left below it.                                *)
LEMMA UnderOfConcat ==
    ASSUME NEW r \in Text, NEW b \in Text
    PROVE  /\ Under(r \o b, b) /\ Len(r \o b) - Len(b) = Len(r)
           /\ SubSeq(r \o b, 1, Len(r \o b) - Len(b)) = r
  <1> DEFINE t == r \o b
  <1>1. /\ r \in Seq(Part) /\ Len(r) \in Nat \ {0}
        /\ b \in Seq(Part) /\ Len(b) \in Nat \ {0}
    BY TextIsSeq
  <1>2. /\ t \in Seq(Part) /\ Len(t) = Len(r) + Len(b)
        /\ \A i \in 1..(Len(r) + Len(b)) :
              t[i] = IF i <= Len(r) THEN r[i] ELSE b[i - Len(r)]
    <2>1. r \in Seq(Part) /\ b \in Seq(Part)
      BY <1>1
    <2> QED BY <2>1, ConcatProperties
  <1> HIDE DEF t
  <1>3. Len(t) - Len(b) = Len(r) /\ Len(b) < Len(t)
    BY <1>1, <1>2
  <1>4. ASSUME NEW i \in 1..Len(b) PROVE b[i] = t[Len(t) - Len(b) + i]
    <2>1. Len(r) + i \in 1..(Len(r) + Len(b)) /\ ~(Len(r) + i <= Len(r)) /\ (Len(r) + i) - Len(r) = i
      BY <1>1
    <2> QED BY <1>2, <1>3, <2>1
  <1>5. Under(t, b)
    BY <1>1, <1>2, <1>3, <1>4, UnderMeans
  <1>6. SubSeq(t, 1, Len(r)) = r
    <2> DEFINE s == SubSeq(t, 1, Len(r))
    <2>1. /\ s \in Seq(Part) /\ Len(s) = Len(r) /\ \A i \in 1..Len(r) : s[i] = t[i]
      BY <1>1, <1>2
    <2> HIDE DEF s
    <2>2. \A i \in 1..Len(r) : s[i] = r[i]
      BY <1>1, <1>2, <2>1
    <2>3. s = r
      BY <1>1, <2>1, <2>2, SeqEqual
    <2> QED BY <2>3 DEF s
  <1> QED BY <1>3, <1>5, <1>6 DEF t

LEMMA SplitUnder ==
    ASSUME NEW t \in Text, NEW b \in Text, Under(t, b),
           NEW r, r = SubSeq(t, 1, Len(t) - Len(b))
    PROVE  /\ r \in Text /\ t = r \o b /\ Len(t) = Len(r) + Len(b)
           /\ \A i \in 1..Len(r) : r[i] = t[i]
  <1>1. /\ t \in Seq(Part) /\ Len(t) \in Nat \ {0}
        /\ b \in Seq(Part) /\ Len(b) \in Nat \ {0}
    BY TextIsSeq
  <1>2. /\ Len(b) < Len(t)
        /\ \A i \in 1..Len(b) : b[i] = t[Len(t) - Len(b) + i]
    BY <1>1, UnderMeans
  <1>3. /\ r \in Seq(Part) /\ Len(r) = Len(t) - Len(b)
        /\ \A i \in 1..Len(r) : r[i] = t[i]
    BY <1>1, <1>2
  <1>4. r \in Text /\ Len(t) = Len(r) + Len(b)
    <2>1. Len(r) # 0 /\ Len(t) = Len(r) + Len(b)
      BY <1>1, <1>2, <1>3
    <2>2. r # <<>>
      BY <2>1
    <2> QED BY <1>3, <2>1, <2>2 DEF Text
  <1> DEFINE c == r \o b
  <1>5. /\ c \in Seq(Part) /\ Len(c) = Len(r) + Len(b)
        /\ \A i \in 1..(Len(r) + Len(b)) :
              c[i] = IF i <= Len(r) THEN r[i] ELSE b[i - Len(r)]
    <2>1. r \in Seq(Part) /\ b \in Seq(Part)
      BY <1>1, <1>3
    <2> QED BY <2>1, ConcatProperties
  <1> HIDE DEF c
  <1>6. ASSUME NEW i \in 1..Len(t) PROVE c[i] = t[i]
    <2>1. CASE i <= Len(r)
      BY <1>3, <1>4, <1>5, <2>1
    <2>2. CASE ~(i <= Len(r))
      <3>1. i - Len(r) \in 1..Len(b) /\ Len(t) - Len(b) + (i - Len(r)) = i
        BY <1>1, <1>2, <1>3, <2>2
      <3>2. b[i - Len(r)] = t[Len(t) - Len(b) + (i - Len(r))]
        BY <1>2, <3>1
      <3> QED BY <1>4, <1>5, <2>2, <3>1, <3>2
    <2> QED BY <2>1, <2>2
  <1>7. c = t
    BY <1>1, <1>4, <1>5, <1>6, SeqEqual
  <1> QED BY <1>3, <1>4, <1>7 DEF c

-----------------------------------------------------------------------------
(* The names of accounts and groups in their DNs.                          *)
Pair(a, w) == [attr |-> a, value |-> w]

LEMMA PairFacts ==
    ASSUME NEW a \in Words, NEW w \in Words
    PROVE  /\ Pair(a, w) \in Part
           /\ Pair(a, w).attr = a /\ Pair(a, w).value = w
           /\ Lower[Trim[a]] \in Words /\ Lower[Trim[w]] \in Words
           /\ Normal(Pair(a, w)) = Pair(Lower[Trim[a]], Lower[Trim[w]])
  <1>1. Pair(a, w) \in Part /\ Pair(a, w).attr = a /\ Pair(a, w).value = w
    BY DEF Part, Pair
  <1>2. Normal(Pair(a, w)) = Pair(Lower[Trim[a]], Lower[Trim[w]])
    BY DEF Normal, FoldPart, TrimPart, Pair
  <1>3. Lower[Trim[a]] \in Words /\ Lower[Trim[w]] \in Words
    BY NamesAssumption
  <1> QED BY <1>1, <1>2, <1>3

LEMMA PartIsPair ==
    ASSUME NEW p \in Part
    PROVE  p.attr \in Words /\ p.value \in Words /\ p = Pair(p.attr, p.value)
  BY DEF Part, Pair

LEMMA OwnWord ==
    /\ OwnWords \subseteq Words
    /\ \A w \in OwnWords : Lower[Trim[w]] = w
    /\ {"", "no =", "uid", "cn", "ou", "dc", "people", "groups"} \subseteq OwnWords
  <1>1. OwnWords \subseteq Words
    BY NamesAssumption
  <1>2. \A w \in OwnWords : Lower[Trim[w]] = w
    BY NamesAssumption
  <1> QED BY <1>1, <1>2 DEF OwnWords

LEMMA OwnPart ==
    ASSUME NEW a \in OwnWords, NEW w \in Words
    PROVE  Pair(a, w) \in Part /\ Normal(Pair(a, w)) = Pair(a, Lower[Trim[w]])
  <1>1. a \in Words /\ Lower[Trim[a]] = a
    BY OwnWord
  <1> QED BY <1>1, PairFacts

LEMMA OuFacts ==
    /\ Ou("people") \in Part /\ Normal(Ou("people")) = Ou("people")
    /\ Ou("groups") \in Part /\ Normal(Ou("groups")) = Ou("groups")
    /\ Ou("people") = Pair("ou", "people") /\ Ou("groups") = Pair("ou", "groups")
  <1>1. /\ "ou" \in OwnWords /\ "people" \in OwnWords /\ "groups" \in OwnWords
        /\ "people" \in Words /\ "groups" \in Words
        /\ Lower[Trim["people"]] = "people" /\ Lower[Trim["groups"]] = "groups"
    BY OwnWord
  <1>2. Ou("people") = Pair("ou", "people") /\ Ou("groups") = Pair("ou", "groups")
    BY DEF Ou, Pair
  <1> QED BY <1>1, <1>2, OwnPart

LEMMA PlainFacts ==
    ASSUME NEW w \in Words
    PROVE  /\ Plain(w) \in Part /\ Normal(Plain(w)) = Plain(Lower[Trim[w]])
           /\ Plain(w).value = w /\ Plain(w) = Pair("no =", w)
  <1>1. "no =" \in OwnWords /\ "no =" \in Words
    BY OwnWord
  <1>2. \A v : Plain(v) = Pair("no =", v)
    BY DEF Plain, Pair
  <1>3. Pair("no =", w).value = w
    BY <1>1, PairFacts
  <1> QED BY <1>1, <1>2, <1>3, OwnPart

LEMMA EmptyShape ==
    /\ Empty = Cons(Plain(""), <<>>) /\ Empty \in Text /\ <<>> \in Seq(Part)
    /\ Empty[1].value = "" /\ Tail(Empty) = <<>> /\ Len(Empty) = 1
  <1>1. Plain("") \in Part /\ Plain("").value = ""
    BY OwnWord, PlainFacts
  <1> DEFINE e == <<>>
             p == Plain("")
             c == Cons(p, e)
  <1>2. p \in Part /\ e \in Seq(Part) /\ Len(e) = 0
    <2>1. e \in Seq(Part) /\ Len(e) = 0
      OBVIOUS
    <2> QED BY <1>1, <2>1
  <1> HIDE DEF e, p
  <1>3. c \in Text /\ Len(c) = Len(e) + 1 /\ c[1] = p /\ Tail(c) = e
    BY <1>2, ConsFacts
  <1> HIDE DEF c
  <1>4. c \in Seq(Part) /\ Len(c) = 1 /\ \A i \in 1..Len(c) : i = 1
    BY <1>2, <1>3 DEF Text
  <1>5. Empty \in Seq(Part) /\ Len(Empty) = 1 /\ Empty[1] = p
    <2>1. <<p>> \in Seq(Part) /\ Len(<<p>>) = 1 /\ <<p>>[1] = p
      BY <1>2
    <2> QED BY <2>1 DEF p, Empty
  <1>6. Empty = c
    BY <1>3, <1>4, <1>5, SeqEqual
  <1> QED BY <1>1, <1>2, <1>3, <1>4, <1>6 DEF c, e, p

LEMMA NameShape ==
    ASSUME NEW n, Name(n)
    PROVE  /\ n \in Text /\ n[1].value \in Words /\ Tail(n) \in Seq(Part)
           /\ n[1] = Plain(n[1].value)
           /\ n = Cons(Plain(n[1].value), Tail(n))
           /\ \A a : Rdn(a, n) = Cons(Pair(a, n[1].value), Tail(n))
  <1>1. n \in Text /\ n[1].attr = "no ="
    BY DEF Name
  <1>2. n[1] \in Part /\ Tail(n) \in Seq(Part) /\ n = Cons(n[1], Tail(n))
    BY <1>1, HeadAndTail
  <1>3. n[1] = Pair("no =", n[1].value) /\ n[1].value \in Words
    BY <1>1, <1>2, PartIsPair
  <1>4. n[1] = Plain(n[1].value)
    BY <1>3, PlainFacts
  <1>5. \A a : Rdn(a, n) = Cons(Pair(a, n[1].value), Tail(n))
    BY DEF Rdn, Cons, Pair
  <1> QED BY <1>1, <1>2, <1>3, <1>4, <1>5

(* A name is normal if the word and the components after it are.           *)
LEMMA NormalName ==
    ASSUME NEW n, Name(n)
    PROVE  /\ NormalizeDN(n) = Cons(Plain(Lower[Trim[n[1].value]]), NormalizeDN(Tail(n)))
           /\ NormalizeDN(n) = n <=> /\ Lower[Trim[n[1].value]] = n[1].value
                                     /\ NormalizeDN(Tail(n)) = Tail(n)
  <1> DEFINE v == n[1].value
             s == Tail(n)
             w == Lower[Trim[v]]
             x == NormalizeDN(s)
  <1>1. v \in Words /\ s \in Seq(Part) /\ n = Cons(Plain(v), s)
    BY NameShape
  <1>2. w \in Words
    BY <1>1, NamesAssumption
  <1> HIDE DEF v, s
  <1>3. Plain(v) \in Part /\ Normal(Plain(v)) = Plain(w) /\ Plain(v).value = v
    BY <1>1, PlainFacts
  <1>4. NormalizeDN(n) = Cons(Plain(w), x)
    BY <1>1, <1>3, NormalizeCons
  <1>5. Plain(w) \in Part /\ Plain(w).value = w
    BY <1>2, PlainFacts
  <1>6. x \in Seq(Part)
    BY <1>1, NormalizeType
  <1> HIDE DEF w, x
  <1>7. ASSUME NormalizeDN(n) = n PROVE w = v /\ x = s
    <2>1. Plain(w) = Plain(v) /\ x = s
      <3>1. Cons(Plain(w), x) = Cons(Plain(v), s)
        BY <1>1, <1>4, <1>7
      <3> QED BY <1>1, <1>3, <1>5, <1>6, <3>1, ConsInjective
    <2> QED BY <1>3, <1>5, <2>1
  <1>8. ASSUME w = v, x = s PROVE NormalizeDN(n) = n
    BY <1>1, <1>4, <1>8
  <1>9. NormalizeDN(n) = n <=> w = v /\ x = s
    BY <1>7, <1>8
  <1> QED BY <1>4, <1>9 DEF v, s, w, x

LEMMA NormalRdn ==
    ASSUME NEW n, Name(n), NEW a \in OwnWords
    PROVE  /\ Rdn(a, n) \in Text
           /\ NormalizeDN(Rdn(a, n)) = Cons(Pair(a, Lower[Trim[n[1].value]]),
                                            NormalizeDN(Tail(n)))
  <1> DEFINE v == n[1].value
             s == Tail(n)
             p == Pair(a, v)
  <1>1. v \in Words /\ s \in Seq(Part) /\ Rdn(a, n) = Cons(p, s)
    BY NameShape
  <1>2. p \in Part /\ Normal(p) = Pair(a, Lower[Trim[v]])
    BY <1>1, OwnPart
  <1> HIDE DEF v, s, p
  <1>3. Rdn(a, n) \in Text
    BY <1>1, <1>2, ConsFacts
  <1>4. NormalizeDN(Rdn(a, n)) = Cons(Normal(p), NormalizeDN(s))
    BY <1>1, <1>2, NormalizeCons
  <1> QED BY <1>2, <1>3, <1>4 DEF v, s

LEMMA ContainerFacts ==
    ASSUME NEW b \in Text
    PROVE  /\ PeopleBaseDN(b) = Cons(Ou("people"), b) /\ PeopleBaseDN(b) \in Text
           /\ GroupsBaseDN(b) = Cons(Ou("groups"), b) /\ GroupsBaseDN(b) \in Text
           /\ NormalizeDN(PeopleBaseDN(b)) = PeopleBaseDN(NormalizeDN(b))
           /\ NormalizeDN(GroupsBaseDN(b)) = GroupsBaseDN(NormalizeDN(b))
  <1>1. \A t : PeopleBaseDN(t) = Cons(Ou("people"), t) /\ GroupsBaseDN(t) = Cons(Ou("groups"), t)
    BY DEF PeopleBaseDN, GroupsBaseDN, Cons
  <1>2. b \in Seq(Part)
    BY TextIsSeq
  <1>3. PeopleBaseDN(b) \in Text /\ GroupsBaseDN(b) \in Text
    BY <1>1, <1>2, OuFacts, ConsFacts
  <1>4. NormalizeDN(PeopleBaseDN(b)) = PeopleBaseDN(NormalizeDN(b))
    BY <1>1, <1>2, OuFacts, NormalizeCons
  <1>5. NormalizeDN(GroupsBaseDN(b)) = GroupsBaseDN(NormalizeDN(b))
    BY <1>1, <1>2, OuFacts, NormalizeCons
  <1> QED BY <1>1, <1>3, <1>4, <1>5

(* The DNs of a name after normalisation: the same, under the same base.   *)
LEMMA NormalDNs ==
    ASSUME NEW base \in Text, NEW n, Name(n)
    PROVE  LET r(a) == NormalizeDN(Rdn(a, n))
               B == NormalizeDN(base)
           IN  /\ NormalizeDN(UserDN(base, n)) = r("uid") \o B
               /\ NormalizeDN(GroupDN(base, n)) = r("cn") \o B
               /\ NormalizeDN(LegacyUserDN(base, n)) = r("uid") \o PeopleBaseDN(B)
               /\ NormalizeDN(LegacyGroupDN(base, n)) = r("cn") \o GroupsBaseDN(B)
  <1>1. "uid" \in OwnWords /\ "cn" \in OwnWords
    BY OwnWord
  <1>2. base \in Seq(Part) /\ Rdn("uid", n) \in Seq(Part) /\ Rdn("cn", n) \in Seq(Part)
    BY <1>1, NormalRdn, TextIsSeq
  <1>3. PeopleBaseDN(base) \in Seq(Part) /\ GroupsBaseDN(base) \in Seq(Part)
    BY ContainerFacts, TextIsSeq
  <1>4. /\ NormalizeDN(PeopleBaseDN(base)) = PeopleBaseDN(NormalizeDN(base))
        /\ NormalizeDN(GroupsBaseDN(base)) = GroupsBaseDN(NormalizeDN(base))
    BY ContainerFacts
  <1>5. NormalizeDN(UserDN(base, n)) = NormalizeDN(Rdn("uid", n)) \o NormalizeDN(base)
    BY <1>2, NormalizeConcat DEF UserDN
  <1>6. NormalizeDN(GroupDN(base, n)) = NormalizeDN(Rdn("cn", n)) \o NormalizeDN(base)
    BY <1>2, NormalizeConcat DEF GroupDN
  <1>7. NormalizeDN(LegacyUserDN(base, n))
           = NormalizeDN(Rdn("uid", n)) \o PeopleBaseDN(NormalizeDN(base))
    BY <1>2, <1>3, <1>4, NormalizeConcat DEF LegacyUserDN
  <1>8. NormalizeDN(LegacyGroupDN(base, n))
           = NormalizeDN(Rdn("cn", n)) \o GroupsBaseDN(NormalizeDN(base))
    BY <1>2, <1>3, <1>4, NormalizeConcat DEF LegacyGroupDN
  <1> QED BY <1>5, <1>6, <1>7, <1>8

-----------------------------------------------------------------------------
(* Which names a bind DN has.                                              *)
LEMMA UnderOneMore ==
    ASSUME NEW r \in Text, NEW b \in Text, NEW p \in Part
    PROVE  Under(r \o b, Cons(p, b)) <=> Len(r) >= 2 /\ r[Len(r)] = p
  <1> DEFINE t == r \o b
             c == Cons(p, b)
  <1>1. /\ r \in Seq(Part) /\ Len(r) \in Nat \ {0}
        /\ b \in Seq(Part) /\ Len(b) \in Nat \ {0}
    BY TextIsSeq
  <1>2. /\ t \in Seq(Part) /\ Len(t) = Len(r) + Len(b)
        /\ \A i \in 1..(Len(r) + Len(b)) :
              t[i] = IF i <= Len(r) THEN r[i] ELSE b[i - Len(r)]
    <2>1. r \in Seq(Part) /\ b \in Seq(Part)
      BY <1>1
    <2> QED BY <2>1, ConcatProperties
  <1>3. /\ c \in Seq(Part) /\ Len(c) = Len(b) + 1 /\ c[1] = p
        /\ \A i \in 1..Len(b) : c[i + 1] = b[i]
    BY <1>1, ConsFacts, TextIsSeq
  <1> HIDE DEF t, c
  <1>4. Under(t, c) <=> /\ Len(c) < Len(t)
                        /\ \A i \in 1..Len(c) : c[i] = t[Len(t) - Len(c) + i]
    BY <1>2, <1>3, UnderMeans
  <1>5. Len(c) < Len(t) <=> Len(r) >= 2
    BY <1>1, <1>2, <1>3
  <1>6. Len(t) - Len(c) + 1 = Len(r) /\ t[Len(r)] = r[Len(r)] /\ 1 \in 1..Len(c)
    BY <1>1, <1>2, <1>3
  <1>7. ASSUME NEW i \in 1..Len(c), i # 1 PROVE c[i] = t[Len(t) - Len(c) + i]
    <2>1. /\ i - 1 \in 1..Len(b) /\ (i - 1) + 1 = i
          /\ Len(t) - Len(c) + i = Len(r) + (i - 1)
          /\ Len(r) + (i - 1) \in 1..(Len(r) + Len(b))
          /\ ~(Len(r) + (i - 1) <= Len(r))
          /\ (Len(r) + (i - 1)) - Len(r) = i - 1
      BY <1>1, <1>2, <1>3, <1>7
    <2>2. c[(i - 1) + 1] = b[i - 1]
      BY <1>3, <2>1
    <2>3. t[Len(r) + (i - 1)] = b[(Len(r) + (i - 1)) - Len(r)]
      BY <1>2, <2>1
    <2> QED BY <2>1, <2>2, <2>3
  <1>8. Under(t, c) => Len(r) >= 2 /\ r[Len(r)] = p
    BY <1>3, <1>4, <1>5, <1>6
  <1>9. Len(r) >= 2 /\ r[Len(r)] = p => Under(t, c)
    <2>1. r[Len(r)] = p => \A i \in 1..Len(c) : c[i] = t[Len(t) - Len(c) + i]
      BY <1>3, <1>6, <1>7
    <2> QED BY <1>4, <1>5, <2>1
  <1> QED BY <1>8, <1>9 DEF t, c

LEMMA NormalIsPointwise ==
    ASSUME NEW r \in Text, NEW b \in Text, NormalizeDN(r \o b) = r \o b
    PROVE  NormalizeDN(r) = r
  <1>1. r \in Seq(Part) /\ b \in Seq(Part) /\ Len(r) \in Nat /\ Len(b) \in Nat
    BY TextIsSeq
  <1> DEFINE t == r \o b
             n == NormalizeDN(r)
             m == NormalizeDN(t)
  <1>2. /\ t \in Seq(Part) /\ Len(t) = Len(r) + Len(b)
        /\ \A i \in 1..(Len(r) + Len(b)) :
              t[i] = IF i <= Len(r) THEN r[i] ELSE b[i - Len(r)]
    <2>1. r \in Seq(Part) /\ b \in Seq(Part)
      BY <1>1
    <2> QED BY <2>1, ConcatProperties
  <1>3. \A i \in 1..Len(r) : i \in 1..(Len(r) + Len(b)) /\ t[i] = r[i]
    BY <1>1, <1>2
  <1> HIDE DEF t
  <1>4. m \in Seq(Part) /\ \A i \in 1..Len(t) : m[i] = Normal(t[i])
    BY <1>2, NormalizeType
  <1>5. n \in Seq(Part) /\ Len(n) = Len(r) /\ \A i \in 1..Len(r) : n[i] = Normal(r[i])
    BY <1>1, NormalizeType
  <1>6. m = t
    BY DEF t
  <1> HIDE DEF n, m
  <1>7. \A i \in 1..Len(n) : n[i] = r[i]
    BY <1>2, <1>3, <1>4, <1>5, <1>6
  <1>8. n = r
    BY <1>1, <1>5, <1>7, SeqEqual
  <1> QED BY <1>8 DEF n

(* The DN component of a name, and the name of a DN component.             *)
LEMMA RdnOfName ==
    ASSUME NEW n, Name(n)
    PROVE  LET r == Rdn("uid", n)
           IN  /\ r \in Text /\ r[1].attr = "uid" /\ r # Rdn("uid", Empty)
               /\ n = <<Plain(r[1].value)>> \o Tail(r)
               /\ Len(r) = Len(n)
               /\ n[Len(n)] = Ou("people") <=> Len(r) >= 2 /\ r[Len(r)] = Ou("people")
               /\ NormalizeDN(n) = n => NormalizeDN(r) = r
  <1> DEFINE v == n[1].value
             s == Tail(n)
             p == Pair("uid", v)
             r == Rdn("uid", n)
  <1>1. v \in Words /\ s \in Seq(Part) /\ r = Cons(p, s) /\ n = Cons(Plain(v), s)
        /\ n \in Text /\ n # Empty
    BY NameShape DEF Name
  <1>2. "uid" \in OwnWords /\ "uid" \in Words /\ "" \in Words
    BY OwnWord
  <1>3. p \in Part /\ p.attr = "uid" /\ p.value = v
    <2>1. v \in Words
      BY <1>1
    <2> QED BY <1>2, <2>1, PairFacts
  <1>4. Plain(v) \in Part
    <2>1. v \in Words
      BY <1>1
    <2> QED BY <2>1, PlainFacts
  <1>5. NormalizeDN(n) = n => NormalizeDN(r) = r
    <2>1. NormalizeDN(r) = Cons(Pair("uid", Lower[Trim[v]]), NormalizeDN(s))
      BY <1>2, NormalRdn
    <2>2. NormalizeDN(n) = n => Lower[Trim[v]] = v /\ NormalizeDN(s) = s
      BY NormalName
    <2> QED BY <1>1, <2>1, <2>2
  <1>6. /\ r \in Text /\ r[1] = p /\ Tail(r) = s /\ Len(r) = Len(s) + 1
        /\ \A i \in 1..Len(s) : r[i + 1] = s[i]
    <2>1. r = Cons(p, s) /\ s \in Seq(Part)
      BY <1>1
    <2> HIDE DEF r, p, s
    <2> QED BY <1>3, <2>1, ConsFacts
  <1>7. /\ n[1] = Plain(v) /\ Len(n) = Len(s) + 1
        /\ \A i \in 1..Len(s) : n[i + 1] = s[i]
    <2>1. n = Cons(Plain(v), s) /\ s \in Seq(Part)
      BY <1>1
    <2> HIDE DEF s, v
    <2> QED BY <1>4, <2>1, ConsFacts
  <1>8. r # Rdn("uid", Empty)
    <2>1. Rdn("uid", Empty) = Cons(Pair("uid", ""), <<>>)
      BY EmptyShape DEF Rdn, Cons, Pair
    <2>2. Pair("uid", "") \in Part /\ Pair("uid", "").value = ""
      BY <1>2, PairFacts
    <2>3. SUFFICES ASSUME r = Rdn("uid", Empty) PROVE FALSE
      OBVIOUS
    <2>4. p = Pair("uid", "") /\ s = <<>>
      <3>1. Cons(p, s) = Cons(Pair("uid", ""), <<>>)
        BY <1>1, <2>1, <2>3
      <3>2. s \in Seq(Part) /\ <<>> \in Seq(Part)
        BY <1>1, EmptyShape
      <3> DEFINE q == Pair("uid", "")
                 e == <<>>
      <3>3. Cons(p, s) = Cons(q, e) /\ p \in Part /\ q \in Part /\ s \in Seq(Part) /\ e \in Seq(Part)
        BY <1>3, <2>2, <3>1, <3>2
      <3> HIDE DEF p, s, q, e
      <3>4. p = q /\ s = e
        BY <3>3, ConsInjective
      <3> QED BY <3>4 DEF q, e
    <2>5. v = ""
      BY <1>3, <2>2, <2>4
    <2>6. n = Empty
      BY <1>1, <2>4, <2>5, EmptyShape
    <2> QED BY <1>1, <2>6
  <1>9. n = <<Plain(r[1].value)>> \o Tail(r)
    BY <1>1, <1>3, <1>6 DEF Cons
  <1>10. n[Len(n)] = Ou("people") <=> Len(r) >= 2 /\ r[Len(r)] = Ou("people")
    <2>1. Len(s) \in Nat
      BY <1>1
    <2>2. CASE Len(s) = 0
      <3>1. Len(n) = 1 /\ ~(Len(r) >= 2)
        BY <1>6, <1>7, <2>2
      <3>2. n[1] # Ou("people")
        <4>1. Plain(v).attr = "no =" /\ Ou("people").attr = "ou"
          BY DEF Plain, Ou
        <4> QED BY <1>7, <4>1
      <3> QED BY <3>1, <3>2
    <2>3. CASE Len(s) # 0
      <3>1. Len(s) \in 1..Len(s)
        BY <2>1, <2>3
      <3> HIDE DEF r, s
      <3>2. Len(r) >= 2
        BY <1>6, <2>1, <2>3
      <3>3. n[Len(n)] = s[Len(s)] /\ r[Len(r)] = s[Len(s)]
        BY <1>6, <1>7, <3>1
      <3> QED BY <3>2, <3>3
    <2> QED BY <2>2, <2>3
  <1> HIDE DEF p, s, v
  <1> QED BY <1>3, <1>5, <1>6, <1>7, <1>8, <1>9, <1>10

LEMMA NameOfRdn ==
    ASSUME NEW r \in Text, r[1].attr = "uid", NormalizeDN(r) = r,
           NEW n, Name(n), n = <<Plain(r[1].value)>> \o Tail(r)
    PROVE  Rdn("uid", n) = r /\ NormalizeDN(n) = n
  <1> DEFINE v == r[1].value
             s == Tail(r)
  <1>1. r[1] \in Part /\ s \in Seq(Part) /\ r = Cons(r[1], s)
    BY HeadAndTail
  <1>2. r[1] = Pair("uid", v) /\ v \in Words
    BY <1>1, PartIsPair
  <1> HIDE DEF v, s
  <1>3. n = Cons(Plain(v), s)
    BY DEF Cons, v, s
  <1>4. Plain(v) \in Part /\ Plain(v).value = v
    BY <1>2, PlainFacts
  <1>5. n[1] = Plain(v) /\ Tail(n) = s
    BY <1>1, <1>3, <1>4, ConsFacts
  <1>6. Rdn("uid", n) = r
    BY <1>1, <1>2, <1>4, <1>5 DEF Rdn, Cons, Pair
  <1>7. "uid" \in OwnWords
    BY OwnWord
  <1>8. r = Cons(Pair("uid", Lower[Trim[v]]), NormalizeDN(s))
    BY <1>4, <1>5, <1>6, <1>7, NormalRdn
  <1>9. Pair("uid", v) = Pair("uid", Lower[Trim[v]]) /\ s = NormalizeDN(s)
    <2>1. Lower[Trim[v]] \in Words /\ "uid" \in Words
      BY <1>2, <1>7, NamesAssumption
    <2>2. Pair("uid", v) \in Part /\ Pair("uid", Lower[Trim[v]]) \in Part
      BY <1>2, <2>1, PairFacts
    <2>3. NormalizeDN(s) \in Seq(Part)
      BY <1>1, NormalizeType
    <2>4. Cons(Pair("uid", v), s) = Cons(Pair("uid", Lower[Trim[v]]), NormalizeDN(s))
      BY <1>1, <1>2, <1>8
    <2> QED BY <1>1, <2>2, <2>3, <2>4, ConsInjective
  <1>10. v = Lower[Trim[v]]
    <2>1. Pair("uid", v).value = v /\ Pair("uid", Lower[Trim[v]]).value = Lower[Trim[v]]
      BY DEF Pair
    <2> QED BY <1>9, <2>1
  <1>11. NormalizeDN(n) = n
    <2>1. n[1].value = v /\ Tail(n) = s
      BY <1>4, <1>5
    <2>2. Lower[Trim[n[1].value]] = n[1].value /\ NormalizeDN(Tail(n)) = Tail(n)
      BY <1>9, <1>10, <2>1
    <2> QED BY <2>2, NormalName
  <1> QED BY <1>6, <1>11

LEMMA EndsMeans ==
    ASSUME NEW base \in Text, NEW n, Name(n), NormalizeDN(n) = n
    PROVE  LET B == NormalizeDN(base)
           IN  EndsInPeople(n) <=> Under(Rdn("uid", n) \o B, PeopleBaseDN(B))
  <1> DEFINE B == NormalizeDN(base)
             r == Rdn("uid", n)
  <1>1. B \in Text /\ PeopleBaseDN(B) = Cons(Ou("people"), B)
    BY NormalizeText, ContainerFacts
  <1>2. r \in Text
    BY RdnOfName
  <1>3. n[Len(n)] = Ou("people") <=> Len(r) >= 2 /\ r[Len(r)] = Ou("people")
    BY RdnOfName
  <1> HIDE DEF r, B
  <1>4. Under(r \o B, Cons(Ou("people"), B)) <=> Len(r) >= 2 /\ r[Len(r)] = Ou("people")
    BY <1>1, <1>2, OuFacts, UnderOneMore
  <1>5. EndsInPeople(n) <=> n[Len(n)] = Ou("people")
    BY DEF EndsInPeople
  <1> QED BY <1>1, <1>3, <1>4, <1>5 DEF r, B

(* usernameFromDN finds a name exactly if it is normal and the DN is its   *)
(* legacy one, or its own and not another's legacy one.                    *)
LEMMA UsernameFound ==
    ASSUME NEW base \in Text, NEW dn \in Text, NEW n, Name(n),
           n \in UsernameFromDN(base, dn)
    PROVE  /\ NormalizeDN(n) = n
           /\ \/ NormalizeDN(dn) = NormalizeDN(LegacyUserDN(base, n))
              \/ ~EndsInPeople(n) /\ NormalizeDN(dn) = NormalizeDN(UserDN(base, n))
  <1> DEFINE d == NormalizeDN(dn)
             B == NormalizeDN(base)
             suffix == BindSuffix(d, B)
             r == SubSeq(d, 1, Len(d) - Len(suffix))
  <1>1. /\ Under(d, suffix) /\ r[1].attr = "uid"
        /\ n = <<Plain(r[1].value)>> \o Tail(r)
    BY DEF UsernameFromDN
  <1>2. d \in Text /\ B \in Text /\ PeopleBaseDN(B) \in Text
    BY NormalizeText, ContainerFacts
  <1>3. /\ suffix \in {PeopleBaseDN(B), B} /\ suffix \in Text
        /\ suffix = B => ~Under(d, PeopleBaseDN(B)) \/ B = PeopleBaseDN(B)
    BY <1>2 DEF BindSuffix
  <1>4. NormalizeDN(d) = d
    BY NormalizeIdempotent, TextIsSeq
  <1> HIDE DEF d, B, suffix
  <1>5. r \in Text /\ d = r \o suffix
    BY <1>1, <1>2, <1>3, SplitUnder
  <1> HIDE DEF r
  <1>6. NormalizeDN(r) = r
    BY <1>3, <1>4, <1>5, NormalIsPointwise
  <1>7. Rdn("uid", n) = r /\ NormalizeDN(n) = n
    BY <1>1, <1>5, <1>6, NameOfRdn
  <1>8. CASE suffix = PeopleBaseDN(B)
    <2>1. NormalizeDN(LegacyUserDN(base, n)) = NormalizeDN(Rdn("uid", n)) \o PeopleBaseDN(B)
      BY NormalDNs DEF B
    <2>2. NormalizeDN(LegacyUserDN(base, n)) = d
      BY <1>5, <1>6, <1>7, <1>8, <2>1
    <2> QED BY <1>7, <2>2 DEF d
  <1>9. CASE suffix # PeopleBaseDN(B)
    <2>1. suffix = B /\ ~Under(d, PeopleBaseDN(B))
      BY <1>3, <1>9
    <2>2. NormalizeDN(UserDN(base, n)) = NormalizeDN(Rdn("uid", n)) \o B
      BY NormalDNs DEF B
    <2>3. NormalizeDN(UserDN(base, n)) = d
      BY <1>5, <1>6, <1>7, <2>1, <2>2
    <2>4. EndsInPeople(n) <=> Under(Rdn("uid", n) \o B, PeopleBaseDN(B))
      BY <1>7, EndsMeans DEF B
    <2>5. ~EndsInPeople(n)
      BY <1>5, <1>7, <2>1, <2>4
    <2> QED BY <1>7, <2>3, <2>5 DEF d
  <1> QED BY <1>8, <1>9

LEMMA UsernameFinds ==
    ASSUME NEW base \in Text, NEW dn \in Text, NEW n, Name(n),
           NormalizeDN(n) = n,
           \/ NormalizeDN(dn) = NormalizeDN(LegacyUserDN(base, n))
           \/ ~EndsInPeople(n) /\ NormalizeDN(dn) = NormalizeDN(UserDN(base, n))
    PROVE  n \in UsernameFromDN(base, dn)
  <1> DEFINE d == NormalizeDN(dn)
             B == NormalizeDN(base)
             P == PeopleBaseDN(B)
             r == Rdn("uid", n)
             suffix == BindSuffix(d, B)
  <1>1. /\ r \in Text /\ r[1].attr = "uid" /\ r # Rdn("uid", Empty)
        /\ n = <<Plain(r[1].value)>> \o Tail(r) /\ NormalizeDN(r) = r
    BY RdnOfName
  <1>2. B \in Text /\ P \in Text
    BY NormalizeText, ContainerFacts
  <1>3. /\ NormalizeDN(LegacyUserDN(base, n)) = NormalizeDN(r) \o P
        /\ NormalizeDN(UserDN(base, n)) = NormalizeDN(r) \o B
    BY NormalDNs
  <1>4. EndsInPeople(n) <=> Under(r \o B, P)
    BY EndsMeans
  <1>5. d = r \o P \/ (~Under(r \o B, P) /\ d = r \o B)
    BY <1>1, <1>3, <1>4
  <1> HIDE DEF r, P, B, d
  <1>6. suffix = IF Under(d, P) THEN P ELSE B
    BY DEF BindSuffix, P
  <1> HIDE DEF suffix
  <1>7. suffix \in Text /\ d = r \o suffix
    <2>1. Under(r \o P, P)
      BY <1>1, <1>2, UnderOfConcat
    <2> QED BY <1>2, <1>5, <1>6, <2>1
  <1>8. Under(d, suffix) /\ SubSeq(d, 1, Len(d) - Len(suffix)) = r
    BY <1>1, <1>7, UnderOfConcat
  <1> DEFINE x == SubSeq(d, 1, Len(d) - Len(suffix))
  <1>9. UsernameFromDN(base, dn)
           = IF Under(d, suffix) /\ x[1].attr = "uid" /\ x # Rdn("uid", Empty)
             THEN {<<Plain(x[1].value)>> \o Tail(x)}
             ELSE {}
    BY DEF UsernameFromDN, suffix, B, d
  <1>10. x = r
    BY <1>8
  <1> HIDE DEF x
  <1> QED BY <1>1, <1>8, <1>9, <1>10

LEMMA UsernameIsOne ==
    ASSUME NEW base, NEW dn, NEW m \in UsernameFromDN(base, dn), NEW n \in UsernameFromDN(base, dn)
    PROVE  m = n
  BY DEF UsernameFromDN

-----------------------------------------------------------------------------
(* The reachable states.                                                   *)
Stored == baseDN \in Text /\ dir \in Directories
AsksSearch(q) ==
    /\ asked.kind = "search" /\ asked.base = q.base /\ asked.scope = q.scope
    /\ asked.filter = q.filter /\ asked.attrs = q.attrs /\ asked.id = q.id
AskedKnown ==
    \/ asked = Nothing
    \/ asked.kind = "bind" /\ asked.dn \in BindDNs
    \/ \E q \in Searches : AsksSearch(q)
BindInv == Stored /\ AskedKnown /\ BindNamesTheAccount

LEMMA BaseDNIsText ==
    ASSUME NEW t \in Text, NEW b \in NormalizeBaseDN(t)
    PROVE  b \in Text /\ \A i \in 1..Len(b) : b[i].attr = "dc"
  <1>1. t \in Seq(Part) /\ Len(t) \in Nat \ {0} /\ DOMAIN t = 1..Len(t)
        /\ \A i \in 1..Len(t) : t[i] \in Part
    BY TextIsSeq
  <1>2. b = [i \in DOMAIN t |-> [attr |-> "dc", value |-> Trim[t[i].value]]]
    BY DEF NormalizeBaseDN
  <1>3. b = [i \in 1..Len(t) |-> Pair("dc", Trim[t[i].value])]
    BY <1>1, <1>2 DEF Pair
  <1>4. \A i \in 1..Len(t) : Trim[t[i].value] \in Words
    BY <1>1, NamesAssumption DEF Part
  <1>5. "dc" \in Words
    BY OwnWord
  <1>6. \A i \in 1..Len(t) : /\ Pair("dc", Trim[t[i].value]) \in Part
                             /\ Pair("dc", Trim[t[i].value]).attr = "dc"
    BY <1>4, <1>5, PairFacts
  <1>7. b \in Seq(Part) /\ Len(b) = Len(t)
    BY <1>1, <1>3, <1>6
  <1>8. \A i \in 1..Len(b) : b[i].attr = "dc"
    BY <1>3, <1>6, <1>7
  <1>9. b # <<>>
    BY <1>1, <1>7
  <1> QED BY <1>7, <1>8, <1>9 DEF Text

LEMMA NamesOfDirectory ==
    ASSUME NEW d \in Directories
    PROVE  (\A u \in d.users : Name(u.name)) /\ (\A g \in d.groups : Name(g))
  BY AnswersAssumption

(* The account that a bind reaches.                                        *)
LEMMA ReachesMeans ==
    ASSUME NEW dn \in Text, NEW n, Name(n), baseDN \in Text
    PROVE  n \in UsernameFromDN(baseDN, dn) <=> NormalizeDN(n) = n /\ Reaches(dn, n)
  <1>1. Reaches(dn, n) <=> \/ NormalizeDN(dn) = NormalizeDN(LegacyUserDN(baseDN, n))
                           \/ ~EndsInPeople(n) /\ NormalizeDN(dn) = NormalizeDN(UserDN(baseDN, n))
    BY DEF Reaches, Same
  <1>2. n \in UsernameFromDN(baseDN, dn) => NormalizeDN(n) = n /\ Reaches(dn, n)
    BY <1>1, UsernameFound
  <1>3. NormalizeDN(n) = n /\ Reaches(dn, n) => n \in UsernameFromDN(baseDN, dn)
    BY <1>1, UsernameFinds
  <1> QED BY <1>2, <1>3

LEMMA BindStep ==
    ASSUME BindInv, NEW dn \in BindDNs, Bind(dn)
    PROVE  BindNamesTheAccount'
  <1> DEFINE found == UsernameFromDN(baseDN, dn)
             accounts == {u \in dir.users : u.name \in found}
             named == {u \in dir.users : Reaches(dn, u.name)}
  <1>1. dn \in Text /\ baseDN \in Text /\ \A u \in dir.users : Name(u.name)
    BY AnswersAssumption, NamesOfDirectory DEF BindInv, Stored
  <1>2. \A u \in dir.users : u.name \in found <=> NormalizeDN(u.name) = u.name /\ Reaches(dn, u.name)
    BY <1>1, ReachesMeans
  <1>3. /\ baseDN' = baseDN /\ dir' = dir /\ asked'.dn = dn
        /\ (answer'.code = "success" /\ \E u \in accounts : who'.name = u.name)
           \/ (answer'.code # "success" /\ accounts = {})
    BY DEF Bind, Result
  <1>4. (\E u \in named : NormalizeDN(u.name) = u.name) <=> accounts # {}
    BY <1>2
  <1>5. \A u \in accounts : u \in named
    BY <1>2
  <1> DEFINE named1 == {u \in dir.users : Reaches(asked.dn, u.name)}
  <1>6. named1' = named
    BY <1>3 DEF Reaches, Same
  <1> HIDE DEF found, accounts, named
  <1>7. answer'.code = "success" <=> \E u \in named : NormalizeDN(u.name) = u.name
    BY <1>3, <1>4
  <1>8. answer'.code = "success" => who'.name \in {u.name : u \in named}
    BY <1>3, <1>5
  <1>9. /\ answer'.code = "success" <=> \E u \in named1' : NormalizeDN(u.name) = u.name
        /\ answer'.code = "success" => who'.name \in {u.name : u \in named1'}
    BY <1>6, <1>7, <1>8
  <1> QED BY <1>9 DEF BindNamesTheAccount

LEMMA NoBindNoClaim ==
    ASSUME asked' = Nothing \/ asked'.kind # "bind"
    PROVE  BindNamesTheAccount'
  BY DEF BindNamesTheAccount

LEMMA StoredInit == AnswersInit => Stored /\ AskedKnown
  <1>1. AnswersInit => baseDN \in Text
    BY AnswersAssumption, BaseDNIsText DEF AnswersInit
  <1> QED BY <1>1 DEF AnswersInit, Stored, AskedKnown

LEMMA StoredStep ==
    ASSUME Stored, AskedKnown, [AnswersNext]_answersVars
    PROVE  Stored' /\ AskedKnown'
  <1>1. ASSUME NEW t \in BaseDNs, UpdateBaseDN(t) PROVE Stored' /\ AskedKnown'
    <2>1. baseDN' \in Text
      BY <1>1, AnswersAssumption, BaseDNIsText DEF UpdateBaseDN
    <2> QED BY <1>1, <2>1 DEF UpdateBaseDN, Stored, AskedKnown
  <1>2. ASSUME NEW d \in Directories, ChangeDirectory(d) PROVE Stored' /\ AskedKnown'
    BY <1>2 DEF ChangeDirectory, Stored, AskedKnown
  <1>3. ASSUME NEW dn \in BindDNs, Bind(dn) PROVE Stored' /\ AskedKnown'
    <2>1. asked'.kind = "bind" /\ asked'.dn = dn
      BY <1>3 DEF Bind
    <2>2. baseDN' = baseDN /\ dir' = dir
      BY <1>3 DEF Bind
    <2> QED BY <2>1, <2>2 DEF Stored, AskedKnown
  <1>4. ASSUME NEW q \in Searches, Search(q) PROVE Stored' /\ AskedKnown'
    <2>1. AsksSearch(q)'
      BY <1>4 DEF Search, AsksSearch
    <2>2. baseDN' = baseDN /\ dir' = dir
      BY <1>4 DEF Search
    <2> QED BY <2>1, <2>2 DEF Stored, AskedKnown
  <1>5. CASE Done
    BY <1>5 DEF Done, Stored, AskedKnown
  <1>6. CASE UNCHANGED answersVars
    BY <1>6 DEF answersVars, Stored, AskedKnown, AsksSearch
  <1> QED BY <1>1, <1>2, <1>3, <1>4, <1>5, <1>6 DEF AnswersNext

(* handleBind: a bind succeeds exactly if the DN is one of an account with *)
(* a normal name under the base DN now in force, and it becomes that one.  *)
THEOREM BindsReachTheirAccount == AnswersSpec => []BindNamesTheAccount
  <1>1. AnswersInit => BindInv
    BY StoredInit DEF AnswersInit, BindInv, BindNamesTheAccount
  <1>2. BindInv /\ [AnswersNext]_answersVars => BindInv'
    <2> SUFFICES ASSUME BindInv, [AnswersNext]_answersVars PROVE BindInv'
      OBVIOUS
    <2>1. Stored' /\ AskedKnown'
      BY StoredStep DEF BindInv
    <2>2. ASSUME NEW dn \in BindDNs, Bind(dn) PROVE BindNamesTheAccount'
      BY <2>2, BindStep
    <2>3. ASSUME NEW q \in Searches, Search(q) PROVE BindNamesTheAccount'
      <3>1. asked'.kind # "bind"
        BY <2>3 DEF Search
      <3> QED BY <3>1, NoBindNoClaim
    <2>4. ASSUME \/ \E t \in BaseDNs : UpdateBaseDN(t)
                 \/ \E d \in Directories : ChangeDirectory(d)
                 \/ Done
          PROVE  BindNamesTheAccount'
      <3>1. asked' = Nothing
        BY <2>4 DEF UpdateBaseDN, ChangeDirectory, Done
      <3> QED BY <3>1, NoBindNoClaim
    <2>5. ASSUME UNCHANGED answersVars PROVE BindNamesTheAccount'
      BY <2>5 DEF BindInv, answersVars, BindNamesTheAccount, Reaches, Same
    <2>6. BindNamesTheAccount'
      BY <2>2, <2>3, <2>4, <2>5 DEF AnswersNext
    <2> QED BY <2>1, <2>6 DEF BindInv
  <1>3. BindInv => BindNamesTheAccount
    BY DEF BindInv
  <1> QED BY <1>1, <1>2, <1>3, PTL DEF AnswersSpec

-----------------------------------------------------------------------------
(* Where the entries of the tree are, after normalisation.                 *)
PlaceOf(e) == NormalizeDN(e.dn)

LEMMA ShortRdn ==
    ASSUME NEW n, Name(n), Len(n) = 1, NEW a \in OwnWords
    PROVE  \E w \in Words : NormalizeDN(Rdn(a, n)) = <<Pair(a, w)>>
  <1> DEFINE v == Lower[Trim[n[1].value]]
             s == Tail(n)
             x == NormalizeDN(s)
             p == Pair(a, v)
             r == NormalizeDN(Rdn(a, n))
  <1>1. r = Cons(p, x)
    BY NormalRdn
  <1>2. s \in Seq(Part) /\ Len(s) = 0
    <2>1. n \in Text
      BY DEF Name
    <2>2. s \in Seq(Part) /\ Len(n) = Len(s) + 1
      BY <2>1, HeadAndTail
    <2>3. Len(s) \in Nat
      BY <2>2
    <2> QED BY <2>2, <2>3
  <1>3. x \in Seq(Part) /\ Len(x) = 0
    BY <1>2, NormalizeType
  <1>4. p \in Part /\ v \in Words
    <2>1. n[1].value \in Words
      BY NameShape
    <2>2. v \in Words /\ a \in Words
      BY <2>1, OwnWord, NamesAssumption
    <2> QED BY <2>2, PairFacts
  <1> HIDE DEF p, x, r, v, s
  <1>5. r \in Seq(Part) /\ Len(r) = 1 /\ r[1] = p
    <2>1. r \in Text /\ Len(r) = Len(x) + 1 /\ r[1] = p
      BY <1>1, <1>3, <1>4, ConsFacts
    <2> QED BY <1>3, <2>1, TextIsSeq
  <1>6. <<p>> \in Seq(Part) /\ Len(<<p>>) = 1 /\ <<p>>[1] = p
    BY <1>4
  <1>7. r = <<p>>
    <2> DEFINE z == <<p>>
    <2>1. z \in Seq(Part) /\ Len(z) = 1 /\ z[1] = p
      BY <1>6
    <2> HIDE DEF z
    <2>2. \A i \in 1..Len(r) : r[i] = z[i]
      BY <1>5, <2>1
    <2>3. r = z
      BY <1>5, <2>1, <2>2, SeqEqual
    <2> QED BY <2>3 DEF z
  <1> QED BY <1>4, <1>7 DEF p, r

LEMMA ShortDNs ==
    ASSUME NEW base \in Text, NEW n, Name(n), Len(n) = 1
    PROVE  LET B == NormalizeDN(base)
           IN  /\ \E w \in Words :
                     /\ NormalizeDN(UserDN(base, n)) = Cons(Pair("uid", w), B)
                     /\ NormalizeDN(LegacyUserDN(base, n))
                           = Cons(Pair("uid", w), Cons(Ou("people"), B))
               /\ \E w \in Words :
                     /\ NormalizeDN(GroupDN(base, n)) = Cons(Pair("cn", w), B)
                     /\ NormalizeDN(LegacyGroupDN(base, n))
                           = Cons(Pair("cn", w), Cons(Ou("groups"), B))
  <1> DEFINE B == NormalizeDN(base)
  <1>1. "uid" \in OwnWords /\ "cn" \in OwnWords
    BY OwnWord
  <1>2. PICK v \in Words : NormalizeDN(Rdn("uid", n)) = <<Pair("uid", v)>>
    BY <1>1, ShortRdn
  <1>3. PICK w \in Words : NormalizeDN(Rdn("cn", n)) = <<Pair("cn", w)>>
    BY <1>1, ShortRdn
  <1>4. B \in Text
    BY NormalizeText
  <1>5. PeopleBaseDN(B) = Cons(Ou("people"), B) /\ GroupsBaseDN(B) = Cons(Ou("groups"), B)
    BY <1>4, ContainerFacts
  <1>6. /\ NormalizeDN(UserDN(base, n)) = Cons(Pair("uid", v), B)
        /\ NormalizeDN(LegacyUserDN(base, n)) = Cons(Pair("uid", v), Cons(Ou("people"), B))
    BY <1>2, <1>5, NormalDNs DEF Cons
  <1>7. /\ NormalizeDN(GroupDN(base, n)) = Cons(Pair("cn", w), B)
        /\ NormalizeDN(LegacyGroupDN(base, n)) = Cons(Pair("cn", w), Cons(Ou("groups"), B))
    BY <1>3, <1>5, NormalDNs DEF Cons
  <1> QED BY <1>6, <1>7

(* The kinds of entries, by their DNs: those without another name, and     *)
(* those with a legacy DN in the container with the name word.             *)
IsBranch(e, dn) == PlaceOf(e) = dn /\ e.aliases = {}
IsLeaf(e, attr, word, base) ==
    \E x \in Part :
        /\ x.attr = attr
        /\ PlaceOf(e) = Cons(x, base)
        /\ \E dn : e.aliases = {dn} /\ NormalizeDN(dn) = Cons(x, Cons(Ou(word), base))

LEMMA EntryKinds ==
    ASSUME NEW base \in Text
    PROVE  LET B == NormalizeDN(base)
           IN  /\ IsBranch(BaseEntry(base), B)
               /\ IsBranch(ContainerEntry("people", base), Cons(Ou("people"), B))
               /\ IsBranch(ContainerEntry("groups", base), Cons(Ou("groups"), B))
               /\ \A u, gs : Name(u.name) /\ Len(u.name) = 1
                                => IsLeaf(UserEntry(u, gs, base), "uid", "people", B)
               /\ \A g, ms : Name(g) /\ Len(g) = 1
                                => IsLeaf(GroupEntry(g, ms, base), "cn", "groups", B)
  <1> DEFINE B == NormalizeDN(base)
  <1>1. IsBranch(BaseEntry(base), B)
    BY DEF IsBranch, PlaceOf, BaseEntry, Entry
  <1>2. /\ IsBranch(ContainerEntry("people", base), NormalizeDN(PeopleBaseDN(base)))
        /\ IsBranch(ContainerEntry("groups", base), NormalizeDN(GroupsBaseDN(base)))
    BY DEF IsBranch, PlaceOf, ContainerEntry, Entry, PeopleBaseDN, GroupsBaseDN
  <1>3. B \in Text
    BY NormalizeText
  <1>4. /\ NormalizeDN(PeopleBaseDN(base)) = Cons(Ou("people"), B)
        /\ NormalizeDN(GroupsBaseDN(base)) = Cons(Ou("groups"), B)
    BY <1>3, ContainerFacts
  <1>5. "uid" \in Words /\ "cn" \in Words
    BY OwnWord
  <1>6. ASSUME NEW u, NEW gs, Name(u.name), Len(u.name) = 1
        PROVE  IsLeaf(UserEntry(u, gs, base), "uid", "people", B)
    <2> DEFINE e == UserEntry(u, gs, base)
    <2>1. PICK w \in Words : /\ NormalizeDN(UserDN(base, u.name)) = Cons(Pair("uid", w), B)
                             /\ NormalizeDN(LegacyUserDN(base, u.name))
                                   = Cons(Pair("uid", w), Cons(Ou("people"), B))
      BY <1>6, ShortDNs
    <2>2. e.dn = UserDN(base, u.name) /\ e.aliases = {LegacyUserDN(base, u.name)}
      BY DEF UserEntry, Entry
    <2>3. Pair("uid", w) \in Part /\ Pair("uid", w).attr = "uid"
      BY <1>5, PairFacts
    <2> HIDE DEF e, B
    <2> QED BY <2>1, <2>2, <2>3 DEF IsLeaf, PlaceOf, e
  <1>7. ASSUME NEW g, NEW ms, Name(g), Len(g) = 1
        PROVE  IsLeaf(GroupEntry(g, ms, base), "cn", "groups", B)
    <2> DEFINE e == GroupEntry(g, ms, base)
    <2>1. PICK w \in Words : /\ NormalizeDN(GroupDN(base, g)) = Cons(Pair("cn", w), B)
                             /\ NormalizeDN(LegacyGroupDN(base, g))
                                   = Cons(Pair("cn", w), Cons(Ou("groups"), B))
      BY <1>7, ShortDNs
    <2>2. e.dn = GroupDN(base, g) /\ e.aliases = {LegacyGroupDN(base, g)}
      BY DEF GroupEntry, Entry
    <2>3. Pair("cn", w) \in Part /\ Pair("cn", w).attr = "cn"
      BY <1>5, PairFacts
    <2> HIDE DEF e, B
    <2> QED BY <2>1, <2>2, <2>3 DEF IsLeaf, PlaceOf, e
  <1> QED BY <1>1, <1>2, <1>4, <1>6, <1>7

(* What it takes for them to be in a scope.                                *)
LEMMA ParentFacts ==
    /\ \A p \in Part, t \in Text : ParentDN(Cons(p, t)) = t
    /\ \A t \in Text, b \in Text :
          b # Empty => (ParentDN(t) = b <=> Under(t, b) /\ Len(t) = Len(b) + 1)
  <1>1. ASSUME NEW p \in Part, NEW t \in Text PROVE ParentDN(Cons(p, t)) = t
    <2>1. t \in Seq(Part) /\ Len(t) \in Nat \ {0}
      BY TextIsSeq
    <2>2. Tail(Cons(p, t)) = t /\ Len(Cons(p, t)) = Len(t) + 1
      BY <2>1, ConsFacts
    <2>3. Len(Cons(p, t)) # 1
      BY <2>1, <2>2
    <2> QED BY <2>2, <2>3 DEF ParentDN
  <1>2. ASSUME NEW t \in Text, NEW b \in Text, b # Empty
        PROVE  ParentDN(t) = b <=> Under(t, b) /\ Len(t) = Len(b) + 1
    <2> DEFINE h == t[1]
               s == Tail(t)
    <2>1. h \in Part /\ s \in Seq(Part) /\ t = Cons(h, s) /\ Len(t) = Len(s) + 1
      BY HeadAndTail
    <2>2. Len(t) \in Nat \ {0} /\ Len(b) \in Nat \ {0} /\ Len(s) \in Nat
      BY <2>1, TextIsSeq
    <2>3. CASE Len(t) = 1
      <3>1. ParentDN(t) = Empty
        BY <2>3 DEF ParentDN
      <3>2. ~(Len(t) = Len(b) + 1)
        BY <2>2, <2>3
      <3> QED BY <1>2, <3>1, <3>2
    <2>4. CASE Len(t) # 1
      <3>1. ParentDN(t) = s
        BY <2>4 DEF ParentDN
      <3> HIDE DEF h, s
      <3>2. s \in Text
        <4>1. s # <<>>
          BY <2>1, <2>2, <2>4
        <4> QED BY <2>1, <4>1 DEF Text
      <3>3. Under(t, b) <=> b = s \/ Under(s, b)
        BY <2>1, <3>2, UnderCons
      <3>4. Under(s, b) => Len(b) < Len(s)
        BY <3>2, UnderIsLonger
      <3>5. s = b => Under(t, b) /\ Len(t) = Len(b) + 1
        BY <2>1, <3>3
      <3>6. Under(t, b) /\ Len(t) = Len(b) + 1 => s = b
        BY <2>1, <2>2, <3>3, <3>4
      <3> QED BY <3>1, <3>5, <3>6
    <2> QED BY <2>3, <2>4
  <1> QED BY <1>1, <1>2

Reach(b, scope, d) ==
    \/ scope = "base" /\ d = b
    \/ scope = "one" /\ ParentDN(d) = b
    \/ scope = "sub" /\ (d = b \/ Under(d, b))

LEMMA ScopeOfBranch ==
    ASSUME NEW e, NEW dn, IsBranch(e, dn), NEW base, NEW scope
    PROVE  EntryWithinScope(base, scope, e) <=> Reach(NormalizeDN(base), scope, dn)
  <1>1. {e.dn} \cup e.aliases = {e.dn} /\ NormalizeDN(e.dn) = dn
    BY DEF IsBranch, PlaceOf
  <1>2. EntryWithinScope(base, scope, e) <=> DnWithinScope(base, scope, e.dn)
    BY <1>1 DEF EntryWithinScope
  <1> QED BY <1>1, <1>2 DEF DnWithinScope, InSubtree, Reach

LEMMA ScopeOfLeaf ==
    ASSUME NEW e, NEW attr, NEW word \in {"people", "groups"}, NEW b \in Text,
           NEW x \in Part, NEW legacy,
           PlaceOf(e) = Cons(x, b), e.aliases = {legacy},
           NormalizeDN(legacy) = Cons(x, Cons(Ou(word), b)),
           NEW base, NEW scope
    PROVE  LET q == NormalizeDN(base)
           IN  EntryWithinScope(base, scope, e)
                  <=> Reach(q, scope, Cons(x, b)) \/ Reach(q, scope, Cons(x, Cons(Ou(word), b)))
  <1> DEFINE q == NormalizeDN(base)
  <1>1. EntryWithinScope(base, scope, e)
           <=> DnWithinScope(base, scope, e.dn) \/ DnWithinScope(base, scope, legacy)
    BY DEF EntryWithinScope
  <1>2. \A dn : DnWithinScope(base, scope, dn) <=> Reach(q, scope, NormalizeDN(dn))
    BY DEF DnWithinScope, InSubtree, Reach
  <1>3. NormalizeDN(e.dn) = Cons(x, b)
    BY DEF PlaceOf
  <1> QED BY <1>1, <1>2, <1>3

LEMMA ReachOf ==
    ASSUME NEW t \in Text, NEW b \in Text, b # Empty, NEW scope
    PROVE  Reach(b, scope, t) <=>
              \/ scope = "base" /\ t = b
              \/ scope = "one" /\ Under(t, b) /\ Len(t) = Len(b) + 1
              \/ scope = "sub" /\ (t = b \/ Under(t, b))
  BY ParentFacts DEF Reach

LEMMA ReachOfCons ==
    ASSUME NEW p \in Part, NEW t \in Text, NEW b \in Text, NEW scope
    PROVE  Reach(b, scope, Cons(p, t)) <=>
              \/ scope = "base" /\ Cons(p, t) = b
              \/ scope = "one" /\ t = b
              \/ scope = "sub" /\ (Cons(p, t) = b \/ t = b \/ Under(t, b))
  <1>1. ParentDN(Cons(p, t)) = t
    BY ParentFacts
  <1>2. Under(Cons(p, t), b) <=> b = t \/ Under(t, b)
    BY UnderCons
  <1> QED BY <1>1, <1>2 DEF Reach

(* The places of a tree with base b: all different.                        *)
LEMMA PlacesDiffer ==
    ASSUME NEW b \in Text, NEW x \in Part, x.attr \in {"uid", "cn"},
           NEW word \in {"people", "groups"}, NEW q \in Text
    PROVE  LET P == Cons(Ou("people"), b)
               G == Cons(Ou("groups"), b)
               X == Cons(x, b)
               Y == Cons(x, Cons(Ou(word), b))
           IN  /\ P \in Text /\ G \in Text /\ X \in Text /\ Y \in Text
               /\ b # P /\ b # G /\ P # G
               /\ X # b /\ X # P /\ X # G /\ Y # b /\ Y # P /\ Y # G
               /\ Under(b, q) => q # b /\ q # P /\ q # G /\ q # X /\ q # Y
  <1> DEFINE P == Cons(Ou("people"), b)
             G == Cons(Ou("groups"), b)
             K == Cons(Ou(word), b)
             X == Cons(x, b)
             Y == Cons(x, K)
  <1>1. b \in Seq(Part) /\ Len(b) \in Nat
    BY TextIsSeq
  <1>2. Ou("people") \in Part /\ Ou("groups") \in Part /\ Ou(word) \in Part
    BY OuFacts
  <1>3. P \in Text /\ Len(P) = Len(b) + 1
    BY <1>1, <1>2, ConsFacts
  <1>4. G \in Text /\ Len(G) = Len(b) + 1
    BY <1>1, <1>2, ConsFacts
  <1>5. X \in Text /\ Len(X) = Len(b) + 1
    BY <1>1, ConsFacts
  <1>6. K \in Text /\ Len(K) = Len(b) + 1
    BY <1>1, <1>2, ConsFacts
  <1>7. Y \in Text /\ Len(Y) = Len(b) + 2
    <2>1. K \in Seq(Part)
      BY <1>6, TextIsSeq
    <2> HIDE DEF K
    <2>2. Y \in Text /\ Len(Y) = Len(K) + 1
      BY <2>1, ConsFacts
    <2> QED BY <1>1, <1>6, <2>2
  <1>8. /\ x # Ou("people") /\ x # Ou("groups") /\ Ou("people") # Ou("groups")
    <2>1. /\ Ou("people").attr = "ou" /\ Ou("groups").attr = "ou"
          /\ Ou("people").value = "people" /\ Ou("groups").value = "groups"
      BY DEF Ou
    <2> QED BY <2>1
  <1>9. X # P /\ X # G /\ P # G
    BY <1>1, <1>2, <1>8, ConsInjective
  <1>10. Under(b, q) => Len(q) < Len(b) /\ Len(q) \in Nat
    BY UnderIsLonger, TextIsSeq
  <1> HIDE DEF P, G, X, Y, K
  <1>11. b # P /\ b # G /\ X # b /\ Y # b /\ Y # P /\ Y # G
    BY <1>1, <1>3, <1>4, <1>5, <1>7
  <1>12. Under(b, q) => q # b /\ q # P /\ q # G /\ q # X /\ q # Y
    BY <1>1, <1>3, <1>4, <1>5, <1>7, <1>10
  <1> QED BY <1>3, <1>4, <1>5, <1>7, <1>9, <1>11, <1>12 DEF P, G, X, Y, K

LEMMA KindsDiffer ==
    ASSUME NEW e, NEW b \in Text
    PROVE  /\ \A d, f : IsBranch(e, d) /\ IsBranch(e, f) => d = f
           /\ \A d, a, w, c : ~(IsBranch(e, d) /\ IsLeaf(e, a, w, c))
           /\ \A a, c, v, w : IsLeaf(e, a, v, b) /\ IsLeaf(e, c, w, b) => a = c
           /\ \A d : IsBranch(e, d) => Cardinality(e.aliases) # 1
           /\ \A a, w, c : IsLeaf(e, a, w, c) => Cardinality(e.aliases) = 1
  <1>1. \A d, f : IsBranch(e, d) /\ IsBranch(e, f) => d = f
    BY DEF IsBranch
  <1>2. \A d, a, w, c : ~(IsBranch(e, d) /\ IsLeaf(e, a, w, c))
    BY DEF IsBranch, IsLeaf
  <1>3. ASSUME NEW a, NEW c, NEW v, NEW w, IsLeaf(e, a, v, b), IsLeaf(e, c, w, b)
        PROVE  a = c
    <2>1. PICK x \in Part : x.attr = a /\ PlaceOf(e) = Cons(x, b)
      BY <1>3 DEF IsLeaf
    <2>2. PICK y \in Part : y.attr = c /\ PlaceOf(e) = Cons(y, b)
      BY <1>3 DEF IsLeaf
    <2>3. x = y
      BY <2>1, <2>2, ConsInjective, TextIsSeq
    <2> QED BY <2>1, <2>2, <2>3
  <1>4. \A d : IsBranch(e, d) => Cardinality(e.aliases) # 1
    BY FS_EmptySet DEF IsBranch
  <1>5. \A a, w, c : IsLeaf(e, a, w, c) => Cardinality(e.aliases) = 1
    BY FS_Singleton DEF IsLeaf
  <1> QED BY <1>1, <1>2, <1>3, <1>4, <1>5

-----------------------------------------------------------------------------
(* The entries that a connection may see, one by one.                      *)
Accounts == {UserEntry(u, GroupsOf(dir, u.name), baseDN) : u \in VisibleUsers}
ShortNames == \A name \in AllNames : Len(name) = 1
Branch(e, word) == e = ContainerEntry(word, baseDN)

LEMMA KindOfEntry ==
    ASSUME Stored, ShortNames, NEW e \in VisibleEntries
    PROVE  LET B == NormalizeDN(baseDN)
               P == Cons(Ou("people"), B)
               G == Cons(Ou("groups"), B)
               base == e = BaseEntry(baseDN)
               leaf == Cardinality(e.aliases) = 1
           IN  \/ /\ IsBranch(e, B) /\ base /\ e.dn = baseDN
                  /\ ~Branch(e, "people") /\ ~Branch(e, "groups") /\ e \notin Accounts /\ ~leaf
               \/ /\ IsBranch(e, P) /\ Branch(e, "people") /\ e.dn # baseDN
                  /\ ~base /\ ~Branch(e, "groups") /\ e \notin Accounts /\ ~leaf
               \/ /\ IsBranch(e, G) /\ Branch(e, "groups") /\ e.dn # baseDN
                  /\ ~base /\ ~Branch(e, "people") /\ e \notin Accounts /\ ~leaf
               \/ /\ IsLeaf(e, "uid", "people", B) /\ e \in Accounts /\ leaf /\ e.dn # baseDN
                  /\ ~base /\ ~Branch(e, "people") /\ ~Branch(e, "groups")
               \/ /\ IsLeaf(e, "cn", "groups", B) /\ e \notin Accounts /\ leaf /\ e.dn # baseDN
                  /\ ~base /\ ~Branch(e, "people") /\ ~Branch(e, "groups")
  <1> DEFINE B == NormalizeDN(baseDN)
             P == Cons(Ou("people"), B)
             G == Cons(Ou("groups"), B)
             BE == BaseEntry(baseDN)
             PE == ContainerEntry("people", baseDN)
             GE == ContainerEntry("groups", baseDN)
             Gs == {GroupEntry(g, MembersOf(dir, g), baseDN) : g \in VisibleGroups}
  <1>1. baseDN \in Text /\ B \in Text
    BY NormalizeText DEF Stored
  <1>2. /\ \A u \in dir.users : Name(u.name) /\ Len(u.name) = 1
        /\ \A g \in dir.groups : Name(g) /\ Len(g) = 1
    BY NamesOfDirectory DEF Stored, ShortNames, AllNames
  <1>3. IsBranch(BE, B) /\ IsBranch(PE, P) /\ IsBranch(GE, G)
    BY <1>1, EntryKinds
  <1>4. \A a \in Accounts : IsLeaf(a, "uid", "people", B)
    BY <1>1, <1>2, EntryKinds DEF Accounts, VisibleUsers
  <1>5. \A g \in Gs : IsLeaf(g, "cn", "groups", B)
    BY <1>1, <1>2, EntryKinds DEF VisibleGroups
  <1>6. e = BE \/ e = PE \/ e = GE \/ e \in Accounts \/ e \in Gs
    BY DEF VisibleEntries, Accounts
  <1>7. B # P /\ B # G /\ P # G
    <2>1. Pair("uid", "") \in Part /\ Pair("uid", "").attr = "uid"
      BY OwnWord, PairFacts
    <2> QED BY <1>1, <2>1, PlacesDiffer
  <1>8. \A x \in Part : x.attr \in {"uid", "cn"} => Cons(x, B) # B
    BY <1>1, PlacesDiffer
  <1>9. BE.dn = baseDN
    BY DEF BaseEntry, Entry
  <1>10. PlaceOf(e) # B => e.dn # baseDN
    BY DEF PlaceOf
  <1> HIDE DEF B, P, G, BE, PE, GE, Gs
  <1>11. /\ \A d, f : IsBranch(e, d) /\ IsBranch(e, f) => d = f
         /\ \A d, a, w, c : ~(IsBranch(e, d) /\ IsLeaf(e, a, w, c))
         /\ \A a, c, v, w : IsLeaf(e, a, v, B) /\ IsLeaf(e, c, w, B) => a = c
         /\ \A d : IsBranch(e, d) => Cardinality(e.aliases) # 1
         /\ \A a, w, c : IsLeaf(e, a, w, c) => Cardinality(e.aliases) = 1
    BY <1>1, KindsDiffer
  <1>12. \A d : IsBranch(e, d) => PlaceOf(e) = d
    BY DEF IsBranch
  <1>13. \A a \in {"uid", "cn"} : \A w : IsLeaf(e, a, w, B) => PlaceOf(e) # B
    BY <1>8 DEF IsLeaf
  <1>14. CASE e = BE
    BY <1>3, <1>4, <1>7, <1>9, <1>11, <1>14 DEF B, P, G, BE, PE, GE, Branch
  <1>15. CASE e = PE
    <2>1. IsBranch(e, P) /\ e # BE /\ e # GE
      BY <1>3, <1>7, <1>11, <1>15
    <2>2. e \notin Accounts /\ Cardinality(e.aliases) # 1 /\ e.dn # baseDN
      BY <1>4, <1>7, <1>10, <1>11, <1>12, <2>1
    <2> QED BY <1>15, <2>1, <2>2 DEF B, P, BE, PE, GE, Branch
  <1>16. CASE e = GE
    <2>1. IsBranch(e, G) /\ e # BE /\ e # PE
      BY <1>3, <1>7, <1>11, <1>16
    <2>2. e \notin Accounts /\ Cardinality(e.aliases) # 1 /\ e.dn # baseDN
      BY <1>4, <1>7, <1>10, <1>11, <1>12, <2>1
    <2> QED BY <1>16, <2>1, <2>2 DEF B, G, BE, PE, GE, Branch
  <1>17. CASE e \in Accounts
    <2>1. IsLeaf(e, "uid", "people", B) /\ e # BE /\ e # PE /\ e # GE
      BY <1>3, <1>4, <1>11, <1>17
    <2>2. Cardinality(e.aliases) = 1 /\ e.dn # baseDN
      BY <1>10, <1>11, <1>13, <2>1
    <2> QED BY <1>17, <2>1, <2>2 DEF B, BE, PE, GE, Branch
  <1>18. CASE e \in Gs
    <2>1. IsLeaf(e, "cn", "groups", B) /\ e # BE /\ e # PE /\ e # GE
      BY <1>3, <1>5, <1>11, <1>18
    <2>2. e \notin Accounts
      BY <1>4, <1>11, <2>1
    <2>3. Cardinality(e.aliases) = 1 /\ e.dn # baseDN
      BY <1>10, <1>11, <1>13, <2>1
    <2> QED BY <2>1, <2>2, <2>3 DEF B, BE, PE, GE, Branch
  <1> QED BY <1>6, <1>14, <1>15, <1>16, <1>17, <1>18

(* The tree that the documents describe, as a condition on an entry.       *)
Leaf(e) == Cardinality(e.aliases) = 1
Called(q, e) == Leaf(e) /\ (At(q, e.dn) \/ \E dn \in e.aliases : At(q, dn))
Described(q, e) ==
    LET b == NormalizeDN(q.base)
        B == NormalizeDN(baseDN)
    IN  IF b = B
        THEN (q.scope # "one" /\ e = BaseEntry(baseDN))
                \/ (q.scope # "base" /\ e # BaseEntry(baseDN))
        ELSE IF b = NormalizeDN(PeopleBaseDN(baseDN))
        THEN (q.scope # "one" /\ Branch(e, "people")) \/ (q.scope # "base" /\ e \in Accounts)
        ELSE IF b = NormalizeDN(GroupsBaseDN(baseDN))
        THEN (q.scope # "one" /\ Branch(e, "groups"))
                \/ (q.scope # "base" /\ Leaf(e) /\ e \notin Accounts)
        ELSE IF \E f \in VisibleEntries : Called(q, f)
        THEN q.scope # "one" /\ Called(q, e)
        ELSE /\ Under(B, b)
             /\ \/ q.scope = "sub"
                \/ q.scope = "one" /\ Len(baseDN) - Len(q.base) = 1 /\ e.dn = baseDN

LEMMA TreeIsDescribed ==
    ASSUME NEW q, NEW e
    PROVE  e \in InTree(q) <=> e \in VisibleEntries /\ Described(q, e)
  <1> DEFINE all == VisibleEntries
             BE == BaseEntry(baseDN)
             PE == ContainerEntry("people", baseDN)
             GE == ContainerEntry("groups", baseDN)
             named == {f \in Leaves(all) : At(q, f.dn) \/ \E dn \in f.aliases : At(q, dn)}
             self(entry) == IF q.scope = "one" THEN {} ELSE {entry}
             below(entries) == IF q.scope = "base" THEN {} ELSE entries
  <1>1. BE \in all /\ PE \in all /\ GE \in all /\ Accounts \subseteq all
    BY DEF VisibleEntries, Accounts
  <1>2. named = {f \in all : Called(q, f)}
    BY DEF Leaves, Called, Leaf
  <1>3. InTree(q) =
            IF At(q, baseDN) THEN self(BE) \cup below(all \ {BE})
            ELSE IF At(q, PeopleBaseDN(baseDN)) THEN self(PE) \cup below(Accounts)
            ELSE IF At(q, GroupsBaseDN(baseDN)) THEN self(GE) \cup below(Leaves(all) \ Accounts)
            ELSE IF named # {} THEN UNION {self(f) : f \in named}
            ELSE IF ~Under(NormalizeDN(baseDN), NormalizeDN(q.base)) THEN {}
            ELSE {f \in all : \/ q.scope = "sub"
                              \/ q.scope = "one" /\ Len(baseDN) - Len(q.base) = 1 /\ f.dn = baseDN}
    BY DEF InTree, Accounts
  <1>4. \A f : f \in Leaves(all) <=> f \in all /\ Leaf(f)
    BY DEF Leaves, Leaf
  <1>5. \A dn : At(q, dn) <=> NormalizeDN(q.base) = NormalizeDN(dn)
    BY DEF At
  <1>6. \A f : /\ e \in self(f) <=> q.scope # "one" /\ e = f
        /\ \A s : e \in below(s) <=> q.scope # "base" /\ e \in s
    OBVIOUS
  <1>7. e \in UNION {self(f) : f \in named} <=> q.scope # "one" /\ e \in named
    OBVIOUS
  <1> HIDE DEF all, BE, PE, GE, named, self, below
  <1>8. CASE At(q, baseDN)
    BY <1>1, <1>3, <1>5, <1>6, <1>8 DEF Described, BE, all
  <1>9. CASE ~At(q, baseDN) /\ At(q, PeopleBaseDN(baseDN))
    BY <1>1, <1>3, <1>5, <1>6, <1>9 DEF Described, PE, all, Branch
  <1>10. CASE ~At(q, baseDN) /\ ~At(q, PeopleBaseDN(baseDN)) /\ At(q, GroupsBaseDN(baseDN))
    BY <1>1, <1>3, <1>4, <1>5, <1>6, <1>10 DEF Described, GE, all, Branch
  <1>11. CASE ~At(q, baseDN) /\ ~At(q, PeopleBaseDN(baseDN)) /\ ~At(q, GroupsBaseDN(baseDN))
    <2>1. named # {} <=> \E f \in all : Called(q, f)
      BY <1>2
    <2>2. e \in named <=> e \in all /\ Called(q, e)
      BY <1>2
    <2> QED BY <1>3, <1>5, <1>7, <1>11, <2>1, <2>2 DEF Described, all
  <1> QED BY <1>8, <1>9, <1>10, <1>11

(* A branch is in scope by its one DN, a leaf by either.                   *)
LEMMA LeafScope ==
    ASSUME NEW e, NEW attr \in {"uid", "cn"}, NEW word \in {"people", "groups"},
           NEW B \in Text, IsLeaf(e, attr, word, B),
           NEW q, NormalizeDN(q.base) \in Text
    PROVE  LET b == NormalizeDN(q.base)
               P == Cons(Ou("people"), B)
               G == Cons(Ou("groups"), B)
               K == Cons(Ou(word), B)
           IN  /\ Called(q, e) => b # B /\ b # P /\ b # G /\ ~Under(B, b)
               /\ EntryWithinScope(q.base, q.scope, e) <=>
                     \/ q.scope = "base" /\ Called(q, e)
                     \/ q.scope = "one" /\ (b = B \/ b = K)
                     \/ q.scope = "sub" /\ (Called(q, e) \/ b = B \/ b = K \/ Under(B, b))
  <1> DEFINE b == NormalizeDN(q.base)
             P == Cons(Ou("people"), B)
             G == Cons(Ou("groups"), B)
             K == Cons(Ou(word), B)
  <1>0. PICK x \in Part :
            /\ x.attr = attr /\ PlaceOf(e) = Cons(x, B)
            /\ \E dn : e.aliases = {dn} /\ NormalizeDN(dn) = Cons(x, K)
    BY DEF IsLeaf
  <1>a. PICK legacy : e.aliases = {legacy} /\ NormalizeDN(legacy) = Cons(x, K)
    BY <1>0
  <1>1. /\ x.attr = attr /\ PlaceOf(e) = Cons(x, B) /\ e.aliases = {legacy}
        /\ NormalizeDN(legacy) = Cons(x, K)
    BY <1>0, <1>a
  <1> DEFINE X == Cons(x, B)
             Y == Cons(x, K)
  <1>2. Called(q, e) <=> b = X \/ b = Y
    <2>1. Leaf(e)
      BY <1>1, FS_Singleton DEF Leaf
    <2>2. NormalizeDN(e.dn) = X
      BY <1>1 DEF PlaceOf
    <2> QED BY <1>1, <2>1, <2>2 DEF Called, At
  <1>3. /\ b # B /\ b # P /\ b # G /\ ~Under(B, b)
        \/ ~(b = X \/ b = Y)
    BY <1>1, PlacesDiffer
  <1>4. K \in Text
    <2>1. K \in {P, G}
      OBVIOUS
    <2> QED BY <1>1, <2>1, PlacesDiffer
  <1>5. EntryWithinScope(q.base, q.scope, e) <=> Reach(b, q.scope, X) \/ Reach(b, q.scope, Y)
    BY <1>1, ScopeOfLeaf
  <1> HIDE DEF b, P, G
  <1>6. Reach(b, q.scope, X) <=>
              \/ q.scope = "base" /\ X = b
              \/ q.scope = "one" /\ B = b
              \/ q.scope = "sub" /\ (X = b \/ B = b \/ Under(B, b))
    BY ReachOfCons DEF b
  <1>7. Under(K, b) <=> b = B \/ Under(B, b)
    BY OuFacts, UnderCons DEF b
  <1> HIDE DEF K
  <1>8. Reach(b, q.scope, Y) <=>
              \/ q.scope = "base" /\ Y = b
              \/ q.scope = "one" /\ K = b
              \/ q.scope = "sub" /\ (Y = b \/ K = b \/ Under(K, b))
    BY <1>4, ReachOfCons DEF b
  <1>9. EntryWithinScope(q.base, q.scope, e) <=>
                     \/ q.scope = "base" /\ Called(q, e)
                     \/ q.scope = "one" /\ (b = B \/ b = K)
                     \/ q.scope = "sub" /\ (Called(q, e) \/ b = B \/ b = K \/ Under(B, b))
    BY <1>2, <1>5, <1>6, <1>7, <1>8
  <1>10. Called(q, e) => b # B /\ b # P /\ b # G /\ ~Under(B, b)
    BY <1>2, <1>3
  <1> QED BY <1>9, <1>10 DEF b, P, G, K

LEMMA ScopeIsDescribed ==
    ASSUME Stored, ShortNames, NEW e \in VisibleEntries,
           NEW q, q.base \in Text, NormalizeDN(q.base) # Empty,
           q.scope \in {"base", "one", "sub"}
    PROVE  Described(q, e) <=> EntryWithinScope(q.base, q.scope, e)
  <1> DEFINE b == NormalizeDN(q.base)
             B == NormalizeDN(baseDN)
             P == Cons(Ou("people"), B)
             G == Cons(Ou("groups"), B)
             someone == \E f \in VisibleEntries : Called(q, f)
             one == Len(baseDN) - Len(q.base) = 1
  <1>1. b \in Text /\ B \in Text /\ b # Empty
    BY NormalizeText DEF Stored
  <1>2. NormalizeDN(PeopleBaseDN(baseDN)) = P /\ NormalizeDN(GroupsBaseDN(baseDN)) = G
    BY <1>1, ContainerFacts DEF Stored
  <1>3. one <=> Len(B) = Len(b) + 1
    <2>1. Len(B) = Len(baseDN) /\ Len(b) = Len(q.base) /\ Len(B) \in Nat /\ Len(b) \in Nat
      BY <1>1, NormalizeType, TextIsSeq DEF Stored
    <2> HIDE DEF b, B
    <2> QED BY <2>1
  <1>4. B # P /\ B # G /\ P # G /\ (Under(B, b) => b # B /\ b # P /\ b # G)
    <2>1. Pair("uid", "") \in Part /\ Pair("uid", "").attr = "uid"
      BY OwnWord, PairFacts
    <2> QED BY <1>1, <2>1, PlacesDiffer
  <1>5. Described(q, e) <=>
            IF b = B
            THEN (q.scope # "one" /\ e = BaseEntry(baseDN))
                    \/ (q.scope # "base" /\ e # BaseEntry(baseDN))
            ELSE IF b = P
            THEN (q.scope # "one" /\ Branch(e, "people")) \/ (q.scope # "base" /\ e \in Accounts)
            ELSE IF b = G
            THEN (q.scope # "one" /\ Branch(e, "groups"))
                    \/ (q.scope # "base" /\ Leaf(e) /\ e \notin Accounts)
            ELSE IF someone
            THEN q.scope # "one" /\ Called(q, e)
            ELSE Under(B, b) /\ (q.scope = "sub" \/ (q.scope = "one" /\ one /\ e.dn = baseDN))
    BY <1>2 DEF Described
  <1>6. someone => ~Under(B, b)
    <2>1. ASSUME NEW f \in VisibleEntries, Called(q, f) PROVE ~Under(B, b)
      <3>1. Leaf(f)
        BY <2>1 DEF Called
      <3>2. IsLeaf(f, "uid", "people", B) \/ IsLeaf(f, "cn", "groups", B)
        BY <3>1, KindOfEntry DEF Leaf
      <3> QED BY <1>1, <2>1, <3>2, LeafScope
    <2> QED BY <2>1
  <1>7. Called(q, e) => someone
    OBVIOUS
  <1>8. Called(q, e) => Leaf(e)
    BY DEF Called
  <1> HIDE DEF someone, one
  <1> DEFINE within == EntryWithinScope(q.base, q.scope, e)
  <1>9. CASE /\ IsBranch(e, B) /\ e = BaseEntry(baseDN) /\ e.dn = baseDN
             /\ ~Branch(e, "people") /\ ~Branch(e, "groups") /\ e \notin Accounts /\ ~Leaf(e)
    <2>1. within <=> Reach(b, q.scope, B)
      BY <1>9, ScopeOfBranch
    <2>2. Reach(b, q.scope, B) <=>
              \/ q.scope = "base" /\ B = b
              \/ q.scope = "one" /\ Under(B, b) /\ Len(B) = Len(b) + 1
              \/ q.scope = "sub" /\ (B = b \/ Under(B, b))
      BY <1>1, ReachOf
    <2> HIDE DEF b, B, P, G, within
    <2>3. Described(q, e) <=> within
      BY <1>3, <1>4, <1>5, <1>6, <1>8, <1>9, <2>1, <2>2
    <2> QED BY <2>3 DEF within
  <1>10. CASE /\ IsBranch(e, P) /\ Branch(e, "people") /\ e.dn # baseDN
              /\ e # BaseEntry(baseDN) /\ ~Branch(e, "groups") /\ e \notin Accounts /\ ~Leaf(e)
    <2>1. within <=> Reach(b, q.scope, P)
      BY <1>10, ScopeOfBranch
    <2>2. Reach(b, q.scope, P) <=>
              \/ q.scope = "base" /\ P = b
              \/ q.scope = "one" /\ B = b
              \/ q.scope = "sub" /\ (P = b \/ B = b \/ Under(B, b))
      BY <1>1, OuFacts, ReachOfCons
    <2> HIDE DEF b, B, P, G, within
    <2>3. Described(q, e) <=> within
      BY <1>3, <1>4, <1>5, <1>6, <1>8, <1>10, <2>1, <2>2
    <2> QED BY <2>3 DEF within
  <1>11. CASE /\ IsBranch(e, G) /\ Branch(e, "groups") /\ e.dn # baseDN
              /\ e # BaseEntry(baseDN) /\ ~Branch(e, "people") /\ e \notin Accounts /\ ~Leaf(e)
    <2>1. within <=> Reach(b, q.scope, G)
      BY <1>11, ScopeOfBranch
    <2>2. Reach(b, q.scope, G) <=>
              \/ q.scope = "base" /\ G = b
              \/ q.scope = "one" /\ B = b
              \/ q.scope = "sub" /\ (G = b \/ B = b \/ Under(B, b))
      BY <1>1, OuFacts, ReachOfCons
    <2> HIDE DEF b, B, P, G, within
    <2>3. Described(q, e) <=> within
      BY <1>3, <1>4, <1>5, <1>6, <1>8, <1>11, <2>1, <2>2
    <2> QED BY <2>3 DEF within
  <1>12. CASE /\ IsLeaf(e, "uid", "people", B) /\ e \in Accounts /\ Leaf(e) /\ e.dn # baseDN
              /\ e # BaseEntry(baseDN) /\ ~Branch(e, "people") /\ ~Branch(e, "groups")
    <2>1. /\ Called(q, e) => b # B /\ b # P /\ b # G /\ ~Under(B, b)
          /\ within <=>
                     \/ q.scope = "base" /\ Called(q, e)
                     \/ q.scope = "one" /\ (b = B \/ b = P)
                     \/ q.scope = "sub" /\ (Called(q, e) \/ b = B \/ b = P \/ Under(B, b))
      BY <1>1, <1>12, LeafScope
    <2> HIDE DEF b, B, P, G, within
    <2>2. Described(q, e) <=> within
      BY <1>3, <1>4, <1>5, <1>6, <1>7, <1>8, <1>12, <2>1
    <2> QED BY <2>2 DEF within
  <1>13. CASE /\ IsLeaf(e, "cn", "groups", B) /\ e \notin Accounts /\ Leaf(e) /\ e.dn # baseDN
              /\ e # BaseEntry(baseDN) /\ ~Branch(e, "people") /\ ~Branch(e, "groups")
    <2>1. /\ Called(q, e) => b # B /\ b # P /\ b # G /\ ~Under(B, b)
          /\ within <=>
                     \/ q.scope = "base" /\ Called(q, e)
                     \/ q.scope = "one" /\ (b = B \/ b = G)
                     \/ q.scope = "sub" /\ (Called(q, e) \/ b = B \/ b = G \/ Under(B, b))
      BY <1>1, <1>13, LeafScope
    <2> HIDE DEF b, B, P, G, within
    <2>2. Described(q, e) <=> within
      BY <1>3, <1>4, <1>5, <1>6, <1>7, <1>8, <1>13, <2>1
    <2> QED BY <2>2 DEF within
  <1>14. Leaf(e) <=> Cardinality(e.aliases) = 1
    BY DEF Leaf
  <1> QED BY <1>9, <1>10, <1>11, <1>12, <1>13, <1>14, KindOfEntry

(* A search that succeeds gives what it picks of the visible entries.      *)
GivesPicked ==
    Searched => asked.scope \in {"base", "one", "sub"} /\ answer.entries = Picked(asked)
ScopeInv == Stored /\ AskedKnown /\ GivesPicked

LEMMA NotSearched ==
    ASSUME asked' = Nothing \/ asked'.kind # "search" PROVE GivesPicked'
  BY DEF GivesPicked, Searched

LEMMA SameView ==
    ASSUME UNCHANGED <<baseDN, dir, who>> PROVE VisibleEntries' = VisibleEntries
  <1>1. baseDN' = baseDN /\ dir' = dir /\ who' = who
    OBVIOUS
  <1>2. VisibleUsers' = VisibleUsers /\ VisibleGroups' = VisibleGroups
    BY <1>1 DEF VisibleUsers, VisibleGroups, AdminScope
  <1> QED BY <1>1, <1>2 DEF VisibleEntries

LEMMA SearchStep ==
    ASSUME NEW q \in Searches, Search(q) PROVE GivesPicked'
  <1>1. /\ asked'.kind = "search" /\ asked'.base = q.base /\ asked'.scope = q.scope
        /\ asked'.filter = q.filter
    BY DEF Search
  <1>2. /\ UNCHANGED <<baseDN, dir, who>>
        /\ answer' = [Answer(q) EXCEPT !.id = IntegerOctets(IntOf(q.id))]
    BY DEF Search
  <1>3. \/ ~WellFormed(q) /\ Answer(q) = Result("protocolError")
        \/ WellFormed(q) /\ who.bound
           /\ Answer(q) = [Result("success") EXCEPT !.entries = Picked(q)]
        \/ ~who.bound
    BY DEF Answer
  <1>4. ~WellFormed(q) /\ Answer(q) = Result("protocolError") => answer'.code # "success"
    BY <1>2 DEF Result
  <1>5. Answer(q) = [Result("success") EXCEPT !.entries = Picked(q)]
           => answer'.entries = Picked(q)
    BY <1>2 DEF Result
  <1>6. Picked(asked)' = Picked(q)
    <2> DEFINE all == VisibleEntries
               all1 == VisibleEntries'
    <2>1. all1 = all
      BY <1>2, SameView
    <2>2. Picked(asked)' = {e \in all1 : /\ EntryWithinScope(asked'.base, asked'.scope, e)
                                         /\ Match(asked'.filter, e.attrs)}
      BY DEF Picked
    <2>3. Picked(q) = {e \in all : EntryWithinScope(q.base, q.scope, e) /\ Match(q.filter, e.attrs)}
      BY DEF Picked
    <2> HIDE DEF all, all1
    <2> QED BY <1>1, <2>1, <2>2, <2>3
  <1>7. Searched' => /\ answer'.code = "success" /\ who.bound
    BY <1>2 DEF Searched
  <1>8. WellFormed(q) => q.scope \in {"base", "one", "sub"}
    BY DEF WellFormed
  <1>9. Searched' => asked'.scope \in {"base", "one", "sub"} /\ answer'.entries = Picked(asked)'
    BY <1>1, <1>3, <1>4, <1>5, <1>6, <1>7, <1>8
  <1> QED BY <1>9 DEF GivesPicked

LEMMA ScopeStep ==
    ASSUME ScopeInv, [AnswersNext]_answersVars PROVE ScopeInv'
  <1>1. Stored' /\ AskedKnown'
    BY StoredStep DEF ScopeInv
  <1>2. ASSUME NEW q \in Searches, Search(q) PROVE GivesPicked'
    BY <1>2, SearchStep
  <1>3. ASSUME NEW dn \in BindDNs, Bind(dn) PROVE GivesPicked'
    <2>1. asked'.kind = "bind"
      BY <1>3 DEF Bind
    <2> QED BY <2>1, NotSearched
  <1>4. ASSUME \/ \E t \in BaseDNs : UpdateBaseDN(t)
               \/ \E d \in Directories : ChangeDirectory(d)
               \/ Done
        PROVE  GivesPicked'
    <2>1. asked' = Nothing
      BY <1>4 DEF UpdateBaseDN, ChangeDirectory, Done
    <2> QED BY <2>1, NotSearched
  <1>5. ASSUME UNCHANGED answersVars PROVE GivesPicked'
    <2>1. UNCHANGED <<baseDN, dir, who>> /\ asked' = asked /\ answer' = answer /\ who' = who
      BY <1>5 DEF answersVars
    <2>2. VisibleEntries' = VisibleEntries
      BY <2>1, SameView
    <2> QED BY <2>1, <2>2 DEF ScopeInv, GivesPicked, Searched, Picked
  <1>6. GivesPicked'
    BY <1>2, <1>3, <1>4, <1>5 DEF AnswersNext
  <1> QED BY <1>1, <1>6 DEF ScopeInv

LEMMA PickedIsTree ==
    ASSUME Stored, ShortNames, NEW q, q.base \in Text, NormalizeDN(q.base) # Empty,
           q.scope \in {"base", "one", "sub"}
    PROVE  Picked(q) = {e \in InTree(q) : Match(q.filter, e.attrs)}
  <1> DEFINE M(e) == Match(q.filter, e.attrs)
  <1>1. \A e \in VisibleEntries : e \in InTree(q) <=> EntryWithinScope(q.base, q.scope, e)
    BY TreeIsDescribed, ScopeIsDescribed
  <1>2. \A e \in InTree(q) : e \in VisibleEntries
    BY TreeIsDescribed
  <1>3. Picked(q) = {e \in VisibleEntries : EntryWithinScope(q.base, q.scope, e) /\ M(e)}
    BY DEF Picked
  <1> HIDE DEF M
  <1>4. Picked(q) = {e \in InTree(q) : M(e)}
    BY <1>1, <1>2, <1>3
  <1> QED BY <1>4 DEF M

(* handleSearch and dnWithinScope: a search that succeeds gives, of the    *)
(* entries the connection may see, exactly those that its filter matches   *)
(* of the part of the tree that its base and scope mean.                   *)
THEOREM SearchesStayInTheirScope == AnswersSpec => []ScopeAgreesWithTree
  <1>1. AnswersInit => ScopeInv
    BY StoredInit DEF AnswersInit, ScopeInv, GivesPicked, Searched
  <1>2. ScopeInv /\ [AnswersNext]_answersVars => ScopeInv'
    BY ScopeStep
  <1>3. ScopeInv => ScopeAgreesWithTree
    <2> SUFFICES ASSUME ScopeInv, Searched, NormalizeDN(asked.base) # Empty, ShortNames
                 PROVE  answer.entries = {e \in InTree(asked) : Match(asked.filter, e.attrs)}
      BY DEF ScopeAgreesWithTree, ShortNames
    <2>1. Stored /\ asked.scope \in {"base", "one", "sub"} /\ answer.entries = Picked(asked)
      BY DEF ScopeInv, GivesPicked
    <2>2. asked.base \in Text
      <3>1. PICK q \in Searches : AsksSearch(q)
        BY DEF ScopeInv, AskedKnown, Searched
      <3> QED BY <3>1, AnswersAssumption DEF AsksSearch
    <2> QED BY <2>1, <2>2, PickedIsTree
  <1> QED BY <1>1, <1>2, <1>3, PTL DEF AnswersSpec

-----------------------------------------------------------------------------
(* Definitions by recursion.                                               *)
(* Every set of numbers that has one has a least one.                      *)
LEMMA LeastNumber ==
    ASSUME NEW T \in SUBSET Nat, T # {}
    PROVE  \E n \in T : \A m \in T : n <= m
  <1> DEFINE R == {ss \in Nat \X Nat : ss[1] < ss[2]}
  <1>1. IsWellFoundedOn(R, Nat)
    BY NatLessThanWellFounded, SMT DEF OpToRel
  <1>2. PICK n \in T : \A m \in T : <<m, n>> \notin R
    <2> HIDE DEF R
    <2> QED BY <1>1, WFMin, Zenon
  <1>3. \A m \in T : ~(m < n)
    BY <1>2
  <1> QED BY <1>3

(* A function may be defined by recursion on a depth: with Step[<<s, f>>]  *)
(* the value at s in terms of the values of f at all that is less deep.    *)
ByDepth(S, V, depth, Step) ==
    /\ depth \in [S -> Nat] /\ V # {} /\ Step \in [S \X [S -> V] -> V]
    /\ \A s \in S : \A f, g \in [S -> V] :
          (\A t \in S : depth[t] < depth[s] => f[t] = g[t]) => Step[<<s, f>>] = Step[<<s, g>>]

LEMMA FunctionByDepth ==
    ASSUME NEW S, NEW V, NEW depth, NEW Step, ByDepth(S, V, depth, Step)
    PROVE  \E f \in [S -> V] : \A s \in S : f[s] = Step[<<s, f>>]
  <1>0. /\ depth \in [S -> Nat] /\ V # {} /\ Step \in [S \X [S -> V] -> V]
        /\ \A s \in S : \A f, g \in [S -> V] :
              (\A t \in S : depth[t] < depth[s] => f[t] = g[t]) => Step[<<s, f>>] = Step[<<s, g>>]
    BY DEF ByDepth
  <1> DEFINE Right(g, s) == g[s] = Step[<<s, g>>]
             Good(n) == {g \in [S -> V] : \A s \in S : depth[s] < n => Right(g, s)}
  <1>1. ASSUME NEW s \in S, NEW f \in [S -> V], NEW g \in [S -> V],
               \A t \in S : depth[t] < depth[s] => f[t] = g[t]
        PROVE  Step[<<s, f>>] = Step[<<s, g>>]
    BY <1>0, <1>1
  <1>2. ASSUME NEW s \in S, NEW g \in [S -> V]
        PROVE  Step[<<s, g>>] \in V
    BY <1>0
  <1>3. ASSUME NEW n \in Nat, NEW g \in Good(n), NEW h \in Good(n)
        PROVE  \A s \in S : depth[s] < n => g[s] = h[s]
    <2> DEFINE D == {k \in Nat : \E s \in S : depth[s] = k /\ k < n /\ g[s] # h[s]}
    <2>1. SUFFICES ASSUME D # {} PROVE FALSE
      BY <1>0, <2>1
    <2>2. PICK k \in D : \A m \in D : k <= m
      <3>1. D \in SUBSET Nat
        OBVIOUS
      <3> HIDE DEF D
      <3> QED BY <2>1, <3>1, LeastNumber
    <2>3. PICK s \in S : depth[s] = k /\ k < n /\ g[s] # h[s]
      BY <2>2
    <2>4. \A t \in S : depth[t] < depth[s] => g[t] = h[t]
      <3> SUFFICES ASSUME NEW t \in S, depth[t] < depth[s], g[t] # h[t] PROVE FALSE
        OBVIOUS
      <3>1. depth[t] \in Nat /\ depth[s] \in Nat
        BY <1>0
      <3>2. depth[t] \in D
        BY <3>1, <2>3
      <3> QED BY <3>1, <3>2, <2>2, <2>3
    <2>5. g \in [S -> V] /\ h \in [S -> V]
      OBVIOUS
    <2>6. Right(g, s) /\ Right(h, s)
      BY <2>3
    <2> QED BY <2>3, <2>4, <2>5, <2>6, <1>1
  <1>4. \A n \in Nat : Good(n) # {}
    <2> DEFINE D == {n \in Nat : Good(n) = {}}
    <2>1. SUFFICES ASSUME D # {} PROVE FALSE
      BY <2>1
    <2>2. PICK n \in D : \A m \in D : n <= m
      <3>1. D \in SUBSET Nat
        OBVIOUS
      <3> HIDE DEF D
      <3> QED BY <2>1, <3>1, LeastNumber
    <2>3. n # 0
      <3>1. PICK v \in V : TRUE
        BY <1>0
      <3>2. [s \in S |-> v] \in Good(0)
        <4>1. \A s \in S : ~(depth[s] < 0)
          BY <1>0
        <4> QED BY <4>1
      <3> QED BY <3>2, <2>2
    <2>4. n \in Nat /\ n - 1 \in Nat /\ n - 1 \notin D
      <3>1. n \in Nat
        BY <2>2
      <3> HIDE DEF D
      <3> QED BY <2>2, <2>3, <3>1
    <2>5. PICK g : g \in Good(n - 1)
      BY <2>4
    <2>6. g \in [S -> V]
      BY <2>5
    <2> DEFINE h == [s \in S |-> Step[<<s, g>>]]
    <2>7. h \in [S -> V]
      BY <1>2, <2>6
    <2>8. ASSUME NEW s \in S, depth[s] < n PROVE Right(h, s)
      <3>1. \A t \in S : depth[t] < depth[s] => h[t] = g[t]
        <4> SUFFICES ASSUME NEW t \in S, depth[t] < depth[s] PROVE h[t] = g[t]
          OBVIOUS
        <4>1. depth[t] < n - 1
          <5>1. depth[t] \in Nat /\ depth[s] \in Nat
            BY <1>0
          <5> QED BY <5>1, <2>8, <2>4
        <4>2. Right(g, t)
          BY <4>1, <2>5
        <4> QED BY <4>2
      <3>2. Step[<<s, h>>] = Step[<<s, g>>]
        <4> HIDE DEF h
        <4> QED BY <3>1, <2>6, <2>7, <1>1
      <3> QED BY <3>2
    <2>9. h \in Good(n)
      <3> HIDE DEF h
      <3> QED BY <2>7, <2>8
    <2> QED BY <2>9, <2>2
  <1> DEFINE best(n) == CHOOSE g : g \in Good(n)
             f == [s \in S |-> best(depth[s] + 1)[s]]
  <1>5. \A n \in Nat : best(n) \in Good(n)
    <2> HIDE DEF Good
    <2> QED BY <1>4
  <1>6. ASSUME NEW n \in Nat PROVE best(n) \in [S -> V]
    <2> HIDE DEF best
    <2> QED BY <1>5
  <1>7. \A s \in S : depth[s] + 1 \in Nat /\ depth[s] \in Nat
    BY <1>0
  <1>8. f \in [S -> V]
    <2> HIDE DEF best
    <2> QED BY <1>6, <1>7
  <1>9. ASSUME NEW s \in S PROVE f[s] = Step[<<s, f>>]
    <2> DEFINE g == best(depth[s] + 1)
    <2>1. g \in Good(depth[s] + 1) /\ g \in [S -> V]
      <3> HIDE DEF best, Good
      <3> QED BY <1>5, <1>6, <1>7
    <2>2. \A t \in S : depth[t] < depth[s] => f[t] = g[t]
      <3> SUFFICES ASSUME NEW t \in S, depth[t] < depth[s] PROVE f[t] = g[t]
        OBVIOUS
      <3> DEFINE e == best(depth[t] + 1)
      <3>1. e \in Good(depth[t] + 1)
        <4> HIDE DEF best, Good
        <4> QED BY <1>5, <1>7
      <3>2. g \in Good(depth[t] + 1)
        <4> HIDE DEF g
        <4>1. \A r \in S : depth[r] < depth[t] + 1 => depth[r] < depth[s] + 1
          BY <1>7
        <4> QED BY <2>1, <4>1
      <3>3. depth[t] < depth[t] + 1
        BY <1>7
      <3>4. e[t] = g[t]
        <4> HIDE DEF e, g, Good
        <4> QED BY <3>1, <3>2, <3>3, <1>3, <1>7
      <3> QED BY <3>4
    <2>3. Right(g, s)
      <3> HIDE DEF g
      <3>1. depth[s] < depth[s] + 1
        BY <1>7
      <3> QED BY <2>1, <3>1
    <2>4. Step[<<s, f>>] = Step[<<s, g>>]
      <3> HIDE DEF f, g
      <3> QED BY <2>1, <2>2, <1>8, <1>1
    <2>5. f[s] = g[s]
      OBVIOUS
    <2> QED BY <2>3, <2>4, <2>5
  <1> QED
    <2> HIDE DEF f
    <2> QED BY <1>8, <1>9

-----------------------------------------------------------------------------
(* What is compared of a DN: itself without a container above the base.    *)
LEMMA NoDrop ==
    ASSUME NEW s, NEW p, \A i \in 2..(Len(s) - 1) : s[i] # p PROVE DropInner(s, p) = s
  <1>1. {i \in 2..(Len(s) - 1) : s[i] = p} = {}
    OBVIOUS
  <1> QED BY <1>1 DEF DropInner

LEMMA OneDrop ==
    ASSUME NEW s \in Text, NEW p, NEW k \in 2..(Len(s) - 1),
           \A i \in 2..(Len(s) - 1) : s[i] = p <=> i = k
    PROVE  DropInner(s, p) = RemoveAt(s, k)
  <1> DEFINE at == {i \in 2..(Len(s) - 1) : s[i] = p}
  <1>1. at = {k}
    OBVIOUS
  <1>2. k <= k
    BY TextIsSeq
  <1>3. (CHOOSE i \in at : \A j \in at : i <= j) = k
    <2> HIDE DEF at
    <2> QED BY <1>1, <1>2
  <1> QED BY <1>1, <1>3 DEF DropInner

LEMMA RemoveFacts ==
    ASSUME NEW s \in Text, NEW k \in 2..(Len(s) - 1)
    PROVE  /\ RemoveAt(s, k) \in Text /\ Len(RemoveAt(s, k)) = Len(s) - 1
           /\ \A i \in 1..(Len(s) - 1) : RemoveAt(s, k)[i] = IF i < k THEN s[i] ELSE s[i + 1]
  <1>1. s \in Seq(Part) /\ Len(s) \in Nat /\ k \in Nat /\ 2 <= k /\ k <= Len(s) - 1
    BY TextIsSeq
  <1> DEFINE m == Len(s)
             x == SubSeq(s, 1, k - 1)
             y == SubSeq(s, k + 1, m)
  <1>2. x \in Seq(Part) /\ Len(x) = k - 1 /\ \A i \in 1..(k - 1) : x[i] = s[i]
    <2>1. \A i \in 1..(k - 1) : s[i] \in Part
      BY <1>1
    <2>2. k - 1 \in Nat /\ 1 <= k
      BY <1>1
    <2> QED BY <1>1, <2>1, <2>2
  <1>3. y \in Seq(Part) /\ Len(y) = m - k /\ \A i \in 1..(m - k) : y[i] = s[i + k]
    <2>1. \A i \in (k + 1)..m : s[i] \in Part
      BY <1>1
    <2>2. m - k \in Nat /\ k + 1 <= m
      BY <1>1
    <2> QED BY <1>1, <2>1, <2>2
  <1> DEFINE z == x \o y
  <1> HIDE DEF x, y, m
  <1>4. /\ z \in Seq(Part) /\ Len(z) = Len(x) + Len(y)
        /\ \A i \in 1..(Len(x) + Len(y)) : z[i] = IF i <= Len(x) THEN x[i] ELSE y[i - Len(x)]
    BY <1>2, <1>3, ConcatProperties
  <1>5. m \in Nat /\ k \in Nat /\ 2 <= k /\ k <= m - 1
    BY <1>1 DEF m
  <1> HIDE DEF z
  <1>6. Len(z) = m - 1
    BY <1>2, <1>3, <1>4, <1>5
  <1>7. ASSUME NEW i \in 1..(m - 1) PROVE z[i] = IF i < k THEN s[i] ELSE s[i + 1]
    <2>1. CASE i < k
      <3>1. i \in 1..(k - 1)
        BY <1>5, <2>1
      <3> QED BY <1>2, <1>3, <1>4, <1>5, <2>1, <3>1
    <2>2. CASE ~(i < k)
      <3>1. i - (k - 1) \in 1..(m - k) /\ (i - (k - 1)) + k = i + 1
        BY <1>5, <2>2
      <3>2. z[i] = y[i - (k - 1)]
        BY <1>2, <1>3, <1>4, <1>5, <2>2
      <3>3. y[i - (k - 1)] = s[i + 1]
        BY <1>3, <3>1
      <3> QED BY <2>2, <3>2, <3>3
    <2> QED BY <2>1, <2>2
  <1>8. z \in Text
    <2>1. z # <<>>
      <3>1. Len(z) # 0
        BY <1>5, <1>6
      <3> QED BY <3>1
    <2> QED BY <1>4, <2>1 DEF Text
  <1>9. RemoveAt(s, k) = z
    BY DEF RemoveAt, x, y, z, m
  <1> QED BY <1>6, <1>7, <1>8, <1>9 DEF m

(* A text with the component p right above the last ones, those of b.      *)
Above(s, p, k, b) == k \in 2..(Len(s) - 1) /\ k = Len(s) - Len(b) /\ s[k] = p

LEMMA DropMeans ==
    ASSUME NEW s \in Text, NEW r \in Text, NEW b \in Text, NEW p \in Part,
           NEW k, Above(s, p, k, b)
    PROVE  RemoveAt(s, k) = r \o b <=> s = r \o Cons(p, b)
  <1>0. k \in 2..(Len(s) - 1) /\ k = Len(s) - Len(b) /\ s[k] = p
    BY DEF Above
  <1> DEFINE z == RemoveAt(s, k)
             u == r \o b
             c == Cons(p, b)
             v == r \o c
  <1>1. /\ s \in Seq(Part) /\ Len(s) \in Nat /\ r \in Seq(Part) /\ Len(r) \in Nat
        /\ b \in Seq(Part) /\ Len(b) \in Nat
    BY TextIsSeq
  <1>2. /\ z \in Seq(Part) /\ Len(z) = Len(s) - 1
        /\ \A i \in 1..(Len(s) - 1) : z[i] = IF i < k THEN s[i] ELSE s[i + 1]
    BY <1>0, RemoveFacts, TextIsSeq
  <1>3. /\ c \in Seq(Part) /\ Len(c) = Len(b) + 1 /\ c[1] = p
        /\ \A i \in 1..Len(b) : c[i + 1] = b[i]
    BY <1>1, ConsFacts, TextIsSeq
  <1>4. /\ u \in Seq(Part) /\ Len(u) = Len(r) + Len(b)
        /\ \A i \in 1..(Len(r) + Len(b)) : u[i] = IF i <= Len(r) THEN r[i] ELSE b[i - Len(r)]
    BY <1>1, ConcatProperties
  <1> HIDE DEF z, u, c
  <1>5. /\ v \in Seq(Part) /\ Len(v) = Len(r) + Len(c)
        /\ \A i \in 1..(Len(r) + Len(c)) : v[i] = IF i <= Len(r) THEN r[i] ELSE c[i - Len(r)]
    BY <1>1, <1>3, ConcatProperties
  <1> HIDE DEF v
  <1>6. k \in Nat /\ 2 <= k /\ k <= Len(s) - 1 /\ k = Len(s) - Len(b) /\ s[k] = p
    BY <1>0, <1>1
  <1>7. ASSUME z = u PROVE s = v
    <2>1. Len(r) = k - 1
      <3>1. Len(z) = Len(u)
        BY <1>7
      <3>2. Len(z) = Len(s) - 1 /\ Len(u) = Len(r) + Len(b)
        BY <1>2, <1>4
      <3> DEFINE ls == Len(s)
                 lr == Len(r)
                 lb == Len(b)
      <3>3. ls \in Nat /\ lr \in Nat /\ lb \in Nat /\ k = ls - lb /\ ls - 1 = lr + lb
        BY <1>1, <1>6, <3>1, <3>2
      <3> HIDE DEF ls, lr, lb
      <3>4. lr = k - 1
        BY <3>3
      <3> QED BY <3>4 DEF lr
    <2>2. Len(v) = Len(s)
      BY <1>1, <1>3, <1>5, <1>6, <2>1
    <2>3. ASSUME NEW i \in 1..Len(s) PROVE s[i] = v[i]
      <3>1. CASE i < k
        <4>1. /\ i \in 1..(Len(s) - 1) /\ i \in 1..(Len(r) + Len(b))
              /\ i \in 1..(Len(r) + Len(c)) /\ i <= Len(r)
          BY <1>1, <1>2, <1>3, <1>6, <2>1, <3>1
        <4>2. z[i] = s[i]
          BY <1>2, <3>1, <4>1
        <4>3. u[i] = r[i] /\ v[i] = r[i]
          BY <1>4, <1>5, <4>1
        <4> QED BY <1>7, <4>2, <4>3
      <3>2. CASE i = k
        <4>1. v[i] = c[1]
          <5>1. i - Len(r) = 1 /\ ~(i <= Len(r)) /\ i \in 1..(Len(r) + Len(c))
            BY <1>1, <1>3, <1>6, <2>1, <3>2
          <5> QED BY <1>5, <5>1
        <4> QED BY <1>3, <1>6, <3>2, <4>1
      <3>3. CASE i > k
        <4> DEFINE j == i - k
        <4>1. /\ j \in 1..Len(b) /\ i - 1 \in 1..(Len(s) - 1) /\ ~(i - 1 < k) /\ (i - 1) + 1 = i
              /\ i - 1 \in 1..(Len(r) + Len(b)) /\ ~(i - 1 <= Len(r)) /\ (i - 1) - Len(r) = j
              /\ i \in 1..(Len(r) + Len(c)) /\ ~(i <= Len(r)) /\ i - Len(r) = j + 1
          BY <1>1, <1>3, <1>6, <2>1, <3>3
        <4> HIDE DEF j
        <4>2. z[i - 1] = s[i]
          BY <1>2, <4>1
        <4>3. u[i - 1] = b[j]
          BY <1>4, <4>1
        <4>4. v[i] = c[j + 1] /\ c[j + 1] = b[j]
          BY <1>3, <1>5, <4>1
        <4> QED BY <1>7, <4>2, <4>3, <4>4
      <3>4. i < k \/ i = k \/ i > k
        <4>1. i \in Int /\ k \in Int
          BY <1>6
        <4> QED BY <4>1
      <3> QED BY <3>1, <3>2, <3>3, <3>4
    <2> QED BY <1>1, <1>5, <2>2, <2>3, SeqEqual
  <1>8. ASSUME s = v PROVE z = u
    <2>1. Len(r) = k - 1
      <3>1. Len(s) = Len(v)
        BY <1>8
      <3>2. Len(v) = Len(r) + Len(b) + 1
        BY <1>1, <1>3, <1>5
      <3> QED BY <1>1, <1>6, <3>1, <3>2
    <2>2. Len(z) = Len(u)
      BY <1>1, <1>2, <1>4, <1>6, <2>1
    <2>3. ASSUME NEW i \in 1..Len(z) PROVE z[i] = u[i]
      <3>1. CASE i < k
        <4>1. /\ i \in 1..(Len(s) - 1) /\ i \in 1..(Len(r) + Len(b))
              /\ i \in 1..(Len(r) + Len(c)) /\ i <= Len(r)
          BY <1>1, <1>2, <1>3, <1>6, <2>1, <3>1
        <4>2. z[i] = s[i]
          BY <1>2, <3>1, <4>1
        <4>3. u[i] = r[i] /\ v[i] = r[i]
          BY <1>4, <1>5, <4>1
        <4> QED BY <1>8, <4>2, <4>3
      <3>2. CASE ~(i < k)
        <4> DEFINE j == i + 1 - k
        <4>1. /\ j \in 1..Len(b) /\ i \in 1..(Len(s) - 1)
              /\ i \in 1..(Len(r) + Len(b)) /\ ~(i <= Len(r)) /\ i - Len(r) = j
              /\ i + 1 \in 1..(Len(r) + Len(c)) /\ ~(i + 1 <= Len(r)) /\ (i + 1) - Len(r) = j + 1
          BY <1>1, <1>2, <1>3, <1>6, <2>1, <3>2
        <4> HIDE DEF j
        <4>2. z[i] = s[i + 1]
          BY <1>2, <3>2, <4>1
        <4>3. u[i] = b[j]
          BY <1>4, <4>1
        <4>4. v[i + 1] = c[j + 1] /\ c[j + 1] = b[j]
          BY <1>3, <1>5, <4>1
        <4> QED BY <1>8, <4>2, <4>3, <4>4
      <3> QED BY <3>1, <3>2
    <2> QED BY <1>2, <1>4, <2>2, <2>3, SeqEqual
  <1>9. z = u <=> s = v
    BY <1>7, <1>8
  <1> QED BY <1>9 DEF z, u, c, v

Compared(s) == DropInner(DropInner(s, Ou("people")), Ou("groups"))
Free(s) == \A i \in 1..Len(s) : s[i] \notin Containers

LEMMA FreeStays == ASSUME NEW s, Len(s) \in Nat, Free(s) PROVE Compared(s) = s
  <1>1. \A i \in 2..(Len(s) - 1) : s[i] # Ou("people") /\ s[i] # Ou("groups")
    BY DEF Free, Containers
  <1>2. DropInner(s, Ou("people")) = s
    BY <1>1, NoDrop
  <1>3. DropInner(s, Ou("groups")) = s
    BY <1>1, NoDrop
  <1> QED BY <1>2, <1>3 DEF Compared

LEMMA FreeConcat ==
    ASSUME NEW r \in Text, NEW b \in Text, Free(r), Free(b)
    PROVE  Free(r \o b) /\ r \o b \in Text
  <1> DEFINE u == r \o b
  <1>1. /\ r \in Seq(Part) /\ Len(r) \in Nat \ {0} /\ b \in Seq(Part) /\ Len(b) \in Nat
    BY TextIsSeq
  <1>2. /\ u \in Seq(Part) /\ Len(u) = Len(r) + Len(b)
        /\ \A i \in 1..(Len(r) + Len(b)) : u[i] = IF i <= Len(r) THEN r[i] ELSE b[i - Len(r)]
    BY <1>1, ConcatProperties
  <1> HIDE DEF u
  <1>3. ASSUME NEW i \in 1..Len(u) PROVE u[i] \notin Containers
    <2>1. CASE i <= Len(r)
      <3>1. i \in 1..Len(r) /\ u[i] = r[i]
        BY <1>1, <1>2, <2>1
      <3> QED BY <3>1 DEF Free
    <2>2. CASE ~(i <= Len(r))
      <3>1. i - Len(r) \in 1..Len(b) /\ u[i] = b[i - Len(r)]
        BY <1>1, <1>2, <2>2
      <3> QED BY <3>1 DEF Free
    <2> QED BY <2>1, <2>2
  <1>4. u # <<>>
    BY <1>1, <1>2
  <1>5. Free(u)
    BY <1>3 DEF Free
  <1> QED BY <1>2, <1>4, <1>5 DEF Text, u

LEMMA DropOwn ==
    ASSUME NEW s \in Text, NEW own \in {"people", "groups"}, NEW k \in 2..(Len(s) - 1),
           s[k] = Ou(own), \A i \in 1..Len(s) : s[i] \in Containers => i = k
    PROVE  Compared(s) = RemoveAt(s, k)
  <1> DEFINE z == RemoveAt(s, k)
  <1>1. Ou("people") # Ou("groups")
    BY DEF Ou
  <1>2. s \in Seq(Part) /\ Len(s) \in Nat /\ k \in Nat /\ 2 <= k /\ k <= Len(s) - 1
    BY TextIsSeq
  <1>3. /\ z \in Text /\ Len(z) = Len(s) - 1
        /\ \A i \in 1..(Len(s) - 1) : z[i] = IF i < k THEN s[i] ELSE s[i + 1]
    BY RemoveFacts
  <1> HIDE DEF z
  <1>4. ASSUME NEW i \in 2..(Len(s) - 1) PROVE s[i] \in Containers <=> i = k
    <2>1. i \in 1..Len(s)
      BY <1>2
    <2>2. Ou(own) \in Containers
      BY DEF Containers
    <2> QED BY <2>1, <2>2
  <1>5. Free(z)
    <2> SUFFICES ASSUME NEW i \in 1..(Len(s) - 1) PROVE z[i] \notin Containers
      BY <1>3 DEF Free
    <2>1. CASE i < k
      <3>1. i \in 1..Len(s) /\ i # k /\ z[i] = s[i]
        BY <1>2, <1>3, <2>1
      <3> QED BY <3>1
    <2>2. CASE ~(i < k)
      <3>1. i + 1 \in 1..Len(s) /\ i + 1 # k /\ z[i] = s[i + 1]
        BY <1>2, <1>3, <2>2
      <3> QED BY <3>1
    <2> QED BY <2>1, <2>2
  <1>6. Compared(z) = z /\ DropInner(z, Ou("groups")) = z
    <2>1. Len(z) \in Nat
      BY <1>2, <1>3
    <2>2. \A i \in 2..(Len(z) - 1) : z[i] # Ou("groups")
      BY <1>5, <2>1 DEF Free, Containers
    <2> QED BY <1>5, <2>1, <2>2, NoDrop, FreeStays
  <1>7. CASE own = "people"
    <2>1. \A i \in 2..(Len(s) - 1) : s[i] = Ou("people") <=> i = k
      BY <1>4, <1>7 DEF Containers
    <2>2. DropInner(s, Ou("people")) = z
      BY <2>1, OneDrop DEF z
    <2> QED BY <1>6, <2>2 DEF Compared, z
  <1>8. CASE own = "groups"
    <2>1. \A i \in 2..(Len(s) - 1) : (s[i] = Ou("groups") <=> i = k) /\ s[i] # Ou("people")
      BY <1>1, <1>4, <1>8 DEF Containers
    <2>2. DropInner(s, Ou("people")) = s
      BY <2>1, NoDrop
    <2>3. DropInner(s, Ou("groups")) = z
      BY <2>1, OneDrop DEF z
    <2> QED BY <2>2, <2>3 DEF Compared, z
  <1> QED BY <1>7, <1>8

Comparable(s, r, b, own) ==
    /\ s \in Text /\ r \in Text /\ b \in Text /\ own \in {"people", "groups"}
    /\ Free(r) /\ Free(b)
    /\ \A i \in 1..Len(s) : s[i] \in Containers => i = Len(s) - Len(b) /\ s[i] = Ou(own)

(* With no container but the own one right above the base, a text has the  *)
(* short form of a DN exactly if it is one of its two forms.               *)
LEMMA TwoForms ==
    ASSUME NEW s, NEW r, NEW b, NEW own, Comparable(s, r, b, own)
    PROVE  Compared(r \o b) = Compared(s) <=> s = r \o b \/ s = r \o Cons(Ou(own), b)
  <1> DEFINE u == r \o b
             c == Cons(Ou(own), b)
             v == r \o c
             k == Len(s) - Len(b)
  <1>0. /\ s \in Text /\ r \in Text /\ b \in Text /\ own \in {"people", "groups"}
        /\ Free(r) /\ Free(b)
        /\ \A i \in 1..Len(s) : s[i] \in Containers => i = k /\ s[i] = Ou(own)
    BY DEF Comparable
  <1>1. /\ s \in Seq(Part) /\ Len(s) \in Nat /\ r \in Seq(Part) /\ Len(r) \in Nat \ {0}
        /\ b \in Seq(Part) /\ Len(b) \in Nat \ {0}
    BY <1>0, TextIsSeq
  <1>2. Free(u) /\ u \in Text
    BY <1>0, FreeConcat
  <1>3. Compared(u) = u
    BY <1>2, FreeStays, TextIsSeq
  <1>4. Ou(own) \in Part /\ Ou(own) \in Containers
    BY <1>0, OuFacts DEF Containers
  <1>5. /\ c \in Seq(Part) /\ Len(c) = Len(b) + 1 /\ c[1] = Ou(own)
    BY <1>1, <1>4, ConsFacts, TextIsSeq
  <1>6. \A i \in 1..(Len(r) + Len(b)) : u[i] = IF i <= Len(r) THEN r[i] ELSE b[i - Len(r)]
    BY <1>1, ConcatProperties
  <1> HIDE DEF u, c
  <1>7. /\ v \in Seq(Part) /\ Len(v) = Len(r) + Len(c)
        /\ \A i \in 1..(Len(r) + Len(c)) : v[i] = IF i <= Len(r) THEN r[i] ELSE c[i - Len(r)]
    BY <1>1, <1>5, ConcatProperties
  <1> HIDE DEF v
  <1>8. v[Len(r) + 1] = Ou(own) /\ Len(r) + 1 \in 1..Len(v) /\ v[1] = r[1] /\ 1 \in 1..Len(r)
    <2>1. /\ Len(r) + 1 \in 1..(Len(r) + Len(c)) /\ ~(Len(r) + 1 <= Len(r))
          /\ (Len(r) + 1) - Len(r) = 1 /\ 1 \in 1..(Len(r) + Len(c)) /\ 1 <= Len(r)
      BY <1>1, <1>5
    <2>2. v[Len(r) + 1] = c[(Len(r) + 1) - Len(r)]
      BY <1>7, <2>1
    <2>3. v[1] = r[1]
      BY <1>7, <2>1
    <2>4. Len(r) + 1 \in 1..Len(v) /\ 1 \in 1..Len(r)
      BY <1>1, <1>7, <2>1
    <2> QED BY <1>5, <2>1, <2>2, <2>3, <2>4
  <1>9. v[1] \notin Containers
    BY <1>0, <1>8 DEF Free
  <1>10. CASE Free(s)
    <2>1. Compared(s) = s
      BY <1>1, <1>10, FreeStays
    <2>2. s # v
      BY <1>4, <1>8, <1>10 DEF Free
    <2>3. Compared(u) = Compared(s) <=> s = u
      BY <1>3, <2>1
    <2> QED BY <2>2, <2>3 DEF u, v, c
  <1>11. CASE ~Free(s)
    <2>1. PICK i \in 1..Len(s) : s[i] \in Containers
      BY <1>11 DEF Free
    <2>2. i = k /\ s[k] = Ou(own) /\ \A j \in 1..Len(s) : s[j] \in Containers => j = k
      BY <1>0, <2>1
    <2>3. s # u
      BY <1>2, <1>11
    <2>4. k \in 1..(Len(s) - 1)
      BY <1>1, <2>1, <2>2
    <2>5. CASE k = 1
      <3>1. s # v
        BY <1>4, <1>9, <2>2, <2>5
      <3>2. Compared(s) = s
        <4>1. \A j \in 2..(Len(s) - 1) : s[j] # Ou("people") /\ s[j] # Ou("groups")
          <5>1. ASSUME NEW j \in 2..(Len(s) - 1) PROVE s[j] \notin Containers
            <6>1. j \in 1..Len(s) /\ j # k
              BY <1>1, <2>5
            <6> QED BY <2>2, <6>1
          <5> QED BY <5>1 DEF Containers
        <4>2. DropInner(s, Ou("people")) = s
          BY <4>1, NoDrop
        <4>3. DropInner(s, Ou("groups")) = s
          BY <4>1, NoDrop
        <4> QED BY <4>2, <4>3 DEF Compared
      <3>3. ~(Compared(u) = Compared(s))
        BY <1>3, <2>3, <3>2
      <3> QED BY <2>3, <3>1, <3>3 DEF u, v, c
    <2>6. CASE k # 1
      <3>1. k \in 2..(Len(s) - 1)
        BY <1>1, <2>4, <2>6
      <3>2. Compared(s) = RemoveAt(s, k)
        BY <1>0, <2>2, <3>1, DropOwn
      <3>3. RemoveAt(s, k) = u <=> s = v
        <4> HIDE DEF k
        <4>1. k = Len(s) - Len(b)
          BY DEF k
        <4>2. RemoveAt(s, k) = r \o b <=> s = r \o Cons(Ou(own), b)
          <5> DEFINE p == Ou(own)
          <5>1. p \in Part /\ s[k] = p
            BY <1>4, <2>2
          <5> HIDE DEF p
          <5>2. RemoveAt(s, k) = r \o b <=> s = r \o Cons(p, b)
            <6>1. Above(s, p, k, b)
              BY <3>1, <4>1, <5>1 DEF Above
            <6>2. s \in Text /\ r \in Text /\ b \in Text /\ p \in Part
              BY <1>0, <5>1
            <6> QED BY <6>1, <6>2, DropMeans
          <5> QED BY <5>2 DEF p
        <4> QED BY <4>2 DEF u, v, c
      <3>4. Compared(u) = Compared(s) <=> s = v
        <4> HIDE DEF k
        <4> QED BY <1>3, <3>2, <3>3
      <3> QED BY <2>3, <3>4 DEF u, v, c
    <2> QED BY <2>5, <2>6
  <1> QED BY <1>10, <1>11

-----------------------------------------------------------------------------
(* The names that members go by.                                           *)
DcBase == \A i \in 1..Len(baseDN) : baseDN[i].attr = "dc"
PlainNames == \A name \in AllNames : ContainersOf(name) = {}

LEMMA FreeBase == ASSUME Stored, DcBase PROVE NormalizeDN(baseDN) \in Text /\ Free(NormalizeDN(baseDN))
  <1> DEFINE b == NormalizeDN(baseDN)
  <1>1. baseDN \in Text /\ b \in Text
    BY NormalizeText DEF Stored
  <1>2. Len(b) = Len(baseDN) /\ \A i \in 1..Len(baseDN) : b[i] = Normal(baseDN[i])
    BY <1>1, NormalizeType, TextIsSeq
  <1>3. Lower[Trim["dc"]] = "dc"
    BY OwnWord
  <1> HIDE DEF b
  <1>4. ASSUME NEW i \in 1..Len(b) PROVE b[i] \notin Containers
    <2>1. baseDN[i] \in Part /\ baseDN[i].attr = "dc" /\ b[i] = Normal(baseDN[i])
      BY <1>1, <1>2, TextIsSeq DEF DcBase
    <2>2. b[i].attr = "dc"
      BY <1>3, <2>1, NormalType
    <2>3. \A w : Ou(w).attr = "ou"
      BY DEF Ou
    <2> QED BY <2>2, <2>3 DEF Containers
  <1> QED BY <1>1, <1>4 DEF Free, b

LEMMA FreeRdn ==
    ASSUME NEW n, Name(n), ContainersOf(n) = {}, NEW a \in {"uid", "cn"}
    PROVE  NormalizeDN(Rdn(a, n)) \in Text /\ Free(NormalizeDN(Rdn(a, n)))
  <1> DEFINE w == Lower[Trim[n[1].value]]
             x == NormalizeDN(Tail(n))
             r == NormalizeDN(Rdn(a, n))
             m == NormalizeDN(n)
             p == Pair(a, w)
             q == Plain(w)
  <1>1. a \in OwnWords /\ a \in Words
    BY OwnWord
  <1>2. r = Cons(p, x) /\ r \in Text
    BY <1>1, NormalRdn, NormalizeText
  <1>3. m = Cons(q, x)
    BY NormalName
  <1>4. w \in Words /\ x \in Seq(Part)
    BY NameShape, NamesAssumption, NormalizeType
  <1>5. p \in Part /\ p.attr = a /\ q \in Part
    <2> HIDE DEF w
    <2> QED BY <1>1, <1>4, PairFacts, PlainFacts
  <1>6. \A i \in 1..Len(m) : m[i] \notin Containers
    <2>1. n \in Seq(Part) /\ DOMAIN n = 1..Len(n)
      BY TextIsSeq DEF Name
    <2>2. Len(m) = Len(n)
      BY <2>1, NormalizeType
    <2> QED BY <2>1, <2>2 DEF ContainersOf
  <1> HIDE DEF w, x, r, m, p, q
  <1>7. r[1] = p /\ Len(r) = Len(x) + 1 /\ Len(m) = Len(x) + 1
        /\ \A i \in 1..Len(x) : r[i + 1] = x[i] /\ m[i + 1] = x[i]
    BY <1>2, <1>3, <1>4, <1>5, ConsFacts
  <1>8. ASSUME NEW i \in 1..Len(r) PROVE r[i] \notin Containers
    <2>1. CASE i = 1
      <3>1. \A v : Ou(v).attr = "ou"
        BY DEF Ou
      <3> QED BY <1>5, <1>7, <2>1, <3>1 DEF Containers
    <2>2. CASE i # 1
      <3>1. i - 1 \in 1..Len(x) /\ (i - 1) + 1 = i /\ i \in 1..Len(m)
        BY <1>4, <1>7, <2>2
      <3>2. r[(i - 1) + 1] = m[(i - 1) + 1]
        BY <1>7, <3>1
      <3> QED BY <1>6, <3>1, <3>2
    <2> QED BY <2>1, <2>2
  <1> QED BY <1>2, <1>8 DEF Free, r

OnlyOwn(t, own) ==
    \A i \in ContainersOf(t) : i = Len(t) - Len(baseDN) /\ NormalizeDN(t)[i] = Ou(own)

LEMMA MemberDN ==
    ASSUME Stored, DcBase, NEW n, Name(n), ContainersOf(n) = {}, NEW a \in {"uid", "cn"},
           NEW t \in Text, NEW own \in {"people", "groups"}, OnlyOwn(t, own)
    PROVE  NormalizeComparableDN(Rdn(a, n) \o baseDN) = NormalizeComparableDN(t)
              <=> Same(t, {Rdn(a, n) \o baseDN, Rdn(a, n) \o (<<Ou(own)>> \o baseDN)})
  <1> DEFINE s == NormalizeDN(t)
             r == NormalizeDN(Rdn(a, n))
             b == NormalizeDN(baseDN)
             legacy == <<Ou(own)>> \o baseDN
  <1>1. r \in Text /\ Free(r) /\ b \in Text /\ Free(b) /\ s \in Text
    BY FreeRdn, FreeBase, NormalizeText
  <1>2. baseDN \in Seq(Part) /\ Rdn(a, n) \in Seq(Part) /\ t \in Seq(Part) /\ DOMAIN t = 1..Len(t)
    BY OwnWord, NormalRdn, TextIsSeq DEF Stored
  <1>3. Len(s) = Len(t) /\ Len(b) = Len(baseDN)
    BY <1>2, NormalizeType
  <1>4. Ou(own) \in Part /\ Normal(Ou(own)) = Ou(own)
    BY OuFacts
  <1>5. legacy \in Seq(Part) /\ NormalizeDN(legacy) = Cons(Ou(own), b)
    <2>1. legacy = Cons(Ou(own), baseDN)
      BY DEF Cons
    <2> DEFINE p == Ou(own)
    <2> HIDE DEF p
    <2>2. p \in Part /\ Normal(p) = p /\ legacy = Cons(p, baseDN)
      BY <1>4, <2>1 DEF p
    <2>3. Cons(p, baseDN) \in Text /\ NormalizeDN(Cons(p, baseDN)) = Cons(p, b)
      BY <1>2, <2>2, ConsFacts, NormalizeCons
    <2>4. Cons(p, baseDN) \in Seq(Part)
      BY <2>3, TextIsSeq
    <2> HIDE DEF legacy, b
    <2> QED BY <2>2, <2>3, <2>4 DEF p
  <1> HIDE DEF legacy
  <1>6. NormalizeDN(Rdn(a, n) \o baseDN) = r \o b
    BY <1>2, NormalizeConcat
  <1>7. NormalizeDN(Rdn(a, n) \o legacy) = r \o Cons(Ou(own), b)
    BY <1>2, <1>5, NormalizeConcat
  <1>8. Comparable(s, r, b, own)
    <2>1. \A i \in 1..Len(s) : s[i] \in Containers => i = Len(s) - Len(b) /\ s[i] = Ou(own)
      BY <1>2, <1>3 DEF OnlyOwn, ContainersOf
    <2> HIDE DEF s, r, b
    <2> QED BY <1>1, <2>1 DEF Comparable
  <1>9. \A u : NormalizeComparableDN(u) = Compared(NormalizeDN(u))
    BY DEF NormalizeComparableDN, Compared
  <1>10. Same(t, {Rdn(a, n) \o baseDN, Rdn(a, n) \o legacy})
            <=> s = r \o b \/ s = r \o Cons(Ou(own), b)
    <2>1. \A x, y : Same(t, {x, y}) <=> s = NormalizeDN(x) \/ s = NormalizeDN(y)
      BY DEF Same
    <2> HIDE DEF s, r, b
    <2> QED BY <1>6, <1>7, <2>1
  <1> HIDE DEF s, r, b
  <1>11. Compared(r \o b) = Compared(s) <=> s = r \o b \/ s = r \o Cons(Ou(own), b)
    BY <1>8, TwoForms
  <1>12. NormalizeComparableDN(Rdn(a, n) \o baseDN) = Compared(r \o b)
         /\ NormalizeComparableDN(t) = Compared(s)
    BY <1>6, <1>9 DEF s
  <1> QED BY <1>10, <1>11, <1>12 DEF legacy

(* matchesAttributeValue on the DNs of groups and of members.              *)
LEMMA GroupMatched ==
    ASSUME Stored, DcBase, NEW f \in Filters, AboutMembers(f), Lower[f.attr] = "memberof",
           NEW g, Name(g), ContainersOf(g) = {}
    PROVE  MatchesAttributeValue(f.attr, GroupDN(baseDN, g), f.value) <=> GroupMeant(f, g)
  <1>1. f.value \in Text
    BY FiltersAssumption
  <1>2. OnlyOwn(f.value, "groups")
    BY DEF AboutMembers, OfDNs, OwnContainer, OnlyOwn
  <1>3. GroupDN(baseDN, g) = Rdn("cn", g) \o baseDN
        /\ LegacyGroupDN(baseDN, g) = Rdn("cn", g) \o (<<Ou("groups")>> \o baseDN)
    BY DEF GroupDN, LegacyGroupDN, GroupsBaseDN
  <1>4. NormalizeComparableDN(GroupDN(baseDN, g)) = NormalizeComparableDN(f.value)
           <=> Same(f.value, {GroupDN(baseDN, g), LegacyGroupDN(baseDN, g)})
    BY <1>1, <1>2, <1>3, MemberDN
  <1> QED BY <1>4 DEF MatchesAttributeValue, DnAttributes, GroupMeant

LEMMA UserMatched ==
    ASSUME Stored, DcBase, NEW f \in Filters, AboutMembers(f),
           Lower[f.attr] \in {"member", "uniquemember"}, NEW u, Name(u), ContainersOf(u) = {}
    PROVE  MatchesAttributeValue(f.attr, UserDN(baseDN, u), f.value) <=> UserMeant(f, u)
  <1>1. f.value \in Text
    BY FiltersAssumption
  <1>2. OnlyOwn(f.value, "people")
    BY DEF AboutMembers, OfDNs, OwnContainer, OnlyOwn
  <1>3. UserDN(baseDN, u) = Rdn("uid", u) \o baseDN
        /\ LegacyUserDN(baseDN, u) = Rdn("uid", u) \o (<<Ou("people")>> \o baseDN)
    BY DEF UserDN, LegacyUserDN, PeopleBaseDN
  <1>4. NormalizeComparableDN(UserDN(baseDN, u)) = NormalizeComparableDN(f.value)
           <=> Same(f.value, {UserDN(baseDN, u), LegacyUserDN(baseDN, u)})
    BY <1>1, <1>2, <1>3, MemberDN
  <1> QED BY <1>4 DEF MatchesAttributeValue, DnAttributes, UserMeant

-----------------------------------------------------------------------------
(* The filter of a search, and what it means.                              *)
Holds(f, m, attrs) ==
    \/ f.op = "and" /\ \A g \in f.args : m[g]
    \/ f.op = "or" /\ \E g \in f.args : m[g]
    \/ f.op = "eq" /\ Lower[f.attr] \in DOMAIN attrs
                   /\ \E v \in attrs[Lower[f.attr]] :
                         MatchesAttributeValue(f.attr, v, f.value)
    \/ f.op = "present" /\ Lower[f.attr] \in DOMAIN attrs

LEMMA HoldsByDepth ==
    ASSUME NEW f \in Filters, NEW attrs, NEW m, NEW n,
           \A g \in Filters : Depth[g] < Depth[f] => m[g] = n[g]
    PROVE  Holds(f, m, attrs) = Holds(f, n, attrs)
<1>1. \A g \in f.args : m[g] = n[g]
  BY FiltersAssumption
<1>2. (\A g \in f.args : m[g]) <=> (\A g \in f.args : n[g])
  BY <1>1
<1>3. (\E g \in f.args : m[g]) <=> (\E g \in f.args : n[g])
  BY <1>1
<1> QED BY <1>2, <1>3, Zenon DEF Holds

(* Match is what its clauses say, also of the filters inside one.          *)
LEMMA MatchUnfolds ==
    ASSUME NEW filter \in Filters, NEW attrs
    PROVE  LET m == [f \in Filters |-> Match(f, attrs)] IN Match(filter, attrs) = Holds(filter, m, attrs)
<1> DEFINE Step == [p \in Filters \X [Filters -> BOOLEAN] |-> Holds(p[1], p[2], attrs)]
           Table(m) == [f \in Filters |-> Holds(f, m, attrs)]
           match == CHOOSE m : m = Table(m)
<1>1. Step \in [Filters \X [Filters -> BOOLEAN] -> BOOLEAN]
  BY DEF Holds
<1>2. ASSUME NEW s \in Filters, NEW f \in [Filters -> BOOLEAN], NEW g \in [Filters -> BOOLEAN],
             \A t \in Filters : Depth[t] < Depth[s] => f[t] = g[t]
      PROVE  Step[<<s, f>>] = Step[<<s, g>>]
  <2>1. Holds(s, f, attrs) = Holds(s, g, attrs)
    BY <1>2, HoldsByDepth
  <2> QED BY <2>1
<1>3. \A s \in Filters : \A m \in [Filters -> BOOLEAN] : Step[<<s, m>>] = Holds(s, m, attrs)
  OBVIOUS
<1>4. PICK m \in [Filters -> BOOLEAN] : \A s \in Filters : m[s] = Step[<<s, m>>]
  <2> DEFINE B == BOOLEAN
  <2>1. Depth \in [Filters -> Nat] /\ B # {} /\ Step \in [Filters \X [Filters -> B] -> B]
    BY <1>1, FiltersAssumption
  <2>2. \A s \in Filters : \A f, g \in [Filters -> B] :
           (\A t \in Filters : Depth[t] < Depth[s] => f[t] = g[t]) => Step[<<s, f>>] = Step[<<s, g>>]
    BY <1>2
  <2>3. \E m \in [Filters -> B] : \A s \in Filters : m[s] = Step[<<s, m>>]
    <3> HIDE DEF Step, B
    <3>1. ByDepth(Filters, B, Depth, Step)
      BY <2>1, <2>2 DEF ByDepth
    <3> QED BY <3>1, FunctionByDepth
  <2> QED BY <2>3
<1>5. m = Table(m)
  <2> HIDE DEF Step
  <2> QED BY <1>3, <1>4
<1>6. match = Table(match)
  <2> HIDE DEF Table
  <2> QED BY <1>5
<1>7. \A f \in Filters : Match(f, attrs) = match[f]
  BY SMT DEF Match, Holds
<1>8. [f \in Filters |-> Match(f, attrs)] = match
  <2> HIDE DEF match
  <2> QED BY <1>6, <1>7
<1>9. match[filter] = Holds(filter, match, attrs)
  <2> HIDE DEF match
  <2> QED BY <1>6
<1> QED BY <1>7, <1>8, <1>9

LEMMA EqualityMatches ==
    ASSUME NEW f \in Filters, f.op = "eq", NEW attrs
    PROVE  Match(f, attrs) <=> /\ Lower[f.attr] \in DOMAIN attrs
                               /\ \E v \in attrs[Lower[f.attr]] :
                                     MatchesAttributeValue(f.attr, v, f.value)
  <1> DEFINE m == [g \in Filters |-> Match(g, attrs)]
  <1>1. Match(f, attrs) = Holds(f, m, attrs)
    BY MatchUnfolds
  <1> HIDE DEF m
  <1>2. Holds(f, m, attrs) <=> /\ Lower[f.attr] \in DOMAIN attrs
                               /\ \E v \in attrs[Lower[f.attr]] :
                                     MatchesAttributeValue(f.attr, v, f.value)
    BY Zenon DEF Holds
  <1> QED BY <1>1, <1>2

LEMMA OrMatches ==
    ASSUME NEW f \in Filters, f.op = "or", NEW attrs
    PROVE  Match(f, attrs) <=> \E g \in f.args : Match(g, attrs)
  <1> DEFINE m == [g \in Filters |-> Match(g, attrs)]
  <1>1. Match(f, attrs) = Holds(f, m, attrs)
    BY MatchUnfolds
  <1>2. \A g \in f.args : m[g] = Match(g, attrs)
    BY FiltersAssumption
  <1> HIDE DEF m
  <1>3. Holds(f, m, attrs) <=> \E g \in f.args : m[g]
    BY Zenon DEF Holds
  <1> QED BY <1>1, <1>2, <1>3

(* Members of what is stored, with plain names.                            *)
LEMMA MembersAreKnown ==
    ASSUME Stored, PlainNames, NEW m \in dir.members
    PROVE  /\ Name(m[1]) /\ ContainersOf(m[1]) = {}
           /\ Name(m[2]) /\ ContainersOf(m[2]) = {}
  <1>1. m \in {u.name : u \in dir.users} \X dir.groups
    BY AnswersAssumption DEF Stored
  <1>2. PICK u \in dir.users : m[1] = u.name
    BY <1>1
  <1>3. m[2] \in dir.groups
    BY <1>1
  <1>4. Name(m[1]) /\ Name(m[2])
    BY <1>2, <1>3, NamesOfDirectory DEF Stored
  <1>5. m[1] \in AllNames /\ m[2] \in AllNames
    BY <1>2, <1>3 DEF AllNames
  <1> QED BY <1>4, <1>5 DEF PlainNames

LEMMA UserPicked ==
    ASSUME Stored, DcBase, PlainNames, NEW f \in Filters, AboutMembers(f), NEW u
    PROVE  Match(f, UserEntry(u, GroupsOf(dir, u.name), baseDN).attrs)
              <=> \E m \in dir.members : m[1] = u.name /\ GroupMeant(f, m[2])
  <1> DEFINE gs == GroupsOf(dir, u.name)
             as == UserEntry(u, gs, baseDN).attrs
             a == Lower[f.attr]
  <1>1. /\ DOMAIN as = {"objectclass", "uid", "cn", "displayname", "memberof", "distinguishedname"}
        /\ as["memberof"] = {GroupDN(baseDN, g) : g \in gs}
    BY DEF UserEntry, Entry
  <1>2. f.op = "eq" /\ a \in {"memberof", "member", "uniquemember", "memberuid"}
    BY DEF AboutMembers, OfDNs
  <1> HIDE DEF as
  <1>3. Match(f, as) <=> a \in DOMAIN as /\ \E v \in as[a] : MatchesAttributeValue(f.attr, v, f.value)
    BY <1>2, EqualityMatches
  <1>4. CASE a # "memberof"
    <2>1. a \notin DOMAIN as
      BY <1>1, <1>2, <1>4
    <2>2. \A g : ~GroupMeant(f, g)
      BY <1>4 DEF GroupMeant
    <2> QED BY <1>3, <2>1, <2>2 DEF as
  <1>5. CASE a = "memberof"
    <2>1. Match(f, as) <=> \E g \in gs : MatchesAttributeValue(f.attr, GroupDN(baseDN, g), f.value)
      <3> DEFINE ds == {GroupDN(baseDN, g) : g \in gs}
      <3>1. as[a] = ds /\ a \in DOMAIN as
        BY <1>1, <1>5
      <3>2. Match(f, as) <=> \E v \in ds : MatchesAttributeValue(f.attr, v, f.value)
        <4> HIDE DEF ds, a
        <4> QED BY <1>3, <3>1
      <3> QED BY <3>2
    <2>2. \A m \in dir.members : MatchesAttributeValue(f.attr, GroupDN(baseDN, m[2]), f.value)
                                    <=> GroupMeant(f, m[2])
      BY <1>5, MembersAreKnown, GroupMatched
    <2>3. \A g : g \in gs <=> \E m \in dir.members : m[1] = u.name /\ g = m[2]
      BY DEF GroupsOf
    <2> HIDE DEF gs
    <2>4. Match(f, as) <=> \E m \in dir.members : m[1] = u.name /\ GroupMeant(f, m[2])
      BY <2>1, <2>2, <2>3
    <2> QED BY <2>4 DEF as, gs
  <1> QED BY <1>4, <1>5

LEMMA GroupPicked ==
    ASSUME Stored, DcBase, PlainNames, NEW f \in Filters, AboutMembers(f), NEW g
    PROVE  Match(f, GroupEntry(g, MembersOf(dir, g), baseDN).attrs)
              <=> \E m \in dir.members : m[2] = g /\ UserMeant(f, m[1])
  <1> DEFINE us == MembersOf(dir, g)
             as == GroupEntry(g, us, baseDN).attrs
             a == Lower[f.attr]
  <1>1. /\ DOMAIN as = {"objectclass", "cn", "member", "uniquemember", "memberuid"}
        /\ as["memberuid"] = us
        /\ \A w \in {"member", "uniquemember"} : as[w] = {UserDN(baseDN, u) : u \in us}
    BY DEF GroupEntry, Entry
  <1>2. f.op = "eq" /\ a \in {"memberof", "member", "uniquemember", "memberuid"}
    BY DEF AboutMembers, OfDNs
  <1> HIDE DEF as
  <1>3. Match(f, as) <=> a \in DOMAIN as /\ \E v \in as[a] : MatchesAttributeValue(f.attr, v, f.value)
    BY <1>2, EqualityMatches
  <1>4. \A u : u \in us <=> \E m \in dir.members : m[2] = g /\ u = m[1]
    BY DEF MembersOf
  <1> HIDE DEF us
  <1>5. CASE a = "memberof"
    <2>1. a \notin DOMAIN as
      BY <1>1, <1>5
    <2>2. \A u : ~UserMeant(f, u)
      BY <1>5 DEF UserMeant
    <2> QED BY <1>3, <2>1, <2>2 DEF as, us
  <1>6. CASE a = "memberuid"
    <2>1. Match(f, as) <=> \E u \in us : MatchesAttributeValue(f.attr, u, f.value)
      BY <1>1, <1>3, <1>6
    <2>2. \A u : MatchesAttributeValue(f.attr, u, f.value) <=> UserMeant(f, u)
      BY <1>6 DEF MatchesAttributeValue, DnAttributes, UserMeant
    <2>3. Match(f, as) <=> \E m \in dir.members : m[2] = g /\ UserMeant(f, m[1])
      BY <1>4, <2>1, <2>2
    <2> QED BY <2>3 DEF as, us
  <1>7. CASE a \in {"member", "uniquemember"}
    <2>1. Match(f, as) <=> \E u \in us : MatchesAttributeValue(f.attr, UserDN(baseDN, u), f.value)
      <3> DEFINE ds == {UserDN(baseDN, u) : u \in us}
      <3>1. as[a] = ds /\ a \in DOMAIN as
        BY <1>1, <1>7
      <3>2. Match(f, as) <=> \E v \in ds : MatchesAttributeValue(f.attr, v, f.value)
        <4> HIDE DEF ds, a
        <4> QED BY <1>3, <3>1
      <3> QED BY <3>2
    <2>2. \A m \in dir.members : MatchesAttributeValue(f.attr, UserDN(baseDN, m[1]), f.value)
                                    <=> UserMeant(f, m[1])
      BY <1>7, MembersAreKnown, UserMatched
    <2>3. Match(f, as) <=> \E m \in dir.members : m[2] = g /\ UserMeant(f, m[1])
      BY <1>4, <2>1, <2>2
    <2> QED BY <2>3 DEF as, us
  <1> QED BY <1>2, <1>5, <1>6, <1>7

LEMMA OthersNotPicked ==
    ASSUME NEW f \in Filters, AboutMembers(f)
    PROVE  /\ ~Match(f, BaseEntry(baseDN).attrs)
           /\ \A w : ~Match(f, ContainerEntry(w, baseDN).attrs)
  <1>1. f.op = "eq" /\ Lower[f.attr] \in {"memberof", "member", "uniquemember", "memberuid"}
    BY DEF AboutMembers, OfDNs
  <1>2. /\ DOMAIN BaseEntry(baseDN).attrs = {"objectclass", "dc"}
        /\ \A w : DOMAIN ContainerEntry(w, baseDN).attrs = {"objectclass", "ou"}
    BY DEF BaseEntry, ContainerEntry, Entry
  <1>3. \A as : Match(f, as) => Lower[f.attr] \in DOMAIN as
    BY <1>1, EqualityMatches
  <1> QED BY <1>1, <1>2, <1>3

(* One filter about members picks what it means.                           *)
LEMMA OnePicked ==
    ASSUME Stored, DcBase, PlainNames, NEW f \in Filters, AboutMembers(f), NEW e
    PROVE  e \in VisibleEntries /\ Match(f, e.attrs) <=> e \in Meant(f)
  <1> DEFINE UE(u) == UserEntry(u, GroupsOf(dir, u.name), baseDN)
             GE(g) == GroupEntry(g, MembersOf(dir, g), baseDN)
             InGroup(u) == \E m \in dir.members : m[1] = u.name /\ GroupMeant(f, m[2])
             HasMember(g) == \E m \in dir.members : m[2] = g /\ UserMeant(f, m[1])
             M(x) == Match(f, x.attrs)
  <1>1. /\ \A u : M(UE(u)) <=> InGroup(u)
        /\ \A g : M(GE(g)) <=> HasMember(g)
    BY UserPicked, GroupPicked
  <1>2. /\ ~M(BaseEntry(baseDN)) /\ ~M(ContainerEntry("people", baseDN))
        /\ ~M(ContainerEntry("groups", baseDN))
    BY OthersNotPicked
  <1>3. e \in VisibleEntries <=>
            \/ e \in {BaseEntry(baseDN), ContainerEntry("people", baseDN),
                      ContainerEntry("groups", baseDN)}
            \/ \E u \in VisibleUsers : e = UE(u)
            \/ \E g \in VisibleGroups : e = GE(g)
    BY DEF VisibleEntries
  <1>4. e \in Meant(f) <=> \/ \E u \in VisibleUsers : e = UE(u) /\ InGroup(u)
                           \/ \E g \in VisibleGroups : e = GE(g) /\ HasMember(g)
    BY DEF Meant
  <1> HIDE DEF UE, GE, InGroup, HasMember, M
  <1>5. e \in VisibleEntries /\ M(e) <=> e \in Meant(f)
    BY <1>1, <1>2, <1>3, <1>4
  <1> QED BY <1>5 DEF M

LEMMA WholeTree ==
    ASSUME Stored, NEW e \in VisibleEntries, NEW q, At(q, baseDN)
    PROVE  EntryWithinScope(q.base, "sub", e)
  <1> DEFINE b == NormalizeDN(baseDN)
             d == NormalizeDN(e.dn)
  <1>1. baseDN \in Text /\ b \in Text /\ b = NormalizeDN(q.base)
    BY NormalizeText DEF Stored, At
  <1>2. d = b \/ Under(d, b) => EntryWithinScope(q.base, "sub", e)
    <2>1. DnWithinScope(q.base, "sub", e.dn) => EntryWithinScope(q.base, "sub", e)
      BY DEF EntryWithinScope
    <2> QED BY <1>1, <2>1 DEF DnWithinScope, InSubtree
  <1>3. CASE e = BaseEntry(baseDN)
    <2>1. e.dn = baseDN
      BY <1>3 DEF BaseEntry, Entry
    <2> QED BY <1>2, <2>1
  <1>4. CASE e = ContainerEntry("people", baseDN) \/ e = ContainerEntry("groups", baseDN)
    <2>1. e.dn = PeopleBaseDN(baseDN) \/ e.dn = GroupsBaseDN(baseDN)
      BY <1>4 DEF ContainerEntry, Entry, PeopleBaseDN, GroupsBaseDN
    <2>2. d = Cons(Ou("people"), b) \/ d = Cons(Ou("groups"), b)
      BY <1>1, <2>1, ContainerFacts
    <2> HIDE DEF b, d
    <2>3. Under(d, b)
      BY <1>1, <2>2, OuFacts, UnderCons
    <2> QED BY <1>2, <2>3 DEF b, d
  <1>5. ASSUME NEW u \in VisibleUsers, e = UserEntry(u, GroupsOf(dir, u.name), baseDN)
        PROVE  Under(d, b)
    <2>1. Name(u.name) /\ e.dn = UserDN(baseDN, u.name)
      BY <1>5, NamesOfDirectory DEF Stored, VisibleUsers, UserEntry, Entry
    <2>2. "uid" \in OwnWords
      BY OwnWord
    <2>3. d = NormalizeDN(Rdn("uid", u.name)) \o b
      <3>1. NormalizeDN(UserDN(baseDN, u.name)) = NormalizeDN(Rdn("uid", u.name)) \o b
        BY <1>1, <2>1, NormalDNs
      <3> QED BY <2>1, <3>1
    <2>4. NormalizeDN(Rdn("uid", u.name)) \in Text
      BY <2>1, <2>2, NormalRdn, NormalizeText
    <2> HIDE DEF b, d
    <2> QED BY <1>1, <2>3, <2>4, UnderOfConcat
  <1>6. ASSUME NEW g \in VisibleGroups, e = GroupEntry(g, MembersOf(dir, g), baseDN)
        PROVE  Under(d, b)
    <2>1. Name(g) /\ e.dn = GroupDN(baseDN, g)
      BY <1>6, NamesOfDirectory DEF Stored, VisibleGroups, GroupEntry, Entry
    <2>2. "cn" \in OwnWords
      BY OwnWord
    <2>3. d = NormalizeDN(Rdn("cn", g)) \o b
      <3>1. NormalizeDN(GroupDN(baseDN, g)) = NormalizeDN(Rdn("cn", g)) \o b
        BY <1>1, <2>1, NormalDNs
      <3> QED BY <2>1, <3>1
    <2>4. NormalizeDN(Rdn("cn", g)) \in Text
      BY <2>1, <2>2, NormalRdn, NormalizeText
    <2> HIDE DEF b, d
    <2> QED BY <1>1, <2>3, <2>4, UnderOfConcat
  <1>7. \/ e = BaseEntry(baseDN)
        \/ e = ContainerEntry("people", baseDN) \/ e = ContainerEntry("groups", baseDN)
        \/ \E u \in VisibleUsers : e = UserEntry(u, GroupsOf(dir, u.name), baseDN)
        \/ \E g \in VisibleGroups : e = GroupEntry(g, MembersOf(dir, g), baseDN)
    BY DEF VisibleEntries
  <1> QED BY <1>2, <1>3, <1>4, <1>5, <1>6, <1>7

LEMMA MembersPicked ==
    ASSUME Stored, DcBase, PlainNames, NEW q, At(q, baseDN), q.scope = "sub", q.filter \in Filters
    PROVE  LET fs == IF q.filter.op = "or" THEN q.filter.args ELSE {q.filter}
           IN  (\A f \in fs : AboutMembers(f)) => Picked(q) = UNION {Meant(f) : f \in fs}
  <1> DEFINE fs == IF q.filter.op = "or" THEN q.filter.args ELSE {q.filter}
  <1>1. SUFFICES ASSUME \A f \in fs : AboutMembers(f) PROVE Picked(q) = UNION {Meant(f) : f \in fs}
    OBVIOUS
  <1>2. fs \subseteq Filters
    BY FiltersAssumption
  <1>3. \A attrs : Match(q.filter, attrs) <=> \E f \in fs : Match(f, attrs)
    BY OrMatches
  <1>4. Picked(q) = {e \in VisibleEntries : EntryWithinScope(q.base, "sub", e)
                                            /\ Match(q.filter, e.attrs)}
    BY DEF Picked
  <1>5. \A e \in VisibleEntries : EntryWithinScope(q.base, "sub", e)
    BY WholeTree
  <1> HIDE DEF fs
  <1>6. \A e : e \in Picked(q) <=> e \in VisibleEntries /\ Match(q.filter, e.attrs)
    <2> DEFINE M(e) == Match(q.filter, e.attrs)
               S(e) == EntryWithinScope(q.base, "sub", e)
    <2>1. Picked(q) = {e \in VisibleEntries : S(e) /\ M(e)} /\ \A e \in VisibleEntries : S(e)
      BY <1>4, <1>5
    <2> HIDE DEF M, S
    <2>2. \A e : e \in Picked(q) <=> e \in VisibleEntries /\ M(e)
      BY <2>1
    <2> QED BY <2>2 DEF M
  <1>7. \A f \in fs : \A e : e \in VisibleEntries /\ Match(f, e.attrs) <=> e \in Meant(f)
    BY <1>1, <1>2, OnePicked
  <1>8. \A e : e \in Picked(q) <=> \E f \in fs : e \in Meant(f)
    BY <1>3, <1>6, <1>7
  <1> QED BY <1>8

LEMMA DcBaseInit == AnswersInit => DcBase
  BY AnswersAssumption, BaseDNIsText DEF AnswersInit, DcBase

LEMMA DcBaseStep == ASSUME DcBase, [AnswersNext]_answersVars PROVE DcBase'
  <1>1. ASSUME NEW t \in BaseDNs, UpdateBaseDN(t) PROVE DcBase'
    BY <1>1, AnswersAssumption, BaseDNIsText DEF UpdateBaseDN, DcBase
  <1>2. ASSUME baseDN' = baseDN PROVE DcBase'
    BY <1>2 DEF DcBase
  <1> QED BY <1>1, <1>2 DEF AnswersNext, answersVars, ChangeDirectory, Done, Bind, Search

MemberInv == ScopeInv /\ DcBase

(* Match and matchesAttributeValue: a search of the whole tree for members *)
(* of a group or groups of a member gives exactly the memberships stored.  *)
THEOREM MembershipsAgree == AnswersSpec => []MembershipSearchesAgree
  <1>1. AnswersInit => MemberInv
    BY StoredInit, DcBaseInit DEF AnswersInit, MemberInv, ScopeInv, GivesPicked, Searched
  <1>2. MemberInv /\ [AnswersNext]_answersVars => MemberInv'
    BY ScopeStep, DcBaseStep DEF MemberInv
  <1>3. MemberInv => MembershipSearchesAgree
    <2> SUFFICES ASSUME MemberInv, Searched, At(asked, baseDN), asked.scope = "sub", PlainNames
                 PROVE  LET fs == IF asked.filter.op = "or" THEN asked.filter.args
                                  ELSE {asked.filter}
                        IN  (\A f \in fs : AboutMembers(f))
                               => answer.entries = UNION {Meant(f) : f \in fs}
      BY DEF MembershipSearchesAgree, PlainNames
    <2>1. Stored /\ DcBase /\ answer.entries = Picked(asked)
      BY DEF MemberInv, ScopeInv, GivesPicked
    <2>2. asked.filter \in Filters
      <3>1. PICK q \in Searches : AsksSearch(q)
        BY DEF MemberInv, ScopeInv, AskedKnown, Searched
      <3> QED BY <3>1, AnswersAssumption DEF AsksSearch
    <2> QED BY <2>1, <2>2, MembersPicked
  <1> QED BY <1>1, <1>2, <1>3, PTL DEF AnswersSpec

-----------------------------------------------------------------------------
(* What every message is framed by: the length octets of elements, for    *)
(* contents of every size.                                                 *)
LEMMA OctetIsNat == ASSUME NEW o \in Octet PROVE o \in Nat /\ o \in Int /\ o <= 255
  BY SMTT(30) DEF Octet

LEMMA OctetSum ==
    ASSUME NEW a \in Octet, NEW b \in Octet
    PROVE  a <= MaxPacketLength /\ 256 * a + b <= 65535 /\ 256 * a + b <= MaxPacketLength
  BY SMTT(30) DEF Octet, MaxPacketLength

LEMMA UpToLimit == ASSUME NEW n \in Nat, n <= MaxPacketLength PROVE n \in 0..MaxPacketLength
  <1>1. MaxPacketLength \in Int
    BY SMTT(30) DEF MaxPacketLength
  <1> QED BY <1>1, SMTT(30)

(* The octets that follow the first.                                       *)
LEMMA Following ==
    ASSUME NEW s \in Seq(Octet), NEW m \in Nat, m < Len(s)
    PROVE  /\ SubSeq(s, 2, m + 1) \in Seq(Octet)
           /\ Len(SubSeq(s, 2, m + 1)) = m
           /\ \A i \in 1..m : SubSeq(s, 2, m + 1)[i] = s[i + 1]
  BY SMTT(30)

LEMMA PlaceType == ASSUME NEW t \in Seq(Octet), NEW k \in Nat PROVE Place(t, k) \in Octet
  <1>1. Len(t) \in Nat
    BY SMTT(30)
  <1>2. CASE k < Len(t)
    <2>1. Len(t) - k \in 1..Len(t)
      BY <1>1, <1>2, SMTT(30)
    <2>2. t[Len(t) - k] \in Octet
      BY <2>1, ElementOfSeq
    <2> QED BY <1>2, <2>2, SMTT(30) DEF Place
  <1>3. CASE ~(k < Len(t))
    BY <1>3, SMTT(30) DEF Place, Octet
  <1> QED BY <1>2, <1>3

LEMMA LongLengthNat == ASSUME NEW t \in Seq(Octet) PROVE LongLength(t) \in Nat
  <1>1. /\ Place(t, 0) \in Nat /\ Place(t, 1) \in Nat
        /\ Place(t, 2) \in Nat /\ Place(t, 3) \in Nat
    BY PlaceType, OctetIsNat
  <1> QED BY <1>1, SMTT(30) DEF LongLength

LEMMA LongLengthOfOne ==
    ASSUME NEW t \in Seq(Octet), Len(t) = 1
    PROVE  LongLength(t) = t[1]
  <1>1. Place(t, 0) = t[1] /\ Place(t, 1) = 0 /\ Place(t, 2) = 0 /\ Place(t, 3) = 0
    BY SMTT(30) DEF Place
  <1>2. Place(t, 0) \in Int
    BY PlaceType, OctetIsNat
  <1>3. LongLength(t) = Place(t, 0)
    <2>1. Place(t, 1) = 0 /\ Place(t, 2) = 0 /\ Place(t, 3) = 0
      BY <1>1
    <2> QED BY <1>2, <2>1, SMTT(30) DEF LongLength
  <1> QED BY <1>1, <1>3

LEMMA LongLengthOfTwo ==
    ASSUME NEW t \in Seq(Octet), Len(t) = 2
    PROVE  LongLength(t) = 256 * t[1] + t[2]
  <1>1. Place(t, 0) = t[2] /\ Place(t, 1) = t[1] /\ Place(t, 2) = 0 /\ Place(t, 3) = 0
    BY SMTT(30) DEF Place
  <1>2. Place(t, 0) \in Int /\ Place(t, 1) \in Int
    BY PlaceType, OctetIsNat
  <1>3. LongLength(t) = 256 * Place(t, 1) + Place(t, 0)
    <2>1. Place(t, 2) = 0 /\ Place(t, 3) = 0
      BY <1>1
    <2> QED BY <1>2, <2>1, SMTT(30) DEF LongLength
  <1> QED BY <1>1, <1>3

-----------------------------------------------------------------------------
(* readLength on the three forms that appendLength writes.                 *)
LEMMA ShortForm == ASSUME NEW n \in 0..127 PROVE ReadLength(<<n>>) = n
  BY SMTT(30) DEF ReadLength

LEMMA LongForm ==
    ASSUME NEW s \in Seq(Octet), NEW m \in 1..4, s[1] = 128 + m, m < Len(s),
           LongLength(SubSeq(s, 2, m + 1)) <= MaxPacketLength
    PROVE  ReadLength(s) = LongLength(SubSeq(s, 2, m + 1))
  <1>1. s # <<>> /\ s[1] - 128 = m /\ ~(s[1] < 128)
    BY SMTT(30)
  <1> QED BY <1>1, SMTT(30) DEF ReadLength

LEMMA OctetAt == ASSUME NEW t \in Seq(Octet), NEW i \in 1..Len(t) PROVE t[i] \in Octet
  BY ElementOfSeq

LEMMA OneOctetForm ==
    ASSUME NEW s \in Seq(Octet), Len(s) = 2, s[1] = 129
    PROVE  ReadLength(s) = s[2]
  <1> DEFINE m == 1
             t == SubSeq(s, 2, m + 1)
  <1>1. t \in Seq(Octet) /\ Len(t) = 1 /\ t[1] = s[2]
    BY Following, SMTT(30)
  <1>2. LongLength(t) = s[2]
    <2> HIDE DEF t
    <2>1. LongLength(t) = t[1]
      BY <1>1, LongLengthOfOne, SMTT(30)
    <2> QED BY <1>1, <2>1, SMTT(30)
  <1>3. s[2] <= MaxPacketLength
    <2>1. s[2] \in Octet
      BY OctetAt, SMTT(30)
    <2> QED BY <2>1, OctetSum
  <1>4. m \in 1..4 /\ s[1] = 128 + m /\ m < Len(s)
    BY SMTT(30)
  <1> HIDE DEF m
  <1>5. LongLength(t) <= MaxPacketLength
    BY <1>2, <1>3
  <1>6. ReadLength(s) = LongLength(t)
    BY <1>4, <1>5, LongForm
  <1> QED BY <1>2, <1>6

LEMMA OctetsAfterFirst ==
    ASSUME NEW t \in Seq(Octet), Len(t) = 3
    PROVE  t[2] \in Octet /\ t[3] \in Octet
  <1>1. 2 \in 1..Len(t) /\ 3 \in 1..Len(t)
    BY SMTT(30)
  <1>2. t[2] \in Octet
    BY <1>1, OctetAt
  <1>3. t[3] \in Octet
    BY <1>1, OctetAt
  <1> QED BY <1>2, <1>3

LEMMA TwoOctetForm ==
    ASSUME NEW s \in Seq(Octet), Len(s) = 3, s[1] = 130
    PROVE  ReadLength(s) = 256 * s[2] + s[3]
  <1> DEFINE m == 2
             t == SubSeq(s, 2, m + 1)
  <1>1. t \in Seq(Octet) /\ Len(t) = 2 /\ t[1] = s[2] /\ t[2] = s[3]
    BY Following, SMTT(30)
  <1>2. LongLength(t) = 256 * s[2] + s[3]
    <2> HIDE DEF t
    <2>1. LongLength(t) = 256 * t[1] + t[2]
      BY <1>1, LongLengthOfTwo, SMTT(30)
    <2> QED BY <1>1, <2>1, SMTT(30)
  <1>3. 256 * s[2] + s[3] <= MaxPacketLength
    <2>1. s[2] \in Octet /\ s[3] \in Octet
      BY OctetsAfterFirst, SMTT(30)
    <2> QED BY <2>1, OctetSum
  <1>4. m \in 1..4 /\ s[1] = 128 + m /\ m < Len(s)
    BY SMTT(30)
  <1> HIDE DEF m
  <1>5. LongLength(t) <= MaxPacketLength
    BY <1>2, <1>3
  <1>6. ReadLength(s) = LongLength(t)
    BY <1>4, <1>5, LongForm
  <1> QED BY <1>2, <1>6

-----------------------------------------------------------------------------
LEMMA Division == ASSUME NEW n \in Int PROVE n % 256 = n - (n \div 256) * 256
  BY SMTT(30)

LEMMA TwoOctets ==
    ASSUME NEW n \in Nat
    PROVE  /\ (n \div 256) % 256 \in Octet /\ n % 256 \in Octet
           /\ n < 65536 => 256 * ((n \div 256) % 256) + (n % 256) = n
  <1> DEFINE q == n \div 256
             r == n % 256
  <1>1. r = n - q * 256 /\ q \in Nat /\ r \in Octet
    BY Division, SMTT(30) DEF Octet
  <1>2. n < 65536 => q < 256
    BY SMTT(30)
  <1> HIDE DEF q, r
  <1>3. q % 256 \in Octet /\ (q < 256 => q % 256 = q)
    BY <1>1, SMTT(30) DEF Octet
  <1>4. 256 * q + r = n
    BY <1>1, SMTT(30) DEF Octet
  <1> QED BY <1>1, <1>2, <1>3, <1>4, SMTT(30) DEF q, r

(* What appendLength writes is read back by readLength up to 65535 octets, *)
(* and never above: the two octets it has then hold something smaller.     *)
THEOREM LengthsReadBack == \A n \in Nat : ReadsBack(n) <=> n < 65536
  <1> TAKE n \in Nat
  <1>1. CASE n < 128
    <2>1. LengthOctets(n) = <<n>> /\ n \in 0..127
      BY <1>1, SMTT(30) DEF LengthOctets
    <2>2. ReadsBack(n)
      BY <2>1, ShortForm DEF ReadsBack
    <2> QED BY <1>1, <2>2, SMTT(30)
  <1>2. CASE 128 <= n /\ n <= 255
    <2> DEFINE s == <<129, n>>
    <2>1. s \in Seq(Octet) /\ Len(s) = 2 /\ s[1] = 129 /\ s[2] = n
      BY <1>2, SMTT(30) DEF Octet
    <2>2. LengthOctets(n) = s
      BY <1>2, SMTT(30) DEF LengthOctets
    <2> HIDE DEF s
    <2> QED BY <1>2, <2>1, <2>2, OneOctetForm, SMTT(30) DEF ReadsBack
  <1>3. CASE 255 < n
    <2> DEFINE a == (n \div 256) % 256
               b == n % 256
               s == <<130, a, b>>
    <2>1. a \in Octet /\ b \in Octet /\ (n < 65536 => 256 * a + b = n)
      BY TwoOctets
    <2>2. LengthOctets(n) = s
      BY <1>3, SMTT(30) DEF LengthOctets
    <2> HIDE DEF a, b
    <2>3. s \in Seq(Octet) /\ Len(s) = 3 /\ s[1] = 130 /\ s[2] = a /\ s[3] = b
      BY <2>1, SMTT(30) DEF Octet
    <2> HIDE DEF s
    <2>4. ReadLength(LengthOctets(n)) = 256 * a + b
      BY <2>2, <2>3, TwoOctetForm, SMTT(30)
    <2> QED BY <2>1, <2>4, SMTT(30) DEF ReadsBack, Octet
  <1> QED BY <1>1, <1>2, <1>3, SMTT(30)

(* Whatever a client sends, readLength gives up or returns a length that   *)
(* its callers can take: never negative, never above the packet limit.     *)
THEOREM LengthsBounded ==
    \A s \in Seq(Octet) : ReadLength(s) \in {NoLength} \cup 0..MaxPacketLength
  <1> TAKE s \in Seq(Octet)
  <1>1. s # <<>> => s[1] \in Octet
    BY SMTT(30)
  <1>2. ASSUME s # <<>>, s[1] - 128 \in 1..4, Len(s) > s[1] - 128
        PROVE  LongLength(SubSeq(s, 2, s[1] - 128 + 1)) \in Nat
    <2>1. SubSeq(s, 2, s[1] - 128 + 1) \in Seq(Octet)
      <3> DEFINE m == s[1] - 128
      <3>1. m \in Nat /\ m < Len(s)
        BY <1>2, SMTT(30)
      <3> HIDE DEF m
      <3>2. SubSeq(s, 2, m + 1) \in Seq(Octet)
        BY <3>1, Following
      <3> QED BY <3>2 DEF m
    <2> QED BY <2>1, LongLengthNat
  <1>3. s # <<>> /\ s[1] < 128 => s[1] \in 0..MaxPacketLength
    BY <1>1, OctetIsNat, OctetSum, UpToLimit
  <1>4. CASE ReadLength(s) = NoLength
    BY <1>4
  <1>5. CASE s # <<>> /\ s[1] < 128
    BY <1>3, <1>5, SMTT(30) DEF ReadLength
  <1>6. CASE /\ s # <<>> /\ ~(s[1] < 128) /\ s[1] - 128 \in 1..4 /\ Len(s) > s[1] - 128
             /\ LongLength(SubSeq(s, 2, s[1] - 128 + 1)) <= MaxPacketLength
    <2>1. ReadLength(s) = LongLength(SubSeq(s, 2, s[1] - 128 + 1))
      BY <1>6, SMTT(30) DEF ReadLength
    <2> QED BY <2>1, <1>2, <1>6, UpToLimit, ZenonT(60)
  <1> QED BY <1>4, <1>5, <1>6, SMTT(30) DEF ReadLength

-----------------------------------------------------------------------------
(* Induction over numbers, and the powers of 256.                           *)
LEMMA NumberByNumber ==
    ASSUME NEW T, 0 \in T, \A k \in Nat : k \in T => k + 1 \in T
    PROVE  \A k \in Nat : k \in T
  <1> DEFINE D == {k \in Nat : k \notin T}
  <1>1. SUFFICES ASSUME D # {} PROVE FALSE
    BY <1>1
  <1>2. PICK n \in D : \A m \in D : n <= m
    <2>1. D \in SUBSET Nat
      OBVIOUS
    <2> HIDE DEF D
    <2> QED BY <1>1, <2>1, LeastNumber
  <1>3. n \in Nat /\ n # 0 /\ n \notin T
    BY <1>2
  <1>4. n - 1 \in Nat /\ (n - 1) + 1 = n /\ ~(n <= n - 1)
    BY <1>3
  <1>5. n - 1 \in T
    BY <1>2, <1>4
  <1> QED BY <1>3, <1>4, <1>5

LEMMA PowerFacts ==
    /\ Power[0] = 1
    /\ \A k \in Nat : Power[k] \in Nat \ {0} /\ Power[k + 1] = 256 * Power[k]
  <1> DEFINE V == Nat \ {0}
             Step == [p \in Nat \X [Nat -> V] |-> IF p[1] = 0 THEN 1 ELSE 256 * p[2][p[1] - 1]]
             Table(f) == [k \in Nat |-> IF k = 0 THEN 1 ELSE 256 * f[k - 1]]
             depth == [k \in Nat |-> k]
  <1>1. ASSUME NEW k \in Nat, NEW f \in [Nat -> V]
        PROVE  Step[<<k, f>>] \in V /\ Step[<<k, f>>] = IF k = 0 THEN 1 ELSE 256 * f[k - 1]
    <2>1. Step[<<k, f>>] = IF k = 0 THEN 1 ELSE 256 * f[k - 1]
      OBVIOUS
    <2>2. k # 0 => k - 1 \in Nat
      OBVIOUS
    <2> QED BY <2>1, <2>2
  <1>2. Step \in [Nat \X [Nat -> V] -> V]
    <2>1. \A p \in Nat \X [Nat -> V] :
             (IF p[1] = 0 THEN 1 ELSE 256 * p[2][p[1] - 1]) \in V
      <3> SUFFICES ASSUME NEW k \in Nat, NEW f \in [Nat -> V]
                   PROVE  (IF k = 0 THEN 1 ELSE 256 * f[k - 1]) \in V
        OBVIOUS
      <3>1. k # 0 => k - 1 \in Nat
        OBVIOUS
      <3> QED BY <3>1
    <2> QED BY <2>1
  <1>3. \A k \in Nat : \A f, g \in [Nat -> V] :
           (\A j \in Nat : depth[j] < depth[k] => f[j] = g[j]) => Step[<<k, f>>] = Step[<<k, g>>]
    <2> SUFFICES ASSUME NEW k \in Nat, NEW f \in [Nat -> V], NEW g \in [Nat -> V],
                        \A j \in Nat : depth[j] < depth[k] => f[j] = g[j]
                 PROVE  Step[<<k, f>>] = Step[<<k, g>>]
      OBVIOUS
    <2>1. k # 0 => k - 1 \in Nat /\ depth[k - 1] < depth[k]
      OBVIOUS
    <2> HIDE DEF Step, depth
    <2>2. k # 0 => f[k - 1] = g[k - 1]
      BY <2>1
    <2> QED BY <1>1, <2>2
  <1>4. ByDepth(Nat, V, depth, Step)
    <2>1. depth \in [Nat -> Nat] /\ V # {}
      OBVIOUS
    <2> HIDE DEF V, depth, Step
    <2> QED BY <1>2, <1>3, <2>1 DEF ByDepth
  <1>5. PICK f \in [Nat -> V] : \A k \in Nat : f[k] = Step[<<k, f>>]
    <2> HIDE DEF V, depth, Step
    <2> QED BY <1>4, FunctionByDepth, SMTT(30)
  <1>6. f = Table(f)
    <2> HIDE DEF Step, V
    <2>1. \A k \in Nat : f[k] = IF k = 0 THEN 1 ELSE 256 * f[k - 1]
      <3> SUFFICES ASSUME NEW k \in Nat PROVE f[k] = IF k = 0 THEN 1 ELSE 256 * f[k - 1]
        OBVIOUS
      <3>1. f[k] = Step[<<k, f>>]
        BY <1>5
      <3>2. Step[<<k, f>>] = IF k = 0 THEN 1 ELSE 256 * f[k - 1]
        BY <1>1, <1>5
      <3> QED BY <3>1, <3>2
    <2>2. f \in [Nat -> V]
      BY <1>5
    <2> QED BY <2>1, <2>2
  <1>7. Power = CHOOSE g : g = Table(g)
    BY DEF Power
  <1>8. Power = Table(Power)
    <2> HIDE DEF Table
    <2> QED BY <1>6, <1>7
  <1>9. \A k \in Nat : Power[k] = IF k = 0 THEN 1 ELSE 256 * Power[k - 1]
    BY <1>8
  <1>10. \A k \in Nat : Power[k + 1] = 256 * Power[k]
    <2> SUFFICES ASSUME NEW k \in Nat PROVE Power[k + 1] = 256 * Power[k]
      OBVIOUS
    <2>1. k + 1 \in Nat /\ k + 1 # 0 /\ (k + 1) - 1 = k
      OBVIOUS
    <2> QED BY <1>9, <2>1
  <1>11. \A k \in Nat : Power[k] \in V
    <2> DEFINE T == {k \in Nat : Power[k] \in V}
    <2>1. 0 \in T
      BY <1>9
    <2>2. \A k \in Nat : k \in T => k + 1 \in T
      BY <1>10
    <2>3. \A k \in Nat : k \in T
      <3> HIDE DEF T
      <3> QED BY <2>1, <2>2, NumberByNumber
    <2> QED BY <2>3
  <1> QED BY <1>9, <1>10, <1>11

-----------------------------------------------------------------------------
(* Folds over octets.                                                      *)
LEMMA MaxFacts ==
    ASSUME NEW n \in Nat, NEW s \in SUBSET (1..n), s # {}
    PROVE  Max(s) \in s /\ \A y \in s : Max(s) >= y
  <1> DEFINE D == {n - x : x \in s}
  <1>1. D \in SUBSET Nat /\ D # {}
    <2>1. \A x \in s : n - x \in Nat
      OBVIOUS
    <2> QED BY <2>1
  <1>2. PICK d \in D : \A m \in D : d <= m
    <2> HIDE DEF D
    <2> QED BY <1>1, LeastNumber
  <1>3. PICK x \in s : d = n - x
    BY <1>2
  <1>4. \A y \in s : x >= y
    <2> SUFFICES ASSUME NEW y \in s PROVE x >= y
      OBVIOUS
    <2>1. n - y \in D
      OBVIOUS
    <2>2. x \in Int /\ y \in Int
      OBVIOUS
    <2>3. n - x <= n - y
      BY <1>2, <1>3, <2>1
    <2> QED BY <2>2, <2>3
  <1> QED BY <1>4 DEF Max

LEMMA MaxOfPrefix ==
    ASSUME NEW k \in Nat
    PROVE  Max(1..(k + 1)) = k + 1 /\ (1..(k + 1)) \ {k + 1} = 1..k /\ 1..(k + 1) # {}
  <1>1. 1..(k + 1) # {} /\ k + 1 \in 1..(k + 1) /\ k + 1 \in Nat
    OBVIOUS
  <1>2. Max(1..(k + 1)) \in 1..(k + 1) /\ \A y \in 1..(k + 1) : Max(1..(k + 1)) >= y
    BY <1>1, MaxFacts
  <1>3. Max(1..(k + 1)) = k + 1
    BY <1>1, <1>2
  <1>4. (1..(k + 1)) \ {k + 1} = 1..k
    OBVIOUS
  <1> QED BY <1>1, <1>3, <1>4

FoldTable(it, base, t, G) ==
    \A s \in SUBSET (1..Len(t)) :
        it[s] = IF s = {} THEN base ELSE G[<<it[s \ {Max(s)}], t[Max(s)]>>]

LEMMA FoldExists ==
    ASSUME NEW t \in Seq(Octet), NEW base \in Int, NEW G \in [Int \X Octet -> Int]
    PROVE  \E it \in [SUBSET (1..Len(t)) -> Int] : FoldTable(it, base, t, G)
  <1> DEFINE S == SUBSET (1..Len(t))
             V == Int
             depth == [s \in S |-> Cardinality(s)]
             Value(s, f) == IF s = {} THEN base ELSE G[<<f[s \ {Max(s)}], t[Max(s)]>>]
             Step == [p \in S \X [S -> V] |-> Value(p[1], p[2])]
  <1>1. \A s \in S : s # {} => /\ Max(s) \in 1..Len(t) /\ Max(s) \in s
                              /\ s \ {Max(s)} \in S /\ t[Max(s)] \in Octet
    <2> SUFFICES ASSUME NEW s \in S, s # {}
                 PROVE  /\ Max(s) \in 1..Len(t) /\ Max(s) \in s
                        /\ s \ {Max(s)} \in S /\ t[Max(s)] \in Octet
      OBVIOUS
    <2>1. Max(s) \in s
      <3>1. Len(t) \in Nat
        OBVIOUS
      <3> QED BY <3>1, MaxFacts
    <2>2. Max(s) \in 1..Len(t)
      BY <2>1
    <2> QED BY <2>1, <2>2, OctetAt
  <1>2. \A s \in S : IsFiniteSet(s) /\ Cardinality(s) \in Nat
    <2>1. IsFiniteSet(1..Len(t))
      BY FS_Interval
    <2> QED BY <2>1, FS_Subset, FS_CardinalityType
  <1>3. \A s \in S : s # {} => Cardinality(s \ {Max(s)}) < Cardinality(s)
    <2> SUFFICES ASSUME NEW s \in S, s # {} PROVE Cardinality(s \ {Max(s)}) < Cardinality(s)
      OBVIOUS
    <2>1. Cardinality(s \ {Max(s)}) = Cardinality(s) - 1
      BY <1>1, <1>2, FS_RemoveElement
    <2> QED BY <1>2, <2>1
  <1>4. ASSUME NEW s \in S, NEW f \in [S -> V] PROVE Value(s, f) \in V
    <2>1. CASE s = {}
      BY <2>1
    <2>2. CASE s # {}
      <3>1. f[s \ {Max(s)}] \in Int /\ t[Max(s)] \in Octet
        BY <1>1, <2>2
      <3> QED BY <2>2, <3>1
    <2> QED BY <2>1, <2>2
  <1>5. Step \in [S \X [S -> V] -> V]
    <2> HIDE DEF S, V, Value
    <2> QED BY <1>4
  <1>6. \A s \in S : \A f \in [S -> V] : Step[<<s, f>>] = Value(s, f)
    <2> HIDE DEF S, V, Value
    <2> QED OBVIOUS
  <1>7. \A s \in S : \A f, g \in [S -> V] :
           (\A r \in S : depth[r] < depth[s] => f[r] = g[r]) => Step[<<s, f>>] = Step[<<s, g>>]
    <2> SUFFICES ASSUME NEW s \in S, NEW f \in [S -> V], NEW g \in [S -> V],
                        \A r \in S : depth[r] < depth[s] => f[r] = g[r]
                 PROVE  Step[<<s, f>>] = Step[<<s, g>>]
      OBVIOUS
    <2>1. s # {} => f[s \ {Max(s)}] = g[s \ {Max(s)}]
      <3> SUFFICES ASSUME s # {} PROVE f[s \ {Max(s)}] = g[s \ {Max(s)}]
        OBVIOUS
      <3>1. s \ {Max(s)} \in S
        BY <1>1
      <3>2. depth[s \ {Max(s)}] < depth[s]
        BY <1>3, <3>1
      <3> HIDE DEF S, V, depth
      <3> QED BY <3>1, <3>2
    <2>2. Value(s, f) = Value(s, g)
      BY <2>1
    <2> HIDE DEF Step, Value
    <2> QED BY <1>6, <2>2
  <1>8. ByDepth(S, V, depth, Step)
    <2>1. depth \in [S -> Nat]
      <3> HIDE DEF S
      <3> QED BY <1>2
    <2>2. V # {}
      OBVIOUS
    <2> HIDE DEF S, V, depth, Step
    <2> QED BY <1>5, <1>7, <2>1, <2>2 DEF ByDepth
  <1>9. PICK it \in [S -> V] : \A s \in S : it[s] = Step[<<s, it>>]
    <2> HIDE DEF S, V, depth, Step
    <2> QED BY <1>8, FunctionByDepth
  <1>10. \A s \in S : it[s] = Value(s, it)
    <2> HIDE DEF S, V, Step, Value
    <2> QED BY <1>6, <1>9
  <1> QED BY <1>10 DEF FoldTable

StepsFrom(it, base, t, G) ==
    /\ it[1..0] = base
    /\ \A k \in Nat : k < Len(t) => it[1..(k + 1)] = G[<<it[1..k], t[k + 1]>>]

LEMMA FoldSteps ==
    ASSUME NEW t \in Seq(Octet), NEW base, NEW G, NEW it, FoldTable(it, base, t, G)
    PROVE  StepsFrom(it, base, t, G)
  <1>1. it[1..0] = base
    <2>1. 1..0 = {}
      OBVIOUS
    <2>2. it[{}] = base
      BY DEF FoldTable
    <2> QED BY <2>1, <2>2
  <1>2. ASSUME NEW k \in Nat, k < Len(t) PROVE it[1..(k + 1)] = G[<<it[1..k], t[k + 1]>>]
    <2> DEFINE s == 1..(k + 1)
    <2>0. Len(t) \in Nat
      OBVIOUS
    <2>1. s \in SUBSET (1..Len(t))
      BY <1>2, <2>0
    <2>2. s # {} /\ Max(s) = k + 1 /\ s \ {k + 1} = 1..k
      BY MaxOfPrefix
    <2> HIDE DEF s
    <2>3. it[s] = G[<<it[s \ {Max(s)}], t[Max(s)]>>]
      BY <2>1, <2>2 DEF FoldTable
    <2> QED BY <2>2, <2>3 DEF s
  <1> QED BY <1>1, <1>2 DEF StepsFrom

(* What the fold of a table gives, step by step.                           *)
FoldRuns(run, base, t, G) ==
    /\ run \in [Nat -> Int] /\ run[0] = base
    /\ \A k \in Nat : k < Len(t) => run[k + 1] = G[<<run[k], t[k + 1]>>]

Unfolded(jt, base, t, G) ==
    /\ jt[{}] = base
    /\ \A s \in SUBSET (1..Len(t)) :
          (s # {} /\ jt[s \ {Max(s)}] \in Int) => jt[s] = G[<<jt[s \ {Max(s)}], t[Max(s)]>>]

LEMMA FoldIsRun ==
    ASSUME NEW t \in Seq(Octet), NEW base \in Int, NEW G \in [Int \X Octet -> Int],
           NEW jt, Unfolded(jt, base, t, G)
    PROVE  \E run : FoldRuns(run, base, t, G) /\ run[Len(t)] = jt[1..Len(t)]
  <1>0. Len(t) \in Nat
    OBVIOUS
  <1>1. PICK it \in [SUBSET (1..Len(t)) -> Int] : FoldTable(it, base, t, G)
    BY FoldExists
  <1> DEFINE run == [k \in Nat |-> IF k <= Len(t) THEN it[1..k] ELSE 0]
  <1>2. \A k \in Nat : k <= Len(t) => 1..k \in SUBSET (1..Len(t)) /\ run[k] = it[1..k]
    BY <1>0
  <1>3. run \in [Nat -> Int]
    <2>1. \A k \in Nat : (IF k <= Len(t) THEN it[1..k] ELSE 0) \in Int
      BY <1>0, <1>1
    <2> QED BY <2>1
  <1> HIDE DEF run
  <1>4. run[0] = base
    <2>1. it[1..0] = base
      BY <1>1, FoldSteps DEF StepsFrom
    <2>2. 0 \in Nat /\ 0 <= Len(t)
      BY <1>0
    <2> QED BY <1>2, <2>1, <2>2
  <1>5. ASSUME NEW k \in Nat, k < Len(t) PROVE run[k + 1] = G[<<run[k], t[k + 1]>>]
    <2>1. k + 1 \in Nat /\ k + 1 <= Len(t) /\ k <= Len(t)
      BY <1>0, <1>5
    <2>2. \A j \in Nat : j < Len(t) => it[1..(j + 1)] = G[<<it[1..j], t[j + 1]>>]
      <3>1. StepsFrom(it, base, t, G)
        BY <1>1, FoldSteps
      <3> QED BY <3>1 DEF StepsFrom
    <2>3. run[k + 1] = it[1..(k + 1)] /\ run[k] = it[1..k]
      BY <1>2, <2>1
    <2> QED BY <1>5, <2>2, <2>3
  <1>6. jt[1..0] = base
    <2>1. 1..0 = {}
      OBVIOUS
    <2> QED BY <2>1 DEF Unfolded
  <1>7. ASSUME NEW k \in Nat, k < Len(t), jt[1..k] \in Int
        PROVE  jt[1..(k + 1)] = G[<<jt[1..k], t[k + 1]>>]
    <2> DEFINE s == 1..(k + 1)
    <2>1. s \in SUBSET (1..Len(t))
      BY <1>0, <1>7
    <2>2. s # {} /\ Max(s) = k + 1 /\ s \ {k + 1} = 1..k
      BY MaxOfPrefix
    <2> HIDE DEF s
    <2>3. jt[s] = G[<<jt[s \ {Max(s)}], t[Max(s)]>>]
      BY <1>7, <2>1, <2>2 DEF Unfolded
    <2> QED BY <2>2, <2>3 DEF s
  <1> DEFINE T == {k \in Nat : k <= Len(t) => jt[1..k] = run[k]}
  <1>8. 0 \in T
    BY <1>4, <1>6
  <1>9. ASSUME NEW k \in Nat, k \in T PROVE k + 1 \in T
    <2>1. CASE k < Len(t)
      <3>1. jt[1..k] = run[k] /\ run[k] \in Int
        BY <1>0, <1>3, <1>9, <2>1
      <3>2. jt[1..k] \in Int
        BY <3>1
      <3>3. jt[1..(k + 1)] = G[<<jt[1..k], t[k + 1]>>] /\ run[k + 1] = G[<<run[k], t[k + 1]>>]
        BY <1>5, <1>7, <2>1, <3>2
      <3>4. jt[1..(k + 1)] = run[k + 1]
        BY <3>1, <3>3
      <3> QED BY <3>4
    <2>2. CASE ~(k < Len(t))
      BY <1>0, <2>2
    <2> QED BY <2>1, <2>2
  <1>10. \A k \in Nat : k \in T
    <2> HIDE DEF T
    <2> QED BY <1>8, <1>9, NumberByNumber
  <1>11. jt[1..Len(t)] = run[Len(t)]
    BY <1>0, <1>10
  <1> QED BY <1>3, <1>4, <1>5, <1>11 DEF FoldRuns

LEMMA RunsAgree ==
    ASSUME NEW t \in Seq(Octet), NEW base, NEW G, NEW f, NEW g,
           FoldRuns(f, base, t, G), FoldRuns(g, base, t, G)
    PROVE  f[Len(t)] = g[Len(t)]
  <1>0. Len(t) \in Nat
    OBVIOUS
  <1> DEFINE T == {k \in Nat : k <= Len(t) => f[k] = g[k]}
  <1>1. 0 \in T
    BY DEF FoldRuns
  <1>2. ASSUME NEW k \in Nat, k \in T PROVE k + 1 \in T
    <2>1. k + 1 <= Len(t) => k < Len(t) /\ k <= Len(t)
      BY <1>0
    <2>2. ASSUME k + 1 <= Len(t) PROVE f[k + 1] = g[k + 1]
      <3>1. f[k + 1] = G[<<f[k], t[k + 1]>>] /\ g[k + 1] = G[<<g[k], t[k + 1]>>]
        BY <2>1, <2>2 DEF FoldRuns
      <3>2. f[k] = g[k]
        BY <1>2, <2>1, <2>2
      <3> QED BY <3>1, <3>2
    <2> QED BY <2>2
  <1>3. \A k \in Nat : k \in T
    <2> HIDE DEF T
    <2> QED BY <1>1, <1>2, NumberByNumber
  <1> QED BY <1>0, <1>3

TimesOctets == [p \in Int \X Octet |-> 256 * p[1] + p[2]]

LEMMA TimesFacts ==
    /\ TimesOctets \in [Int \X Octet -> Int]
    /\ \A a \in Int, o \in Octet : TimesOctets[<<a, o>>] = 256 * a + o
  <1>1. \A p \in Int \X Octet : 256 * p[1] + p[2] \in Int
    BY DEF Octet
  <1> QED BY <1>1 DEF TimesOctets

LEMMA OctetAtMax ==
    ASSUME NEW t \in Seq(Octet), NEW s \in SUBSET (1..Len(t)), s # {}
    PROVE  /\ Max(s) \in s /\ s \ {Max(s)} \in SUBSET (1..Len(t))
           /\ t[Max(s)] \in Octet
  <1>1. Max(s) \in s
    <2>1. Len(t) \in Nat
      OBVIOUS
    <2> QED BY <2>1, MaxFacts
  <1>2. Max(s) \in 1..Len(t)
    BY <1>1
  <1> QED BY <1>1, <1>2, OctetAt

LEMMA ValueFold ==
    ASSUME NEW t \in Seq(Octet), NEW base \in Int
    PROVE  \E run : /\ FoldRuns(run, base, t, TimesOctets)
                    /\ run[Len(t)] = FoldLeft(LAMBDA v, o : 256 * v + o, base, t)
  <1> DEFINE Table(jt) == [s \in SUBSET (1..Len(t)) |->
                             IF s = {} THEN base ELSE 256 * jt[s \ {Max(s)}] + t[Max(s)]]
  <1>1. PICK it \in [SUBSET (1..Len(t)) -> Int] : FoldTable(it, base, t, TimesOctets)
    BY FoldExists, TimesFacts
  <1>2. it = Table(it)
    <2>1. ASSUME NEW s \in SUBSET (1..Len(t))
          PROVE  it[s] = IF s = {} THEN base ELSE 256 * it[s \ {Max(s)}] + t[Max(s)]
      <3>1. CASE s = {}
        BY <1>1, <3>1 DEF FoldTable
      <3>2. CASE s # {}
        <4>1. it[s] = TimesOctets[<<it[s \ {Max(s)}], t[Max(s)]>>]
          BY <1>1, <3>2 DEF FoldTable
        <4>2. it[s \ {Max(s)}] \in Int /\ t[Max(s)] \in Octet
          BY <1>1, <3>2, OctetAtMax
        <4>3. TimesOctets[<<it[s \ {Max(s)}], t[Max(s)]>>]
                 = 256 * it[s \ {Max(s)}] + t[Max(s)]
          BY <4>2, TimesFacts
        <4> QED BY <3>2, <4>1, <4>3
      <3> QED BY <3>1, <3>2
    <2> QED BY <2>1
  <1> DEFINE jt == CHOOSE j : j = Table(j)
  <1>3. jt = Table(jt)
    <2> HIDE DEF Table
    <2> QED BY <1>2
  <1>4. FoldLeft(LAMBDA v, o : 256 * v + o, base, t) = jt[1..Len(t)]
    <2>1. DOMAIN t = 1..Len(t)
      OBVIOUS
    <2> QED BY <2>1 DEF FoldLeft, MapThenFoldSet
  <1> HIDE DEF jt
  <1>5. Unfolded(jt, base, t, TimesOctets)
    <2>1. jt[{}] = base
      BY <1>3
    <2>2. ASSUME NEW s \in SUBSET (1..Len(t)), s # {}, jt[s \ {Max(s)}] \in Int
          PROVE  jt[s] = TimesOctets[<<jt[s \ {Max(s)}], t[Max(s)]>>]
      <3>1. jt[s] = 256 * jt[s \ {Max(s)}] + t[Max(s)]
        BY <1>3, <2>2
      <3>2. t[Max(s)] \in Octet
        BY <2>2, OctetAtMax
      <3>3. TimesOctets[<<jt[s \ {Max(s)}], t[Max(s)]>>]
               = 256 * jt[s \ {Max(s)}] + t[Max(s)]
        BY <2>2, <3>2, TimesFacts
      <3> QED BY <3>1, <3>3
    <2> QED BY <2>1, <2>2 DEF Unfolded
  <1> HIDE DEF Table
  <1>6. PICK run : FoldRuns(run, base, t, TimesOctets) /\ run[Len(t)] = jt[1..Len(t)]
    BY <1>5, FoldIsRun, TimesFacts
  <1>7. run[Len(t)] = FoldLeft(LAMBDA v, o : 256 * v + o, base, t)
    BY <1>4, <1>6
  <1> QED BY <1>6, <1>7

-----------------------------------------------------------------------------
(* packet.int: the value of the octets, and of what a Go int keeps of them. *)
LEMMA WordFacts ==
    /\ Word \in Nat \ {0} /\ Word \div 2 \in Nat
    /\ Word \div 2 >= 128 /\ 2 * (Word \div 2) = Word
  <1> DEFINE P == Power[WordOctets - 1]
  <1>1. WordOctets - 1 \in Nat /\ (WordOctets - 1) + 1 = WordOctets
    BY WordAssumption
  <1>2. P \in Nat \ {0} /\ Word = 256 * P
    BY <1>1, PowerFacts DEF Word
  <1> HIDE DEF P
  <1> QED BY <1>2

LEMMA WrapType == ASSUME NEW n \in Int PROVE Wrap(n) \in Int
  <1> DEFINE w == Word
             h == Word \div 2
  <1>1. w \in Nat \ {0} /\ h \in Nat
    BY WordFacts
  <1>2. Wrap(n) = ((n + h) % w) - h
    BY DEF Wrap
  <1> HIDE DEF w, h
  <1> QED BY <1>1, <1>2

LEMMA WrapSame == ASSUME NEW n \in Nat, n < Word \div 2 PROVE Wrap(n) = n
  <1> DEFINE w == Word
             h == Word \div 2
  <1>1. w \in Nat \ {0} /\ h \in Nat /\ w = 2 * h /\ n < h
    BY WordFacts
  <1>2. Wrap(n) = ((n + h) % w) - h
    BY DEF Wrap
  <1> HIDE DEF w, h
  <1>3. n + h \in Nat /\ n + h < w
    BY <1>1
  <1>4. (n + h) % w = n + h
    BY <1>1, <1>3
  <1> QED BY <1>1, <1>2, <1>4

WrapOctets == [p \in Int \X Octet |-> Wrap(256 * p[1] + p[2])]

LEMMA WrapFacts ==
    /\ WrapOctets \in [Int \X Octet -> Int]
    /\ \A a \in Int, o \in Octet : WrapOctets[<<a, o>>] = Wrap(256 * a + o)
  <1>1. \A p \in Int \X Octet : 256 * p[1] + p[2] \in Int
    BY DEF Octet
  <1>2. \A p \in Int \X Octet : Wrap(256 * p[1] + p[2]) \in Int
    BY <1>1, WrapType
  <1> QED BY <1>2 DEF WrapOctets

LEMMA WrapFold ==
    ASSUME NEW t \in Seq(Octet), NEW base \in Int
    PROVE  \E run : /\ FoldRuns(run, base, t, WrapOctets)
                    /\ run[Len(t)] = FoldLeft(LAMBDA v, o : Wrap(256 * v + o), base, t)
  <1> DEFINE Table(jt) == [s \in SUBSET (1..Len(t)) |->
                       IF s = {} THEN base ELSE Wrap(256 * jt[s \ {Max(s)}] + t[Max(s)])]
  <1>1. PICK it \in [SUBSET (1..Len(t)) -> Int] : FoldTable(it, base, t, WrapOctets)
    BY FoldExists, WrapFacts
  <1>2. it = Table(it)
    <2>1. ASSUME NEW s \in SUBSET (1..Len(t))
          PROVE  it[s] = IF s = {} THEN base ELSE Wrap(256 * it[s \ {Max(s)}] + t[Max(s)])
      <3>1. CASE s = {}
        BY <1>1, <3>1 DEF FoldTable
      <3>2. CASE s # {}
        <4>1. it[s] = WrapOctets[<<it[s \ {Max(s)}], t[Max(s)]>>]
          BY <1>1, <3>2 DEF FoldTable
        <4>2. it[s \ {Max(s)}] \in Int /\ t[Max(s)] \in Octet
          BY <1>1, <3>2, OctetAtMax
        <4>3. WrapOctets[<<it[s \ {Max(s)}], t[Max(s)]>>]
                 = Wrap(256 * it[s \ {Max(s)}] + t[Max(s)])
          BY <4>2, WrapFacts
        <4> QED BY <3>2, <4>1, <4>3
      <3> QED BY <3>1, <3>2
    <2> QED BY <2>1
  <1> DEFINE jt == CHOOSE j : j = Table(j)
  <1>3. jt = Table(jt)
    <2> HIDE DEF Table
    <2> QED BY <1>2
  <1>4. FoldLeft(LAMBDA v, o : Wrap(256 * v + o), base, t) = jt[1..Len(t)]
    <2>1. DOMAIN t = 1..Len(t)
      OBVIOUS
    <2> QED BY <2>1 DEF FoldLeft, MapThenFoldSet
  <1> HIDE DEF jt
  <1>5. Unfolded(jt, base, t, WrapOctets)
    <2>1. jt[{}] = base
      BY <1>3
    <2>2. ASSUME NEW s \in SUBSET (1..Len(t)), s # {}, jt[s \ {Max(s)}] \in Int
          PROVE  jt[s] = WrapOctets[<<jt[s \ {Max(s)}], t[Max(s)]>>]
      <3>1. jt[s] = Wrap(256 * jt[s \ {Max(s)}] + t[Max(s)])
        BY <1>3, <2>2
      <3>2. t[Max(s)] \in Octet
        BY <2>2, OctetAtMax
      <3>3. WrapOctets[<<jt[s \ {Max(s)}], t[Max(s)]>>]
               = Wrap(256 * jt[s \ {Max(s)}] + t[Max(s)])
        BY <2>2, <3>2, WrapFacts
      <3> QED BY <3>1, <3>3
    <2> QED BY <2>1, <2>2 DEF Unfolded
  <1> HIDE DEF Table
  <1>6. PICK run : FoldRuns(run, base, t, WrapOctets) /\ run[Len(t)] = jt[1..Len(t)]
    BY <1>5, FoldIsRun, WrapFacts
  <1>7. run[Len(t)] = FoldLeft(LAMBDA v, o : Wrap(256 * v + o), base, t)
    BY <1>4, <1>6
  <1> QED BY <1>6, <1>7

LEMMA SignedFacts ==
    ASSUME NEW o \in Octet
    PROVE  /\ Signed(o) \in Int
           /\ o < 128 => Signed(o) = o
  BY DEF Signed, Octet

LEMMA IdOctets ==
    ASSUME NEW s \in Seq(Octet), s # <<>>
    PROVE  s[1] \in Octet /\ Signed(s[1]) \in Int /\ Tail(s) \in Seq(Octet)
  <1>1. 1 \in 1..Len(s)
    BY EmptySeq
  <1>2. s[1] \in Octet
    BY <1>1, OctetAt
  <1>3. Signed(s[1]) \in Int
    BY <1>2, SignedFacts
  <1>4. Tail(s) \in Seq(Octet)
    OBVIOUS
  <1> QED BY <1>2, <1>3, <1>4

LEMMA PrefixInRange ==
    ASSUME NEW x \in Int, NEW o \in Octet, NEW h \in Nat, 256 * x + o \in 0..(h - 1)
    PROVE  x \in 0..(h - 1)
  BY DEF Octet

(* A value that a Go int holds is read whole.                              *)
LEMMA InRange ==
    ASSUME NEW s \in Seq(Octet), s # <<>>, ValueOf(s) \in 0..(Word \div 2 - 1)
    PROVE  IntOf(s) = ValueOf(s)
  <1> DEFINE t == Tail(s)
             base == Signed(s[1])
             h == Word \div 2
             n == Len(t)
  <1>1. t \in Seq(Octet) /\ base \in Int /\ n \in Nat /\ h \in Nat
    BY IdOctets, WordFacts
  <1>2. PICK v : FoldRuns(v, base, t, TimesOctets) /\ v[n] = ValueOf(s)
    <2> HIDE DEF t, base, n
    <2>1. \E run : /\ FoldRuns(run, base, t, TimesOctets)
                   /\ run[Len(t)] = FoldLeft(LAMBDA v, o : 256 * v + o, base, t)
      BY <1>1, ValueFold
    <2> QED BY <2>1 DEF ValueOf, t, base, n
  <1>3. PICK i : FoldRuns(i, base, t, WrapOctets) /\ i[n] = IntOf(s)
    <2> HIDE DEF t, base, n
    <2>1. \E run : /\ FoldRuns(run, base, t, WrapOctets)
                   /\ run[Len(t)] = FoldLeft(LAMBDA w, o : Wrap(256 * w + o), base, t)
      BY <1>1, WrapFold
    <2> QED BY <2>1 DEF IntOf, t, base, n
  <1> HIDE DEF t, base, n
  <1> DEFINE T == {k \in Nat : (k <= n /\ v[k] \in 0..(h - 1)) => i[k] = v[k]}
  <1>4. 0 \in T
    BY <1>2, <1>3 DEF FoldRuns
  <1>5. ASSUME NEW k \in Nat, k \in T PROVE k + 1 \in T
    <2> SUFFICES ASSUME k + 1 <= n, v[k + 1] \in 0..(h - 1) PROVE i[k + 1] = v[k + 1]
      OBVIOUS
    <2>1. k < n /\ k <= n /\ k + 1 \in 1..n
      BY <1>1
    <2>2. t[k + 1] \in Octet
      BY <1>1, <2>1, OctetAt DEF n
    <2>3. v[k] \in Int /\ v[k + 1] = TimesOctets[<<v[k], t[k + 1]>>]
      BY <1>2, <2>1 DEF FoldRuns, n
    <2>4. v[k + 1] = 256 * v[k] + t[k + 1]
      BY <2>2, <2>3, TimesFacts
    <2>5. v[k] \in 0..(h - 1)
      <3>1. 256 * v[k] + t[k + 1] \in 0..(h - 1)
        BY <2>4
      <3> HIDE DEF h
      <3> QED BY <1>1, <2>2, <2>3, <3>1, PrefixInRange
    <2>6. i[k] = v[k]
      BY <1>5, <2>1, <2>5
    <2>7. i[k + 1] = WrapOctets[<<i[k], t[k + 1]>>]
      BY <1>3, <2>1 DEF FoldRuns, n
    <2>8. i[k + 1] = Wrap(v[k + 1])
      BY <2>2, <2>3, <2>4, <2>6, <2>7, WrapFacts
    <2>9. v[k + 1] \in Nat /\ v[k + 1] < Word \div 2
      BY <1>1
    <2> QED BY <2>8, <2>9, WrapSame
  <1>6. \A k \in Nat : k \in T
    <2> HIDE DEF T
    <2> QED BY <1>4, <1>5, NumberByNumber
  <1>7. n <= n /\ v[n] \in 0..(h - 1)
    BY <1>1, <1>2
  <1> QED BY <1>1, <1>2, <1>3, <1>6, <1>7

-----------------------------------------------------------------------------
(* berInteger: the octets of a value that is not negative.                  *)
(* What remains of v when its octets up to the k-th are read.              *)
Read(v) == [k \in Nat |-> IF k <= WordOctets THEN v \div Power[WordOctets - k] ELSE 0]

LEMMA DivDiv ==
    ASSUME NEW a \in Nat, NEW b \in Nat \ {0}
    PROVE  a \div (256 * b) = (a \div b) \div 256
  BY SMTT(60)

LEMMA DivSmall ==
    ASSUME NEW a \in Nat, NEW b \in Nat, a < b
    PROVE  a \div b = 0
  OBVIOUS

LEMMA DivType == ASSUME NEW a \in Nat, NEW b \in Nat \ {0} PROVE a \div b \in Nat
  OBVIOUS

LEMMA WordIsOctets ==
    ASSUME NEW v \in Int
    PROVE  WordOf(v) \in Seq(Octet) /\ Len(WordOf(v)) = WordOctets /\ WordOf(v) # <<>>
  <1> DEFINE n == WordOctets
             w == WordOf(v)
  <1>1. n \in Nat /\ n # 0
    BY WordAssumption
  <1>2. \A i \in 1..n : (v \div Power[n - i]) % 256 \in Octet
    <2> SUFFICES ASSUME NEW i \in 1..n PROVE (v \div Power[n - i]) % 256 \in Octet
      OBVIOUS
    <2> DEFINE p == Power[n - i]
    <2>1. n - i \in Nat
      BY <1>1
    <2>2. p \in Nat \ {0}
      BY <2>1, PowerFacts
    <2> DEFINE x == v \div p
    <2> HIDE DEF p
    <2>3. x \in Int
      BY <2>2
    <2> HIDE DEF x
    <2>4. x % 256 \in Octet
      BY <2>3 DEF Octet
    <2> QED BY <2>4 DEF x, p
  <1>3. w \in [1..n -> Octet]
    BY <1>2 DEF WordOf
  <1> HIDE DEF w, n
  <1>4. w \in Seq(Octet) /\ Len(w) = n
    BY <1>1, <1>3
  <1> QED BY <1>1, <1>4 DEF w, n

LEMMA ReadFacts ==
    ASSUME NEW v \in Nat, v < Word \div 2
    PROVE  /\ Read(v) \in [Nat -> Nat] /\ Read(v)[0] = 0 /\ Read(v)[WordOctets] = v
           /\ WordOf(v) \in Seq(Octet) /\ Len(WordOf(v)) = WordOctets
           /\ \A k \in Nat : k < WordOctets =>
                 Read(v)[k + 1] = 256 * Read(v)[k] + WordOf(v)[k + 1]
  <1> DEFINE q == Read(v)
             w == WordOf(v)
             n == WordOctets
  <1>1. n \in Nat /\ n # 0
    BY WordAssumption
  <1>2. \A k \in Nat : k <= n => n - k \in Nat /\ q[k] = v \div Power[n - k]
    BY <1>1 DEF Read
  <1>3. \A k \in Nat : k <= n => q[k] \in Nat
    <2> SUFFICES ASSUME NEW k \in Nat, k <= n PROVE q[k] \in Nat
      OBVIOUS
    <2>1. n - k \in Nat /\ q[k] = v \div Power[n - k]
      BY <1>2
    <2>2. Power[n - k] \in Nat \ {0}
      BY <2>1, PowerFacts
    <2> QED BY <2>1, <2>2, DivType
  <1>4. q \in [Nat -> Nat]
    <2>1. \A k \in Nat : (IF k <= n THEN v \div Power[n - k] ELSE 0) \in Nat
      BY <1>2, <1>3
    <2> QED BY <2>1 DEF Read
  <1>5. q[0] = 0
    <2>1. 0 \in Nat /\ 0 <= n /\ n - 0 = n
      BY <1>1
    <2>2. q[0] = v \div Word
      BY <1>2, <2>1 DEF Word
    <2>3. v < Word /\ Word \in Nat
      BY WordFacts
    <2> QED BY <2>2, <2>3, DivSmall
  <1>6. q[n] = v
    <2>1. n <= n /\ n - n = 0
      BY <1>1
    <2>2. q[n] = v \div Power[0]
      BY <1>1, <1>2, <2>1
    <2> QED BY <2>2, PowerFacts
  <1>7. \A i \in 1..n : w[i] = q[i] % 256
    <2> SUFFICES ASSUME NEW i \in 1..n PROVE w[i] = q[i] % 256
      OBVIOUS
    <2>1. i \in Nat /\ i <= n
      BY <1>1
    <2>2. w[i] = (v \div Power[n - i]) % 256
      BY DEF WordOf
    <2> QED BY <1>2, <2>1, <2>2
  <1>8. w \in Seq(Octet) /\ Len(w) = n
    BY WordIsOctets
  <1>9. ASSUME NEW k \in Nat, k < n PROVE q[k + 1] = 256 * q[k] + w[k + 1]
    <2>1. k + 1 \in 1..n /\ k + 1 \in Nat /\ k <= n /\ k + 1 <= n
      BY <1>1, <1>9
    <2>2. n - (k + 1) \in Nat /\ n - k = (n - (k + 1)) + 1
      BY <1>1, <1>9
    <2>3. Power[n - k] = 256 * Power[n - (k + 1)] /\ Power[n - (k + 1)] \in Nat \ {0}
      <3>1. Power[(n - (k + 1)) + 1] = 256 * Power[n - (k + 1)] /\ Power[n - (k + 1)] \in Nat \ {0}
        BY <2>2, PowerFacts
      <3> QED BY <2>2, <3>1
    <2>4. q[k] = q[k + 1] \div 256
      <3>1. q[k] = v \div Power[n - k] /\ q[k + 1] = v \div Power[n - (k + 1)]
        BY <1>2, <2>1
      <3> QED BY <2>3, <3>1, DivDiv
    <2>5. w[k + 1] = q[k + 1] % 256 /\ q[k + 1] \in Nat
      BY <1>3, <1>7, <2>1
    <2> HIDE DEF q, w
    <2> QED BY <2>4, <2>5
  <1> QED BY <1>4, <1>5, <1>6, <1>8, <1>9

(* Reading on from the a-th octet of the word.                             *)
LEMMA RestReads ==
    ASSUME NEW v \in Nat, v < Word \div 2, NEW a \in Nat, a <= WordOctets,
           NEW t \in Seq(Octet), Len(t) = WordOctets - a,
           \A k \in 1..Len(t) : t[k] = WordOf(v)[a + k]
    PROVE  FoldLeft(LAMBDA x, o : 256 * x + o, Read(v)[a], t) = v
  <1> DEFINE q == Read(v)
             n == WordOctets
             r == [k \in Nat |-> q[a + k]]
             base == q[a]
             l == Len(t)
  <1>0. n \in Nat /\ l \in Nat /\ l = n - a
    BY WordAssumption
  <1>1. q \in [Nat -> Nat] /\ q[n] = v
    BY ReadFacts
  <1>2. base \in Int
    BY <1>1
  <1>3. r \in [Nat -> Int] /\ r[0] = base
    <2>1. \A k \in Nat : a + k \in Nat /\ a + 0 = a
      OBVIOUS
    <2> HIDE DEF q
    <2> QED BY <1>1, <2>1
  <1>4. ASSUME NEW k \in Nat, k < l PROVE r[k + 1] = TimesOctets[<<r[k], t[k + 1]>>]
    <2>1. /\ k + 1 \in 1..l /\ k + 1 \in Nat
          /\ a + k \in Nat /\ a + k < n /\ (a + k) + 1 = a + (k + 1)
      BY <1>0, <1>4
    <2>2. q[(a + k) + 1] = 256 * q[a + k] + WordOf(v)[(a + k) + 1]
      BY <2>1, ReadFacts
    <2>3. t[k + 1] = WordOf(v)[a + (k + 1)] /\ t[k + 1] \in Octet
      BY <2>1, OctetAt
    <2>4. r[k] = q[a + k] /\ r[k + 1] = q[a + (k + 1)] /\ r[k] \in Int
      <3> HIDE DEF q
      <3>1. r[k] = q[a + k] /\ r[k + 1] = q[a + (k + 1)]
        BY <2>1
      <3> HIDE DEF r
      <3> QED BY <1>3, <3>1
    <2>5. r[k + 1] = 256 * r[k] + t[k + 1]
      <3> HIDE DEF q, r
      <3> QED BY <2>1, <2>2, <2>3, <2>4
    <2> HIDE DEF r
    <2> QED BY <2>3, <2>4, <2>5, TimesFacts
  <1>5. FoldRuns(r, base, t, TimesOctets)
    <2> HIDE DEF r, base
    <2> QED BY <1>3, <1>4 DEF FoldRuns
  <1>6. r[l] = v
    <2>1. a + l = n
      BY <1>0
    <2> HIDE DEF q, l
    <2> QED BY <1>0, <1>1, <2>1
  <1>7. PICK run : /\ FoldRuns(run, base, t, TimesOctets)
                   /\ run[Len(t)] = FoldLeft(LAMBDA x, o : 256 * x + o, base, t)
    <2> HIDE DEF base
    <2> QED BY <1>2, ValueFold
  <1>8. run[Len(t)] = r[Len(t)]
    <2>1. FoldRuns(run, base, t, TimesOctets)
      BY <1>7
    <2> HIDE DEF r, base
    <2> QED BY <1>5, <2>1, RunsAgree
  <1> QED BY <1>6, <1>7, <1>8

(* The first octet that Significant keeps, and what it drops.              *)
FirstKept(s, i) ==
    /\ i \in 1..Len(s) /\ (s[i] # 0 \/ i = Len(s))
    /\ \A j \in 1..(i - 1) : s[j] = 0

LEMMA SignificantIs ==
    ASSUME NEW s \in Seq(Octet), s # <<>>
    PROVE  \E i \in 1..Len(s) : FirstKept(s, i) /\ Significant(s) = SubSeq(s, i, Len(s))
  <1> DEFINE n == Len(s)
             D == {i \in 1..n : s[i] # 0 \/ i = n}
  <1>1. n \in Nat /\ n # 0
    BY EmptySeq
  <1> HIDE DEF n
  <1>2. n \in D /\ D \in SUBSET Nat
    BY <1>1
  <1>3. PICK i \in D : \A m \in D : i <= m
    <2> HIDE DEF D
    <2> QED BY <1>2, LeastNumber
  <1>4. \A j \in 1..(i - 1) : s[j] = 0
    <2> SUFFICES ASSUME NEW j \in 1..(i - 1) PROVE s[j] = 0
      OBVIOUS
    <2>1. i \in 1..n
      BY <1>3
    <2>2. j \in 1..n /\ ~(i <= j)
      BY <1>1, <2>1
    <2> QED BY <1>3, <2>2
  <1>5. \E k \in 1..n : (s[k] # 0 \/ k = n) /\ \A j \in 1..(k - 1) : s[j] = 0
    BY <1>3, <1>4
  <1> DEFINE k == CHOOSE i_1 \in 1..n : /\ s[i_1] # 0 \/ i_1 = n
                                       /\ \A j \in 1..(i_1 - 1) : s[j] = 0
  <1>6. k \in 1..n /\ (s[k] # 0 \/ k = n) /\ \A j \in 1..(k - 1) : s[j] = 0
    BY <1>5
  <1>7. Significant(s) = SubSeq(s, k, n)
    BY DEF Significant, n
  <1> HIDE DEF k
  <1> QED BY <1>6, <1>7 DEF FirstKept, n

LEMMA NothingBefore ==
    ASSUME NEW v \in Nat, v < Word \div 2, NEW i \in 1..WordOctets, FirstKept(WordOf(v), i)
    PROVE  Read(v)[i - 1] = 0
  <1> DEFINE q == Read(v)
             w == WordOf(v)
             n == WordOctets
  <1>0. n \in Nat /\ i \in Nat /\ i - 1 \in Nat /\ i <= n
    BY WordAssumption
  <1>1. q[0] = 0 /\ \A k \in Nat : k < n => q[k + 1] = 256 * q[k] + w[k + 1]
    BY ReadFacts
  <1>2. \A j \in 1..(i - 1) : w[j] = 0
    BY DEF FirstKept
  <1> HIDE DEF q, w, n
  <1> DEFINE T == {k \in Nat : k <= i - 1 => q[k] = 0}
  <1>3. 0 \in T
    BY <1>1
  <1>4. ASSUME NEW k \in Nat, k \in T PROVE k + 1 \in T
    <2> SUFFICES ASSUME k + 1 <= i - 1 PROVE q[k + 1] = 0
      OBVIOUS
    <2>1. k <= i - 1 /\ k < n /\ k + 1 \in 1..(i - 1)
      BY <1>0
    <2>2. q[k] = 0 /\ w[k + 1] = 0 /\ q[k + 1] = 256 * q[k] + w[k + 1]
      BY <1>1, <1>2, <1>4, <2>1
    <2> QED BY <2>2
  <1>5. \A k \in Nat : k \in T
    <2> HIDE DEF T
    <2> QED BY <1>3, <1>4, NumberByNumber
  <1> QED BY <1>0, <1>5 DEF q

LEMMA OctetsReadBack ==
    ASSUME NEW v \in Nat, v < Word \div 2
    PROVE  ValueOf(IntegerOctets(v)) = v
  <1> DEFINE w == WordOf(v)
             q == Read(v)
             n == WordOctets
  <1>1. w \in Seq(Octet) /\ Len(w) = n /\ n \in Nat /\ n # 0
    BY ReadFacts, WordAssumption
  <1>2. w # <<>>
    <2> HIDE DEF w, n
    <2> QED BY <1>1
  <1>3. PICK i \in 1..n : FirstKept(w, i) /\ Significant(w) = SubSeq(w, i, n)
    <2> HIDE DEF w, n
    <2> QED BY <1>1, <1>2, SignificantIs
  <1> DEFINE s == Significant(w)
  <1>4. /\ i \in Nat /\ i - 1 \in Nat /\ i - 1 < n /\ i <= n
        /\ (i - 1) + 1 = i /\ n - (i - 1) \in Nat /\ n - i \in Nat
    BY <1>1
  <1>5. s \in Seq(Octet) /\ Len(s) = n - (i - 1) /\ \A k \in 1..(n - (i - 1)) : s[k] = w[(i - 1) + k]
    <2>1. s = SubSeq(w, i, n)
      BY <1>3
    <2> HIDE DEF s, w, n
    <2>2. s \in Seq(Octet) /\ Len(s) = n - (i - 1)
      BY <1>1, <1>4, <2>1
    <2>3. ASSUME NEW k \in 1..(n - (i - 1)) PROVE s[k] = w[(i - 1) + k]
      BY <1>1, <1>4, <2>1
    <2> QED BY <2>2, <2>3
  <1>6. q[i - 1] = 0
    BY <1>3, NothingBefore
  <1>7. q[i] = w[i] /\ w[i] \in Octet /\ s[1] = w[i]
    <2>1. q[(i - 1) + 1] = 256 * q[i - 1] + w[(i - 1) + 1]
      BY <1>4, ReadFacts
    <2>2. w[i] \in Octet
      BY <1>1, OctetAt
    <2>3. 1 \in 1..(n - (i - 1))
      <3> HIDE DEF n
      <3> QED BY <1>1, <1>4
    <2>4. s[1] = w[(i - 1) + 1]
      BY <1>5, <2>3
    <2> HIDE DEF q, w, s
    <2> QED BY <1>4, <1>6, <2>1, <2>2, <2>4 DEF Octet
  <1>8. IntegerOctets(v) = IF s[1] >= 128 THEN <<0>> \o s ELSE s
    BY DEF IntegerOctets, Padded
  <1>9. CASE s[1] >= 128
    <2> DEFINE p == <<0>> \o s
    <2>1. p[1] = 0 /\ Tail(p) = s
      <3> HIDE DEF s
      <3> QED BY <1>5
    <2>2. Signed(p[1]) = q[i - 1]
      <3>1. 0 \in Octet
        BY DEF Octet
      <3> QED BY <1>6, <2>1, <3>1, SignedFacts
    <2>3. FoldLeft(LAMBDA x, o : 256 * x + o, q[i - 1], s) = v
      <3> DEFINE a == i - 1
      <3>1. a \in Nat /\ a <= n
        <4> HIDE DEF n
        <4> QED BY <1>1, <1>4
      <3>2. s \in Seq(Octet) /\ Len(s) = n - a
        BY <1>5
      <3>3. \A k \in 1..Len(s) : s[k] = w[a + k]
        BY <1>5
      <3> HIDE DEF s, a
      <3>4. FoldLeft(LAMBDA x, o : 256 * x + o, Read(v)[a], s) = v
        BY <3>1, <3>2, <3>3, RestReads
      <3> QED BY <3>4 DEF a
    <2> HIDE DEF p, s, q
    <2>4. ValueOf(p) = v
      BY <2>1, <2>2, <2>3 DEF ValueOf
    <2> QED BY <1>8, <1>9, <2>4 DEF p
  <1>10. CASE ~(s[1] >= 128)
    <2> DEFINE t == Tail(s)
    <2>1. t \in Seq(Octet) /\ Len(t) = n - i
      <3> HIDE DEF s, n
      <3> QED BY <1>1, <1>4, <1>5
    <2>2. \A k \in 1..Len(t) : t[k] = w[i + k]
      <3> SUFFICES ASSUME NEW k \in 1..Len(t) PROVE t[k] = w[i + k]
        OBVIOUS
      <3>1. k + 1 \in 1..(n - (i - 1)) /\ (i - 1) + (k + 1) = i + k
        BY <1>1, <1>4, <2>1
      <3>2. t[k] = s[k + 1]
        <4> HIDE DEF s, n
        <4> QED BY <1>4, <1>5, <2>1
      <3> HIDE DEF s, w, t
      <3> QED BY <1>5, <3>1, <3>2
    <2>3. Signed(s[1]) = q[i]
      <3> HIDE DEF s, w, q
      <3> QED BY <1>7, <1>10, SignedFacts DEF Octet
    <2>4. FoldLeft(LAMBDA x, o : 256 * x + o, q[i], t) = v
      <3> HIDE DEF t
      <3> QED BY <1>4, <2>1, <2>2, RestReads
    <2> HIDE DEF s, q
    <2>5. ValueOf(s) = v
      BY <2>3, <2>4 DEF ValueOf
    <2> QED BY <1>8, <1>10, <2>5
  <1> QED BY <1>9, <1>10

-----------------------------------------------------------------------------
(* searchEntryPacket: sizes are numbers, as entries are finite.             *)
(* Sums over finite sets.                                                  *)
SumTable(S, g, j) ==
    [s \in SUBSET S |-> IF s = {} THEN 0
                        ELSE g[CHOOSE x \in s : TRUE] + j[s \ {CHOOSE x \in s : TRUE}]]

LEMMA SumExists ==
    ASSUME NEW S, IsFiniteSet(S), NEW g \in [S -> Nat]
    PROVE  \E it : it = SumTable(S, g, it)
  <1> DEFINE R == SUBSET S
             V == Nat
             depth == [s \in R |-> Cardinality(s)]
             c(s) == CHOOSE x \in s : TRUE
             Value(s, f) == IF s = {} THEN 0 ELSE g[c(s)] + f[s \ {c(s)}]
             Step == [p \in R \X [R -> V] |-> Value(p[1], p[2])]
  <1>1. \A s \in R : s # {} => c(s) \in s /\ s \ {c(s)} \in R /\ g[c(s)] \in Nat
    OBVIOUS
  <1>2. \A s \in R : IsFiniteSet(s) /\ Cardinality(s) \in Nat
    BY FS_Subset, FS_CardinalityType
  <1> HIDE DEF c
  <1>3. \A s \in R : s # {} => Cardinality(s \ {c(s)}) < Cardinality(s)
    <2> SUFFICES ASSUME NEW s \in R, s # {} PROVE Cardinality(s \ {c(s)}) < Cardinality(s)
      OBVIOUS
    <2>1. Cardinality(s \ {c(s)}) = Cardinality(s) - 1
      BY <1>1, <1>2, FS_RemoveElement
    <2> QED BY <1>2, <2>1
  <1>4. ASSUME NEW s \in R, NEW f \in [R -> V] PROVE Value(s, f) \in V
    <2>1. s # {} => f[s \ {c(s)}] \in Nat /\ g[c(s)] \in Nat
      BY <1>1
    <2> QED BY <2>1
  <1>5. Step \in [R \X [R -> V] -> V]
    <2> HIDE DEF R, V, Value
    <2> QED BY <1>4
  <1>6. \A s \in R : \A f \in [R -> V] : Step[<<s, f>>] = Value(s, f)
    <2> HIDE DEF R, V, Value
    <2> QED OBVIOUS
  <1>7. \A s \in R : \A f, h \in [R -> V] :
           (\A r \in R : depth[r] < depth[s] => f[r] = h[r]) => Step[<<s, f>>] = Step[<<s, h>>]
    <2> SUFFICES ASSUME NEW s \in R, NEW f \in [R -> V], NEW h \in [R -> V],
                        \A r \in R : depth[r] < depth[s] => f[r] = h[r]
                 PROVE  Step[<<s, f>>] = Step[<<s, h>>]
      OBVIOUS
    <2>1. s # {} => f[s \ {c(s)}] = h[s \ {c(s)}]
      <3> SUFFICES ASSUME s # {} PROVE f[s \ {c(s)}] = h[s \ {c(s)}]
        OBVIOUS
      <3>1. s \ {c(s)} \in R
        BY <1>1
      <3>2. depth[s \ {c(s)}] < depth[s]
        BY <1>3, <3>1
      <3> HIDE DEF R, V, depth
      <3> QED BY <3>1, <3>2
    <2>2. Value(s, f) = Value(s, h)
      BY <2>1
    <2> HIDE DEF Step, Value
    <2> QED BY <1>6, <2>2
  <1>8. ByDepth(R, V, depth, Step)
    <2>1. depth \in [R -> Nat]
      <3> HIDE DEF R
      <3> QED BY <1>2
    <2>2. V # {}
      OBVIOUS
    <2> HIDE DEF R, V, depth, Step
    <2> QED BY <1>5, <1>7, <2>1, <2>2 DEF ByDepth
  <1>9. PICK it \in [R -> V] : \A s \in R : it[s] = Step[<<s, it>>]
    <2> HIDE DEF R, V, depth, Step
    <2> QED BY <1>8, FunctionByDepth
  <1>10. \A s \in R : it[s] = Value(s, it)
    <2> HIDE DEF R, V, Step, Value
    <2> QED BY <1>6, <1>9
  <1>11. it = SumTable(S, g, it)
    BY <1>10 DEF SumTable, c
  <1> QED BY <1>11

LEMMA SumIsNat ==
    ASSUME NEW S, IsFiniteSet(S), NEW g \in [S -> Nat], NEW jt, jt = SumTable(S, g, jt)
    PROVE  jt[S] \in Nat
  <1> DEFINE c(s) == CHOOSE x \in s : TRUE
  <1>1. \A s \in SUBSET S : IsFiniteSet(s) /\ Cardinality(s) \in Nat
    BY FS_Subset, FS_CardinalityType
  <1>2. \A s \in SUBSET S : jt[s] = IF s = {} THEN 0 ELSE g[c(s)] + jt[s \ {c(s)}]
    BY DEF SumTable
  <1>3. \A s \in SUBSET S : s # {} => c(s) \in s /\ s \ {c(s)} \in SUBSET S /\ g[c(s)] \in Nat
    OBVIOUS
  <1> HIDE DEF c
  <1> DEFINE T == {k \in Nat : \A s \in SUBSET S : Cardinality(s) = k => jt[s] \in Nat}
  <1>4. 0 \in T
    <2> SUFFICES ASSUME NEW s \in SUBSET S, Cardinality(s) = 0 PROVE jt[s] \in Nat
      OBVIOUS
    <2>1. s = {}
      BY <1>1, FS_EmptySet
    <2>2. jt[s] = 0
      BY <1>2, <2>1
    <2> QED BY <2>2
  <1>5. ASSUME NEW k \in Nat, k \in T PROVE k + 1 \in T
    <2> SUFFICES ASSUME NEW s \in SUBSET S, Cardinality(s) = k + 1 PROVE jt[s] \in Nat
      OBVIOUS
    <2>1. s # {}
      BY FS_EmptySet
    <2>2. c(s) \in s /\ s \ {c(s)} \in SUBSET S /\ g[c(s)] \in Nat
      BY <1>3, <2>1
    <2>3. Cardinality(s \ {c(s)}) = k
      <3>1. Cardinality(s \ {c(s)}) = Cardinality(s) - 1
        BY <1>1, <2>2, FS_RemoveElement
      <3> QED BY <3>1
    <2>4. jt[s \ {c(s)}] \in Nat
      BY <1>5, <2>2, <2>3
    <2>5. jt[s] = g[c(s)] + jt[s \ {c(s)}]
      BY <1>2, <2>1
    <2> QED BY <2>2, <2>4, <2>5
  <1>6. \A k \in Nat : k \in T
    <2> HIDE DEF T
    <2> QED BY <1>4, <1>5, NumberByNumber
  <1> QED BY <1>1, <1>6

(* The sizes.                                                              *)
LEMMA ElementNat == ASSUME NEW n \in Nat PROVE Element(n) \in Nat
  <1>1. Len(LengthOctets(n)) \in Nat
    <2>1. LengthOctets(n) = <<n>> \/ LengthOctets(n) = <<129, n>>
          \/ LengthOctets(n) = <<130, (n \div 256) % 256, n % 256>>
      BY DEF LengthOctets
    <2> QED BY <2>1
  <1> QED BY <1>1 DEF Element

LEMMA PartSizeNat == ASSUME NEW p \in Part PROVE PartSize(p) \in Nat
  <1>1. p.attr \in Words /\ p.value \in Words
    BY DEF Part
  <1> DEFINE a == Octets[p.attr]
             b == Octets[p.value]
  <1>2. a \in Nat /\ b \in Nat
    BY <1>1, AnswersAssumption
  <1>3. PartSize(p) = b \/ PartSize(p) = a + 1 + b
    BY DEF PartSize
  <1> HIDE DEF a, b
  <1> QED BY <1>2, <1>3

LEMMA TextSizeNat == ASSUME NEW t \in Text PROVE TextSize(t) \in Nat
  <1>1. Len(t) \in Nat \ {0} /\ DOMAIN t = 1..Len(t) /\ \A i \in 1..Len(t) : t[i] \in Part
    BY TextIsSeq
  <1> DEFINE S == DOMAIN t
             g == [i \in S |-> PartSize(t[i])]
             Table(j) == [s \in SUBSET S |->
                            IF s = {} THEN 0 ELSE PartSize(t[CHOOSE x \in s : TRUE])
                                                  + j[s \ {CHOOSE x \in s : TRUE}]]
             jt == CHOOSE j : j = Table(j)
  <1>2. IsFiniteSet(S)
    BY <1>1, FS_Interval
  <1>3. g \in [S -> Nat]
    BY <1>1, PartSizeNat
  <1>4. \A j : Table(j) = SumTable(S, g, j)
    <2>1. \A s \in SUBSET S :
             s # {} => g[CHOOSE x \in s : TRUE] = PartSize(t[CHOOSE x \in s : TRUE])
      OBVIOUS
    <2> HIDE DEF g
    <2> QED BY <2>1 DEF SumTable
  <1>5. MapThenSumSet(LAMBDA i : PartSize(t[i]), DOMAIN t) = jt[S]
    BY DEF MapThenSumSet, MapThenFoldSet
  <1> HIDE DEF S, g, Table
  <1>6. \E j : j = Table(j)
    BY <1>2, <1>3, <1>4, SumExists
  <1>7. jt = SumTable(S, g, jt)
    BY <1>4, <1>6
  <1> HIDE DEF jt
  <1>8. jt[S] \in Nat
    BY <1>2, <1>3, <1>7, SumIsNat
  <1> QED BY <1>1, <1>5, <1>8 DEF TextSize

LEMMA ValuesSizeNat ==
    ASSUME NEW e, NEW a, IsFiniteSet(e.attrs[a]), e.attrs[a] \subseteq Text
    PROVE  ValuesSize(e, a) \in Nat
  <1> DEFINE S == e.attrs[a]
             g == [v \in S |-> Element(TextSize(v))]
             Table(j) == [s \in SUBSET S |->
                            IF s = {} THEN 0 ELSE Element(TextSize(CHOOSE x \in s : TRUE))
                                                  + j[s \ {CHOOSE x \in s : TRUE}]]
             jt == CHOOSE j : j = Table(j)
  <1>1. \A v \in S : Element(TextSize(v)) \in Nat
    BY TextSizeNat, ElementNat
  <1>2. IsFiniteSet(S) /\ g \in [S -> Nat]
    BY <1>1
  <1>3. \A j : Table(j) = SumTable(S, g, j)
    <2>1. \A s \in SUBSET S :
             s # {} => g[CHOOSE x \in s : TRUE] = Element(TextSize(CHOOSE x \in s : TRUE))
      OBVIOUS
    <2> HIDE DEF g, S
    <2> QED BY <2>1 DEF SumTable
  <1>4. ValuesSize(e, a) = jt[S]
    BY DEF ValuesSize, MapThenSumSet, MapThenFoldSet
  <1> HIDE DEF S, g, Table
  <1>5. \E j : j = Table(j)
    BY <1>2, <1>3, SumExists
  <1>6. jt = SumTable(S, g, jt)
    BY <1>3, <1>5
  <1> HIDE DEF jt
  <1> QED BY <1>2, <1>4, <1>6, SumIsNat

LEMMA AttributesSizeNat ==
    ASSUME NEW e, NEW S, IsFiniteSet(S), \A a \in S : AttributeSize(e, a) \in Nat
    PROVE  AttributesSize(e, S) \in Nat
  <1> DEFINE g == [a \in S |-> Element(AttributeSize(e, a))]
             Table(j) == [s \in SUBSET S |->
                            IF s = {} THEN 0 ELSE Element(AttributeSize(e, CHOOSE x \in s : TRUE))
                                                  + j[s \ {CHOOSE x \in s : TRUE}]]
             jt == CHOOSE j : j = Table(j)
  <1>1. g \in [S -> Nat]
    BY ElementNat
  <1>2. \A j : Table(j) = SumTable(S, g, j)
    <2>1. \A s \in SUBSET S :
             s # {} => g[CHOOSE x \in s : TRUE] = Element(AttributeSize(e, CHOOSE x \in s : TRUE))
      OBVIOUS
    <2> HIDE DEF g
    <2> QED BY <2>1 DEF SumTable
  <1>3. AttributesSize(e, S) = jt[S]
    BY DEF AttributesSize, MapThenSumSet, MapThenFoldSet
  <1> HIDE DEF g, Table
  <1>4. \E j : j = Table(j)
    BY <1>1, <1>2, SumExists
  <1>5. jt = SumTable(S, g, jt)
    BY <1>2, <1>4
  <1> HIDE DEF jt
  <1> QED BY <1>1, <1>3, <1>5, SumIsNat

(* What an entry must be for its size to be a number.                      *)
Finite(e) ==
    /\ e.dn \in Text /\ IsFiniteSet(DOMAIN e.attrs)
    /\ \A a \in DOMAIN e.attrs : a \in Words /\ IsFiniteSet(e.attrs[a]) /\ e.attrs[a] \subseteq Text

LEMMA SizesNat ==
    ASSUME NEW e, Finite(e), NEW S, S \subseteq DOMAIN e.attrs, NEW id, Len(id) \in Nat
    PROVE  Sizes(e, S, id) \subseteq Nat
  <1>1. TextSize(e.dn) \in Nat
    BY TextSizeNat DEF Finite
  <1>2. \A a \in S : ValuesSize(e, a) \in Nat
    BY ValuesSizeNat DEF Finite
  <1>3. \A a \in S : AttributeSize(e, a) \in Nat
    <2> SUFFICES ASSUME NEW a \in S PROVE AttributeSize(e, a) \in Nat
      OBVIOUS
    <2>1. Octets[a] \in Nat
      BY AnswersAssumption DEF Finite
    <2>2. Element(Octets[a]) \in Nat /\ Element(ValuesSize(e, a)) \in Nat
      BY <1>2, <2>1, ElementNat
    <2> QED BY <2>2 DEF AttributeSize
  <1>4. IsFiniteSet(S)
    BY FS_Subset DEF Finite
  <1>5. AttributesSize(e, S) \in Nat
    BY <1>3, <1>4, AttributesSizeNat
  <1>6. EntrySize(e, S) \in Nat
    <2>1. Element(TextSize(e.dn)) \in Nat /\ Element(AttributesSize(e, S)) \in Nat
      BY <1>1, <1>5, ElementNat
    <2> QED BY <2>1 DEF EntrySize
  <1>7. Element(Len(id)) + Element(EntrySize(e, S)) \in Nat
    <2>1. Element(Len(id)) \in Nat /\ Element(EntrySize(e, S)) \in Nat
      BY <1>6, ElementNat
    <2> QED BY <2>1
  <1>8. \A a \in S : \A v \in e.attrs[a] : TextSize(v) \in Nat
    BY TextSizeNat DEF Finite
  <1>9. ASSUME NEW n \in Sizes(e, S, id) PROVE n \in Nat
    <2> DEFINE A == {TextSize(e.dn), AttributesSize(e, S), EntrySize(e, S),
                     Element(Len(id)) + Element(EntrySize(e, S))}
               B == UNION {{AttributeSize(e, a), ValuesSize(e, a)} : a \in S}
               C == UNION {{TextSize(v) : v \in e.attrs[a]} : a \in S}
    <2>1. A \subseteq Nat
      BY <1>1, <1>5, <1>6, <1>7
    <2>2. B \subseteq Nat
      BY <1>2, <1>3
    <2>3. C \subseteq Nat
      BY <1>8
    <2>4. Sizes(e, S, id) = A \cup B \cup C
      BY DEF Sizes
    <2> HIDE DEF A, B, C
    <2> QED BY <1>9, <2>1, <2>2, <2>3, <2>4
  <1> QED BY <1>9

LEMMA SelectedNames ==
    ASSUME NEW e, NEW asks PROVE SelectedAttributes(e, asks) \subseteq DOMAIN e.attrs
  BY DEF SelectedAttributes, Named

LEMMA SizesReadBack ==
    ASSUME NEW e, Finite(e), NEW asks, NEW id, Len(id) \in Nat
    PROVE  LET sizes == Sizes(e, SelectedAttributes(e, asks), id)
           IN  (\A n \in sizes : ReadsBack(n)) <=> (\A n \in sizes : n < 65536)
  <1>1. Sizes(e, SelectedAttributes(e, asks), id) \subseteq Nat
    BY SelectedNames, SizesNat
  <1> QED BY <1>1, LengthsReadBack

-----------------------------------------------------------------------------
(* Every entry that is answered has finitely many values, all texts.       *)
LEMMA OneIsText == ASSUME NEW w \in Words PROVE One(w) \subseteq Text /\ IsFiniteSet(One(w))
  <1>1. Plain(w) \in Part
    BY PlainFacts
  <1>2. <<Plain(w)>> \in Text
    BY <1>1 DEF Text
  <1>3. IsFiniteSet({<<Plain(w)>>})
    BY FS_Singleton
  <1> QED BY <1>2, <1>3 DEF One

LEMMA TwoIsText ==
    ASSUME NEW v \in Words, NEW w \in Words
    PROVE  One(v) \cup One(w) \subseteq Text /\ IsFiniteSet(One(v) \cup One(w))
  BY OneIsText, FS_Union

LEMMA FiniteImage ==
    ASSUME NEW S, IsFiniteSet(S), NEW f PROVE IsFiniteSet({f[x] : x \in S})
  <1> DEFINE T == {f[x] : x \in S}
             g == [x \in S |-> f[x]]
  <1>1. g \in Surjection(S, T)
    BY DEF Surjection
  <1> HIDE DEF T, g
  <1>2. IsFiniteSet(T)
    BY <1>1, FS_Surjection
  <1> QED BY <1>2 DEF T

LEMMA FiniteSix ==
    ASSUME NEW a, NEW b, NEW c, NEW d, NEW e, NEW f
    PROVE  IsFiniteSet({a, b, c, d, e, f})
  <1>1. IsFiniteSet({a} \cup {b} \cup {c} \cup {d} \cup {e} \cup {f})
    BY FS_Singleton, FS_Union
  <1>2. {a} \cup {b} \cup {c} \cup {d} \cup {e} \cup {f} = {a, b, c, d, e, f}
    OBVIOUS
  <1> QED BY <1>1, <1>2

(* The words of the entries.                                               *)
LEMMA EntryWord == ASSUME NEW w \in EntryWords \cup OwnWords PROVE w \in Words
  BY EntriesAssumption, NamesAssumption

LEMMA RootIsFinite == ASSUME NEW base \in Text PROVE Finite(RootDSE(base))
  <1> DEFINE f == RootDSE(base).attrs
             S == {"namingcontexts", "supportedldapversion", "vendorname", "objectclass"}
  <1>1. DOMAIN f = S /\ RootDSE(base).dn = Empty
    BY DEF RootDSE
  <1>2. /\ f["namingcontexts"] = {base} /\ f["supportedldapversion"] = One("3")
        /\ f["vendorname"] = One("NanoLDAP") /\ f["objectclass"] = One("top")
    BY DEF RootDSE
  <1>3. "3" \in Words /\ "NanoLDAP" \in Words /\ "top" \in Words /\ S \subseteq Words
    BY EntryWord DEF EntryWords
  <1>4. IsFiniteSet(S)
    <2>1. S = {"namingcontexts", "supportedldapversion", "vendorname", "objectclass",
               "objectclass", "objectclass"}
      OBVIOUS
    <2> HIDE DEF S
    <2> QED BY <2>1, FiniteSix
  <1>5. IsFiniteSet({base}) /\ {base} \subseteq Text
    BY FS_Singleton
  <1>6. \A a \in S : IsFiniteSet(f[a]) /\ f[a] \subseteq Text
    <2> HIDE DEF f
    <2> QED BY <1>2, <1>3, <1>5, OneIsText
  <1>7. Empty \in Text
    BY EmptyShape
  <1> HIDE DEF S
  <1> QED BY <1>1, <1>3, <1>4, <1>6, <1>7 DEF Finite

LEMMA BaseIsFinite == ASSUME NEW base \in Text PROVE Finite(BaseEntry(base))
  <1> DEFINE f == BaseEntry(base).attrs
             S == {"objectclass", "dc"}
             v == [i \in DOMAIN base |-> <<Plain(base[i].value)>>]
  <1>1. DOMAIN f = S /\ BaseEntry(base).dn = base
    BY DEF BaseEntry, Entry
  <1>2. f["objectclass"] = One("top") \cup One("domain") /\ f["dc"] = {v[i] : i \in DOMAIN base}
    BY DEF BaseEntry, Entry
  <1>3. "top" \in Words /\ "domain" \in Words /\ S \subseteq Words
    BY EntryWord DEF EntryWords
  <1>4. IsFiniteSet(S)
    <2>1. S = {"objectclass", "dc", "dc", "dc", "dc", "dc"}
      OBVIOUS
    <2> HIDE DEF S
    <2> QED BY <2>1, FiniteSix
  <1>5. DOMAIN base = 1..Len(base) /\ Len(base) \in Nat /\ \A i \in DOMAIN base : base[i] \in Part
    BY TextIsSeq
  <1>6. \A i \in DOMAIN base : v[i] \in Text
    <2> SUFFICES ASSUME NEW i \in DOMAIN base PROVE v[i] \in Text
      OBVIOUS
    <2>1. base[i].value \in Words
      BY <1>5 DEF Part
    <2>2. <<Plain(base[i].value)>> \in One(base[i].value)
      BY DEF One
    <2>3. <<Plain(base[i].value)>> \in Text
      BY <2>1, <2>2, OneIsText
    <2> QED BY <2>3
  <1>7. IsFiniteSet(f["dc"]) /\ f["dc"] \subseteq Text
    <2>1. IsFiniteSet(DOMAIN base)
      BY <1>5, FS_Interval
    <2> HIDE DEF f, v
    <2> QED BY <1>2, <1>6, <2>1, FiniteImage
  <1>8. IsFiniteSet(f["objectclass"]) /\ f["objectclass"] \subseteq Text
    <2> HIDE DEF f
    <2> QED BY <1>2, <1>3, TwoIsText
  <1>9. \A a \in S : IsFiniteSet(f[a]) /\ f[a] \subseteq Text
    <2> HIDE DEF f
    <2> QED BY <1>7, <1>8
  <1> HIDE DEF S
  <1> QED BY <1>1, <1>3, <1>4, <1>9 DEF Finite

LEMMA ContainerIsFinite ==
    ASSUME NEW base \in Text, NEW word, word = "people" \/ word = "groups"
    PROVE  Finite(ContainerEntry(word, base))
  <1> DEFINE f == ContainerEntry(word, base).attrs
             S == {"objectclass", "ou"}
  <1>1. DOMAIN f = S /\ ContainerEntry(word, base).dn = <<Ou(word)>> \o base
    BY DEF ContainerEntry, Entry
  <1>2. f["objectclass"] = One("top") \cup One("organizationalUnit") /\ f["ou"] = One(word)
    BY DEF ContainerEntry, Entry
  <1>3. "top" \in Words /\ "organizationalUnit" \in Words /\ S \subseteq Words /\ word \in Words
    BY EntryWord, OwnWord DEF EntryWords, OwnWords
  <1>4. IsFiniteSet(S)
    <2>1. S = {"objectclass", "ou", "ou", "ou", "ou", "ou"}
      OBVIOUS
    <2> HIDE DEF S
    <2> QED BY <2>1, FiniteSix
  <1>5. \A a \in S : IsFiniteSet(f[a]) /\ f[a] \subseteq Text
    <2> HIDE DEF f
    <2> QED BY <1>2, <1>3, TwoIsText, OneIsText
  <1>6. <<Ou(word)>> \o base \in Text
    BY ContainerFacts DEF PeopleBaseDN, GroupsBaseDN
  <1> HIDE DEF S
  <1> QED BY <1>1, <1>3, <1>4, <1>5, <1>6 DEF Finite

LEMMA NameDNs ==
    ASSUME NEW base \in Text, NEW n, Name(n)
    PROVE  UserDN(base, n) \in Text /\ GroupDN(base, n) \in Text
  <1>1. "uid" \in OwnWords /\ "cn" \in OwnWords
    BY OwnWord
  <1>2. Rdn("uid", n) \in Seq(Part) /\ Rdn("cn", n) \in Seq(Part)
    BY <1>1, NormalRdn, TextIsSeq
  <1>3. base \in Seq(Part) /\ Len(base) \in Nat \ {0}
    BY TextIsSeq
  <1>4. \A r \in Seq(Part) : r \o base \in Text
    <2> SUFFICES ASSUME NEW r \in Seq(Part) PROVE r \o base \in Text
      OBVIOUS
    <2>1. r \o base \in Seq(Part) /\ Len(r \o base) = Len(r) + Len(base) /\ Len(r) \in Nat
      BY <1>3
    <2>2. Len(r \o base) # 0
      BY <1>3, <2>1
    <2> QED BY <2>1, <2>2 DEF Text
  <1> QED BY <1>2, <1>4 DEF UserDN, GroupDN

LEMMA UserIsFinite ==
    ASSUME NEW base \in Text, NEW u, Name(u.name), u.display \in Text,
           NEW groups, IsFiniteSet(groups), \A g \in groups : Name(g)
    PROVE  Finite(UserEntry(u, groups, base))
  <1> DEFINE f == UserEntry(u, groups, base).attrs
             S == {"objectclass", "uid", "cn", "displayname", "memberof", "distinguishedname"}
             v == [g \in groups |-> GroupDN(base, g)]
  <1>1. DOMAIN f = S /\ UserEntry(u, groups, base).dn = UserDN(base, u.name)
    BY DEF UserEntry, Entry
  <1>2. /\ f["objectclass"] = One("inetOrgPerson") /\ f["displayname"] = {u.display}
        /\ f["memberof"] = {v[g] : g \in groups}
        /\ f["distinguishedname"] = {UserDN(base, u.name)}
        /\ f["uid"] = {u.name} /\ f["cn"] = {u.name}
    BY DEF UserEntry, Entry
  <1>3. "inetOrgPerson" \in Words /\ S \subseteq Words
    BY EntryWord DEF EntryWords
  <1>4. IsFiniteSet(S)
    BY FiniteSix
  <1>5. UserDN(base, u.name) \in Text /\ u.name \in Text
    BY NameDNs DEF Name
  <1>6. \A t : IsFiniteSet({t})
    BY FS_Singleton
  <1>7. IsFiniteSet(f["memberof"]) /\ f["memberof"] \subseteq Text
    <2>1. \A g \in groups : v[g] \in Text
      BY NameDNs
    <2> HIDE DEF f, v
    <2> QED BY <1>2, <2>1, FiniteImage
  <1>8. IsFiniteSet(f["objectclass"]) /\ f["objectclass"] \subseteq Text
    <2> HIDE DEF f
    <2> QED BY <1>2, <1>3, OneIsText
  <1>9. \A a \in S : IsFiniteSet(f[a]) /\ f[a] \subseteq Text
    <2> HIDE DEF f
    <2>1. \A a \in {"displayname", "distinguishedname", "uid", "cn"} :
             IsFiniteSet(f[a]) /\ f[a] \subseteq Text
      BY <1>2, <1>5, <1>6
    <2> QED BY <1>7, <1>8, <2>1
  <1> HIDE DEF S
  <1> QED BY <1>1, <1>3, <1>4, <1>5, <1>9 DEF Finite

LEMMA GroupIsFinite ==
    ASSUME NEW base \in Text, NEW g, Name(g),
           NEW members, IsFiniteSet(members), \A n \in members : Name(n)
    PROVE  Finite(GroupEntry(g, members, base))
  <1> DEFINE f == GroupEntry(g, members, base).attrs
             S == {"objectclass", "cn", "member", "uniquemember", "memberuid"}
             v == [n \in members |-> UserDN(base, n)]
  <1>1. DOMAIN f = S /\ GroupEntry(g, members, base).dn = GroupDN(base, g)
    BY DEF GroupEntry, Entry
  <1>2. /\ f["objectclass"] = One("groupOfNames") /\ f["cn"] = {g}
        /\ f["memberuid"] = members
        /\ f["member"] = {v[n] : n \in members} /\ f["uniquemember"] = {v[n] : n \in members}
    BY DEF GroupEntry, Entry
  <1>3. "groupOfNames" \in Words /\ S \subseteq Words
    BY EntryWord DEF EntryWords
  <1>4. IsFiniteSet(S)
    <2>1. S = {"objectclass", "cn", "member", "uniquemember", "memberuid", "memberuid"}
      OBVIOUS
    <2> HIDE DEF S
    <2> QED BY <2>1, FiniteSix
  <1>5. GroupDN(base, g) \in Text /\ g \in Text /\ \A n \in members : n \in Text
    BY NameDNs DEF Name
  <1>6. IsFiniteSet({v[n] : n \in members}) /\ {v[n] : n \in members} \subseteq Text
    <2>1. \A n \in members : v[n] \in Text
      BY NameDNs
    <2> HIDE DEF v
    <2> QED BY <2>1, FiniteImage
  <1>7. IsFiniteSet(f["objectclass"]) /\ f["objectclass"] \subseteq Text
    <2> HIDE DEF f
    <2> QED BY <1>2, <1>3, OneIsText
  <1>8. IsFiniteSet(f["cn"]) /\ f["cn"] \subseteq Text
    <2> HIDE DEF f
    <2>1. IsFiniteSet({g})
      BY FS_Singleton
    <2> QED BY <1>2, <1>5, <2>1
  <1>9. \A a \in S : IsFiniteSet(f[a]) /\ f[a] \subseteq Text
    <2> HIDE DEF f, v
    <2>1. \A a \in {"member", "uniquemember", "memberuid"} :
             IsFiniteSet(f[a]) /\ f[a] \subseteq Text
      BY <1>2, <1>5, <1>6
    <2> QED BY <1>7, <1>8, <2>1
  <1> HIDE DEF S
  <1> QED BY <1>1, <1>3, <1>4, <1>5, <1>9 DEF Finite

LEMMA MembershipsFinite ==
    ASSUME NEW d \in Directories
    PROVE  /\ \A n : IsFiniteSet(GroupsOf(d, n)) /\ \A g \in GroupsOf(d, n) : Name(g)
           /\ \A g : IsFiniteSet(MembersOf(d, g)) /\ \A n \in MembersOf(d, g) : Name(n)
  <1>1. /\ IsFiniteSet(d.users) /\ IsFiniteSet(d.groups)
        /\ \A u \in d.users : Name(u.name)
        /\ \A g \in d.groups : Name(g)
        /\ d.members \subseteq {u.name : u \in d.users} \X d.groups
    BY AnswersAssumption
  <1> DEFINE f == [u \in d.users |-> u.name]
             N == {f[u] : u \in d.users}
  <1>2. N = {u.name : u \in d.users}
    OBVIOUS
  <1>3. IsFiniteSet(N)
    <2> HIDE DEF f
    <2> QED BY <1>1, FiniteImage
  <1>4. \A n \in N : Name(n)
    BY <1>1, <1>2
  <1> HIDE DEF N
  <1>5. \A m \in d.members : m[1] \in N /\ m[2] \in d.groups
    BY <1>1, <1>2
  <1>6. ASSUME NEW n PROVE IsFiniteSet(GroupsOf(d, n)) /\ \A g \in GroupsOf(d, n) : Name(g)
    <2>1. GroupsOf(d, n) \subseteq d.groups
      BY <1>5 DEF GroupsOf
    <2> QED BY <1>1, <2>1, FS_Subset
  <1>7. ASSUME NEW g PROVE IsFiniteSet(MembersOf(d, g)) /\ \A n \in MembersOf(d, g) : Name(n)
    <2>1. MembersOf(d, g) \subseteq N
      BY <1>5 DEF MembersOf
    <2> QED BY <1>3, <1>4, <2>1, FS_Subset
  <1> QED BY <1>6, <1>7

LEMMA VisibleFinite == ASSUME Stored, NEW e \in VisibleEntries PROVE Finite(e)
  <1>1. baseDN \in Text /\ dir \in Directories
    BY DEF Stored
  <1>2. Finite(BaseEntry(baseDN))
    BY <1>1, BaseIsFinite
  <1>3. Finite(ContainerEntry("people", baseDN)) /\ Finite(ContainerEntry("groups", baseDN))
    BY <1>1, ContainerIsFinite
  <1>4. \A u \in dir.users : Finite(UserEntry(u, GroupsOf(dir, u.name), baseDN))
    <2> SUFFICES ASSUME NEW u \in dir.users PROVE Finite(UserEntry(u, GroupsOf(dir, u.name), baseDN))
      OBVIOUS
    <2>1. Name(u.name) /\ u.display \in Text
      BY <1>1, AnswersAssumption
    <2>2. IsFiniteSet(GroupsOf(dir, u.name)) /\ \A g \in GroupsOf(dir, u.name) : Name(g)
      BY <1>1, MembershipsFinite
    <2> QED BY <1>1, <2>1, <2>2, UserIsFinite
  <1>5. \A g \in dir.groups : Finite(GroupEntry(g, MembersOf(dir, g), baseDN))
    <2> SUFFICES ASSUME NEW g \in dir.groups PROVE Finite(GroupEntry(g, MembersOf(dir, g), baseDN))
      OBVIOUS
    <2>1. Name(g)
      BY <1>1, NamesOfDirectory
    <2>2. IsFiniteSet(MembersOf(dir, g)) /\ \A n \in MembersOf(dir, g) : Name(n)
      BY <1>1, MembershipsFinite
    <2> QED BY <1>1, <2>1, <2>2, GroupIsFinite
  <1>6. \/ e = BaseEntry(baseDN)
        \/ e = ContainerEntry("people", baseDN) \/ e = ContainerEntry("groups", baseDN)
        \/ \E u \in dir.users : e = UserEntry(u, GroupsOf(dir, u.name), baseDN)
        \/ \E g \in dir.groups : e = GroupEntry(g, MembersOf(dir, g), baseDN)
    BY DEF VisibleEntries, VisibleUsers, VisibleGroups
  <1> QED BY <1>2, <1>3, <1>4, <1>5, <1>6

(* What holds of every answer.                                             *)
EntriesFinite == \A e \in answer.entries : Finite(e)
IdReturned ==
    /\ Len(answer.id) \in Nat
    /\ answer.id # <<>> =>
          /\ asked.id \in Seq(Octet) /\ asked.id # <<>>
          /\ answer.id = IntegerOctets(IntOf(asked.id))
ReadInv == Stored /\ AskedKnown /\ EntriesFinite /\ IdReturned

LEMMA ReadBack == ReadInv => AnswerReadsBack
  <1> SUFFICES ASSUME ReadInv PROVE AnswerReadsBack
    OBVIOUS
  <1>1. ASSUME NEW e \in answer.entries
        PROVE  LET sizes == Sizes(e, SelectedAttributes(e, asked.attrs), answer.id)
               IN  (\A n \in sizes : ReadsBack(n)) <=> (\A n \in sizes : n < 65536)
    <2>1. Finite(e) /\ Len(answer.id) \in Nat
      BY DEF ReadInv, EntriesFinite, IdReturned
    <2> QED BY <2>1, SizesReadBack
  <1>2. ASSUME answer.id # <<>>, ValueOf(asked.id) \in 0..(Word \div 2 - 1)
        PROVE  ValueOf(answer.id) = ValueOf(asked.id)
    <2>1. /\ asked.id \in Seq(Octet) /\ asked.id # <<>>
          /\ answer.id = IntegerOctets(IntOf(asked.id))
      BY <1>2 DEF ReadInv, IdReturned
    <2> DEFINE v == ValueOf(asked.id)
    <2>2. IntOf(asked.id) = v
      BY <1>2, <2>1, InRange
    <2>3. v \in Nat /\ v < Word \div 2
      BY <1>2, WordFacts
    <2> HIDE DEF v
    <2>4. ValueOf(IntegerOctets(v)) = v
      BY <2>3, OctetsReadBack
    <2> QED BY <2>1, <2>2, <2>4 DEF v
  <1> QED BY <1>1, <1>2 DEF AnswerReadsBack

LEMMA NoAnswer ==
    ASSUME NEW code, answer' = Result(code) PROVE EntriesFinite' /\ IdReturned'
  <1>1. answer'.entries = {} /\ answer'.id = <<>>
    BY DEF Result
  <1>2. Len(answer'.id) \in Nat
    BY <1>1
  <1> QED BY <1>1, <1>2 DEF EntriesFinite, IdReturned

LEMMA IntOfType == ASSUME NEW s \in Seq(Octet), s # <<>> PROVE IntOf(s) \in Int
  <1> DEFINE t == Tail(s)
             base == Signed(s[1])
  <1>1. t \in Seq(Octet) /\ base \in Int /\ Len(t) \in Nat
    BY IdOctets
  <1> HIDE DEF t, base
  <1>2. PICK run : /\ FoldRuns(run, base, t, WrapOctets)
                   /\ run[Len(t)] = FoldLeft(LAMBDA v, o : Wrap(256 * v + o), base, t)
    BY <1>1, WrapFold
  <1>3. run[Len(t)] \in Int
    BY <1>1, <1>2 DEF FoldRuns
  <1> QED BY <1>2, <1>3 DEF IntOf, t, base

LEMMA IntegerOctetsType == ASSUME NEW v \in Int PROVE Len(IntegerOctets(v)) \in Nat
  <1> DEFINE w == WordOf(v)
             s == Significant(w)
  <1>1. w \in Seq(Octet) /\ w # <<>>
    BY WordIsOctets
  <1>2. s \in Seq(Octet)
    <2> HIDE DEF w
    <2>1. PICK i \in 1..Len(w) : s = SubSeq(w, i, Len(w))
      BY <1>1, SignificantIs
    <2> HIDE DEF s
    <2> QED BY <1>1, <2>1
  <1>3. 0 \in Octet
    BY DEF Octet
  <1>4. IntegerOctets(v) = s \/ IntegerOctets(v) = <<0>> \o s
    BY DEF IntegerOctets, Padded
  <1> HIDE DEF s
  <1>5. <<0>> \o s \in Seq(Octet)
    BY <1>2, <1>3
  <1> QED BY <1>2, <1>4, <1>5

LEMMA ReadInit == AnswersInit => ReadInv
  <1> SUFFICES ASSUME AnswersInit PROVE ReadInv
    OBVIOUS
  <1>1. answer.entries = {} /\ answer.id = <<>>
    BY DEF AnswersInit, Result
  <1>2. Len(answer.id) \in Nat
    BY <1>1
  <1> QED BY <1>1, <1>2, StoredInit DEF ReadInv, EntriesFinite, IdReturned

LEMMA SearchRead ==
    ASSUME ReadInv, NEW q \in Searches, Search(q) PROVE EntriesFinite' /\ IdReturned'
  <1>1. q.id \in Seq(Octet) /\ q.id # <<>>
    BY AnswersAssumption
  <1>2. /\ asked'.id = q.id
        /\ answer' = [Answer(q) EXCEPT !.id = IntegerOctets(IntOf(q.id))]
    BY DEF Search
  <1>3. \/ \E code : Answer(q) = Result(code)
        \/ Answer(q) = [Result("success") EXCEPT !.entries = Picked(q)]
        \/ Answer(q) = [Result("success") EXCEPT !.entries = {RootDSE(baseDN)}]
    BY DEF Answer
  <1>4. answer'.id = IntegerOctets(IntOf(q.id))
    BY <1>2, <1>3 DEF Result
  <1>5. \/ answer'.entries = {} \/ answer'.entries = Picked(q)
        \/ answer'.entries = {RootDSE(baseDN)}
    BY <1>2, <1>3 DEF Result
  <1>6. \A e \in Picked(q) : Finite(e)
    <2>1. \A e \in Picked(q) : e \in VisibleEntries
      BY DEF Picked
    <2> QED BY <2>1, VisibleFinite DEF ReadInv
  <1>7. Finite(RootDSE(baseDN))
    BY RootIsFinite DEF ReadInv, Stored
  <1>8. EntriesFinite'
    <2>1. \A e \in answer'.entries : Finite(e)
      BY <1>5, <1>6, <1>7
    <2> QED BY <2>1 DEF EntriesFinite
  <1>9. Len(answer'.id) \in Nat
    BY <1>1, <1>4, IntOfType, IntegerOctetsType
  <1> QED BY <1>1, <1>2, <1>4, <1>8, <1>9 DEF IdReturned

LEMMA ReadStep == ASSUME ReadInv, [AnswersNext]_answersVars PROVE ReadInv'
  <1>1. Stored' /\ AskedKnown'
    BY StoredStep DEF ReadInv
  <1>2. ASSUME NEW t \in BaseDNs, UpdateBaseDN(t) PROVE EntriesFinite' /\ IdReturned'
    BY <1>2 DEF UpdateBaseDN, ReadInv, EntriesFinite, IdReturned
  <1>3. ASSUME NEW d \in Directories, ChangeDirectory(d) PROVE EntriesFinite' /\ IdReturned'
    BY <1>3 DEF ChangeDirectory, ReadInv, EntriesFinite, IdReturned
  <1>4. ASSUME NEW dn \in BindDNs, Bind(dn) PROVE EntriesFinite' /\ IdReturned'
    <2>1. \E code : answer' = Result(code)
      BY <1>4 DEF Bind
    <2> QED BY <2>1, NoAnswer
  <1>5. ASSUME NEW q \in Searches, Search(q) PROVE EntriesFinite' /\ IdReturned'
    BY <1>5, SearchRead
  <1>6. ASSUME Done PROVE EntriesFinite' /\ IdReturned'
    <2>1. \E code : answer' = Result(code)
      BY <1>6 DEF Done
    <2> QED BY <2>1, NoAnswer
  <1>7. ASSUME UNCHANGED answersVars PROVE EntriesFinite' /\ IdReturned'
    BY <1>7 DEF answersVars, ReadInv, EntriesFinite, IdReturned
  <1>8. EntriesFinite' /\ IdReturned'
    BY <1>2, <1>3, <1>4, <1>5, <1>6, <1>7 DEF AnswersNext
  <1> QED BY <1>1, <1>8 DEF ReadInv

(* searchEntryPacket, appendLength, packet.int and berInteger: whoever     *)
(* decodes an answer as the server itself does finds every element where   *)
(* it was put if all of them are shorter than 65536 octets, and then only; *)
(* and it finds the id that it sent, if a Go int holds it.                 *)
THEOREM AnswersReadBack == AnswersSpec => []AnswerReadsBack
  <1>1. AnswersInit => ReadInv
    BY ReadInit
  <1>2. ReadInv /\ [AnswersNext]_answersVars => ReadInv'
    BY ReadStep
  <1>3. ReadInv => AnswerReadsBack
    BY ReadBack
  <1> QED BY <1>1, <1>2, <1>3, PTL DEF AnswersSpec

-----------------------------------------------------------------------------
(* The search counter, for any limit and any number of ticks in a second.  *)
(*                                                                         *)
(* A second that the clock has left behind may straddle two windows.  The  *)
(* invariant counts its searches on either side of the border: at most     *)
(* Limit in the later window, and at most Limit - 1 in the earlier one,    *)
(* because a window opens with a search, which lies outside any second     *)
(* that reaches into the window after it.                                  *)
USE RateAssumption

(* The searches of the current window, and those of the second from t on   *)
(* that came before it.                                                    *)
InWindow == {g \in granted : windowStart <= g.ts}
Before(t) == {g \in granted : t <= g.ts /\ g.ts < windowStart}

(* A finite set of at most n elements.                                     *)
AtMost(S, n) == IsFiniteSet(S) /\ Cardinality(S) <= n

Ordered ==
    /\ windowStart <= now
    /\ \A g \in granted : g.ts <= now /\ g.ts < windowStart + Second

(* Once there has been a window, it opened with a search.                  *)
Opened ==
    \/ windowStart = -Second
    \/ count > 0 /\ \E g \in granted : g.ts = windowStart

Counted ==
    /\ AtMost(InWindow, count)
    /\ \A t \in Int : windowStart - Second < t => AtMost(Before(t), Limit - 1)

Bounded == \A t \in Int : AtMost(InSecond(t), 2 * Limit - 1)

CounterInv == Ordered /\ Opened /\ Counted /\ Bounded

-----------------------------------------------------------------------------
LEMMA SubsetAtMost ==
    ASSUME NEW S, NEW T, NEW n \in Int, AtMost(S, n), T \subseteq S
    PROVE  AtMost(T, n)
  <1>1. IsFiniteSet(T) /\ Cardinality(T) <= Cardinality(S)
    BY FS_Subset DEF AtMost
  <1>2. Cardinality(S) \in Nat /\ Cardinality(T) \in Nat
    BY <1>1, FS_CardinalityType DEF AtMost
  <1> QED BY <1>1, <1>2 DEF AtMost

LEMMA UnionAtMost ==
    ASSUME NEW S, NEW T, NEW m \in Int, NEW n \in Int, AtMost(S, m), AtMost(T, n)
    PROVE  AtMost(S \cup T, m + n)
  <1>1. /\ IsFiniteSet(S \cup T) /\ IsFiniteSet(S \cap T)
        /\ Cardinality(S \cup T)
             = Cardinality(S) + Cardinality(T) - Cardinality(S \cap T)
    BY FS_Union, FS_Intersection DEF AtMost
  <1>2. /\ Cardinality(S) \in Nat /\ Cardinality(T) \in Nat
        /\ Cardinality(S \cap T) \in Nat /\ Cardinality(S \cup T) \in Nat
    BY <1>1, FS_CardinalityType DEF AtMost
  <1> QED BY <1>1, <1>2 DEF AtMost

LEMMA EmptyAtMost == \A n \in Nat : AtMost({}, n)
  BY FS_EmptySet DEF AtMost

LEMMA OneAtMost == ASSUME NEW x PROVE AtMost({x}, 1)
  <1>1. IsFiniteSet({x}) /\ Cardinality({x}) = 1
    BY FS_Singleton, Zenon
  <1> QED BY <1>1 DEF AtMost

-----------------------------------------------------------------------------
(* Every state is well typed; in particular the count stays within Limit.  *)
THEOREM CounterTyped == Spec => []TypeOK
  <1> DEFINE Typed == /\ windowStart \in {-Second} \cup 0..MaxTime
                      /\ count \in 0..Limit
                      /\ now \in 0..MaxTime
                      /\ granted \in SUBSET Grant
                      /\ calls \in 0..MaxCalls
  <1>1. Init => TypeOK
    <2>1. Init => refused \in BOOLEAN
      BY DEF Init
    <2>2. Init => Typed
      BY DEF Init
    <2> QED BY <2>1, <2>2 DEF TypeOK
  <1>2. TypeOK /\ [Next]_vars => TypeOK'
    <2> SUFFICES ASSUME TypeOK, [Next]_vars PROVE TypeOK'
      OBVIOUS
    <2>1. Start \in {-Second} \cup 0..MaxTime /\ Count \in 0..Limit
      BY DEF TypeOK, Start, Count
    <2>2. refused' \in BOOLEAN
      BY DEF TypeOK, Next, Allow, Refuse, Tick, vars
    <2>3. CASE Allow
      <3>1. Attempt \in Grant
        BY <2>3 DEF Allow, Attempt, Grant, TypeOK
      <3>2. Typed'
        BY <2>1, <2>3, <3>1 DEF Allow, TypeOK, Spent
      <3> QED BY <2>2, <3>2 DEF TypeOK
    <2>4. CASE Refuse
      <3>1. Typed'
        BY <2>1, <2>4 DEF Refuse, TypeOK
      <3> QED BY <2>2, <3>1 DEF TypeOK
    <2>5. CASE Tick
      <3>1. Typed'
        BY <2>5 DEF Tick, TypeOK
      <3> QED BY <2>2, <3>1 DEF TypeOK
    <2>6. CASE UNCHANGED vars
      BY <2>6 DEF vars, TypeOK
    <2> QED BY <2>3, <2>4, <2>5, <2>6 DEF Next
  <1> QED BY <1>1, <1>2, PTL DEF Spec

(* The counter implements the quota, windows and all.                      *)
THEOREM CounterIsQuota == Spec => ImplementsQuota
  <1> DEFINE size == [k \in {"searches"} |-> Count]
  <1>1. Init => Budget!QuotaInit
    BY DEF Init, Budget!QuotaInit, Count, WindowOver
  <1>2. TypeOK /\ [Next]_vars => [Budget!QuotaNext]_size
    <2> SUFFICES ASSUME TypeOK, [Next]_vars
                 PROVE  Budget!QuotaNext \/ size' = size
      OBVIOUS
    <2>1. Count \in 0..Limit
      BY DEF TypeOK, Count
    <2>2. CASE Allow
      <3>1. Count' = Count + 1
        BY <2>2 DEF Allow, Count, Start, WindowOver, TypeOK
      <3>2. ~Budget!Spent("searches")
        BY <2>2 DEF Allow, Spent, Budget!Spent
      <3>3. size' = [size EXCEPT !["searches"] = @ + 1]
        BY <3>1
      <3> QED BY <3>2, <3>3 DEF Budget!QuotaNext, Budget!Grant
    <2>3. CASE Refuse
      <3>1. Count' = Count
        BY <2>3 DEF Refuse, Count, Start, WindowOver, TypeOK
      <3> QED BY <3>1
    <2>4. CASE Tick
      <3>1. Count' = Count \/ Count' = 0
        BY <2>4 DEF Tick, Count, WindowOver, TypeOK
      <3> QED BY <2>1, <3>1 DEF Budget!QuotaNext, Budget!Age
    <2>5. CASE UNCHANGED vars
      BY <2>5 DEF vars, Count, WindowOver
    <2> QED BY <2>2, <2>3, <2>4, <2>5 DEF Next
  <1> QED BY <1>1, <1>2, CounterTyped, PTL
          DEF Spec, ImplementsQuota, Budget!QuotaSpec

-----------------------------------------------------------------------------
(* The invariant's parts, one step of the counter at a time.               *)
LEMMA OrderedStep == TypeOK /\ Ordered /\ [Next]_vars => Ordered'
  <1> SUFFICES ASSUME TypeOK, Ordered, [Next]_vars PROVE Ordered'
    OBVIOUS
  <1>1. CASE Allow
    <2>1. windowStart <= Start /\ Start <= now /\ now < Start + Second
      BY DEF TypeOK, Ordered, Start, WindowOver
    <2>2. Start \in Int /\ windowStart \in Int /\ \A g \in granted : g.ts \in Int
      BY DEF TypeOK, Start, Grant
    <2>3. \A g \in granted' : g \in granted \/ g.ts = now
      BY <1>1 DEF Allow, Attempt
    <2>4. \A g \in granted : g.ts <= now /\ g.ts < Start + Second
      BY <2>1, <2>2 DEF Ordered
    <2>5. \A g \in granted' : g.ts <= now /\ g.ts < Start + Second
      <3> SUFFICES ASSUME NEW g \in granted'
                   PROVE  g.ts <= now /\ g.ts < Start + Second
        OBVIOUS
      <3>1. CASE g \in granted
        BY <2>4, <3>1
      <3>2. CASE g.ts = now
        BY <2>1, <3>2 DEF TypeOK
      <3> QED BY <2>3, <3>1, <3>2
    <2>6. windowStart' = Start /\ now' = now
      BY <1>1 DEF Allow
    <2> QED BY <2>1, <2>5, <2>6 DEF Ordered
  <1>2. CASE Refuse
    <2>1. windowStart <= Start /\ Start <= now
      BY DEF TypeOK, Ordered, Start
    <2>2. Start \in Int /\ windowStart \in Int /\ \A g \in granted : g.ts \in Int
      BY DEF TypeOK, Start, Grant
    <2> QED BY <1>2, <2>1, <2>2 DEF Refuse, Ordered
  <1>3. CASE Tick
    BY <1>3 DEF Tick, Ordered, TypeOK, Grant
  <1>4. CASE UNCHANGED vars
    BY <1>4 DEF vars, Ordered
  <1> QED BY <1>1, <1>2, <1>3, <1>4 DEF Next

(* A refusal never opens a window: a new window has room.                  *)
LEMMA RefusedInside ==
    ASSUME TypeOK, Refuse
    PROVE  windowStart' = windowStart /\ count' = count
  BY DEF Refuse, Spent, Count, Start, TypeOK

LEMMA OpenedStep == TypeOK /\ Opened /\ [Next]_vars => Opened'
  <1> SUFFICES ASSUME TypeOK, Opened, [Next]_vars PROVE Opened'
    OBVIOUS
  <1>1. CASE Allow
    <2>1. granted \subseteq granted' /\ Attempt \in granted' /\ Attempt.ts = now
      BY <1>1 DEF Allow, Attempt
    <2>2. count' = Count + 1 /\ Count \in 0..Limit /\ windowStart' = Start
      BY <1>1 DEF Allow, Count, TypeOK
    <2>3. CASE WindowOver
      BY <2>1, <2>2, <2>3 DEF Opened, Start
    <2>4. CASE ~WindowOver
      <3>1. windowStart # -Second
        BY <2>4 DEF WindowOver, TypeOK
      <3> QED BY <2>1, <2>2, <2>4, <3>1 DEF Opened, Start
    <2> QED BY <2>3, <2>4
  <1>2. CASE Refuse
    BY <1>2, RefusedInside DEF Refuse, Opened
  <1>3. CASE Tick
    BY <1>3 DEF Tick, Opened
  <1>4. CASE UNCHANGED vars
    BY <1>4 DEF vars, Opened
  <1> QED BY <1>1, <1>2, <1>3, <1>4 DEF Next

(* Rolling over to a new window: all searches so far become its past, and  *)
(* of those a second reaching into it sees all but the opening one, if it  *)
(* sees any.                                                               *)
LEMMA RollOver ==
    ASSUME TypeOK, Ordered, Opened, Counted, WindowOver,
           NEW t \in Int, now - Second < t
    PROVE  AtMost({g \in granted : t <= g.ts /\ g.ts < now}, Limit - 1)
  <1> DEFINE S == {g \in granted : t <= g.ts /\ g.ts < now}
  <1>1. \A g \in granted : g.ts \in Int /\ g.ts < windowStart + Second
    BY DEF TypeOK, Grant, Ordered
  <1>2. windowStart \in Int /\ now \in Nat /\ windowStart < t
    BY DEF TypeOK, WindowOver
  <1>3. CASE windowStart = -Second
    <2>1. S = {}
      BY <1>1, <1>3 DEF TypeOK, Grant
    <2>2. Limit - 1 \in Nat
      OBVIOUS
    <2> QED BY <2>1, <2>2, EmptyAtMost
  <1>4. CASE windowStart # -Second
    <2>1. PICK o \in granted : o.ts = windowStart
      BY <1>4 DEF Opened
    <2>2. S \subseteq InWindow \ {o} /\ o \in InWindow
      BY <1>1, <1>2, <2>1 DEF InWindow
    <2>3. IsFiniteSet(InWindow) /\ Cardinality(InWindow) <= Limit
      <3>1. Cardinality(InWindow) \in Nat
        BY FS_CardinalityType DEF Counted, AtMost
      <3> QED BY <3>1 DEF Counted, AtMost, TypeOK
    <2>4. /\ IsFiniteSet(InWindow \ {o})
          /\ Cardinality(InWindow \ {o}) = Cardinality(InWindow) - 1
      BY <2>2, <2>3, FS_RemoveElement
    <2>5. AtMost(InWindow \ {o}, Limit - 1)
      <3>1. Cardinality(InWindow) \in Nat
        BY <2>3, FS_CardinalityType
      <3> QED BY <2>3, <2>4, <3>1 DEF AtMost
    <2> QED BY <2>2, <2>5, SubsetAtMost
  <1> QED BY <1>3, <1>4

LEMMA CountedStep ==
    TypeOK /\ Ordered /\ Opened /\ Counted /\ [Next]_vars => Counted'
  <1> SUFFICES ASSUME TypeOK, Ordered, Opened, Counted, [Next]_vars
               PROVE  Counted'
    OBVIOUS
  <1>1. CASE Allow
    <2>1. granted' = granted \cup {Attempt} /\ Attempt.ts = now
      BY <1>1 DEF Allow, Attempt
    <2>2. /\ windowStart' = Start /\ count' = Count + 1 /\ count' \in Int
          /\ Start \in Int /\ Start <= now /\ now \in Int
      BY <1>1 DEF Allow, Start, Count, TypeOK, Ordered
    <2>3. CASE WindowOver
      <3>1. \A g \in granted : g.ts < now /\ g.ts \in Int
        BY <2>3 DEF Ordered, WindowOver, TypeOK, Grant
      <3>2. InWindow' = {Attempt}
        BY <2>1, <2>2, <2>3, <3>1 DEF InWindow, Start
      <3>3. count' = 1 /\ windowStart' = now
        BY <2>2, <2>3 DEF Count, Start
      <3>4. \A t \in Int : Before(t)' = {g \in granted : t <= g.ts /\ g.ts < now}
        BY <2>1, <2>2, <3>3 DEF Before
      <3> QED BY <2>3, <3>2, <3>3, <3>4, OneAtMost, RollOver DEF Counted
    <2>4. CASE ~WindowOver
      <3>1. windowStart' = windowStart /\ count' = count + 1 /\ count \in Int
        BY <2>2, <2>4 DEF Start, Count, TypeOK
      <3>2. InWindow' \subseteq InWindow \cup {Attempt}
        BY <2>1, <3>1 DEF InWindow
      <3>3. \A t \in Int : Before(t)' = Before(t)
        BY <2>1, <2>2, <3>1 DEF Before
      <3>4. AtMost(InWindow \cup {Attempt}, count + 1)
        <4>1. AtMost(InWindow, count) /\ AtMost({Attempt}, 1)
          BY OneAtMost DEF Counted
        <4> QED BY ONLY <3>1, <4>1, UnionAtMost
      <3>5. AtMost(InWindow', count')
        BY <3>1, <3>2, <3>4, SubsetAtMost
      <3> QED BY <3>1, <3>3, <3>5 DEF Counted
    <2> QED BY <2>3, <2>4
  <1>2. CASE UNCHANGED <<windowStart, count, granted>>
    BY <1>2 DEF Counted, InWindow, Before
  <1> QED BY <1>1, <1>2, RefusedInside DEF Next, Refuse, Tick, vars

(* What one more search does to the seconds that contain the present: they *)
(* see the current window and a part of the past that is short of Limit.   *)
LEMMA BoundedStep ==
    TypeOK /\ TypeOK' /\ Ordered' /\ Counted' /\ Bounded /\ [Next]_vars
      => Bounded'
  <1> SUFFICES ASSUME TypeOK, TypeOK', Ordered', Counted', Bounded, [Next]_vars,
                      NEW t \in Int
               PROVE  AtMost(InSecond(t)', 2 * Limit - 1)
    BY DEF Bounded
  <1>1. AtMost(InSecond(t), 2 * Limit - 1)
    BY DEF Bounded
  <1>2. CASE Allow /\ now < t + Second
    <2>1. windowStart' - Second < t /\ windowStart' \in Int /\ count' \in 0..Limit
      BY <1>2 DEF Allow, Ordered, TypeOK
    <2>2. AtMost(InWindow', count') /\ AtMost(Before(t)', Limit - 1)
      BY <2>1 DEF Counted
    <2>3. AtMost(InWindow' \cup Before(t)', count' + (Limit - 1))
      <3>1. count' \in Int /\ Limit - 1 \in Int
        BY <2>1
      <3> QED BY ONLY <2>2, <3>1, UnionAtMost
    <2>4. InSecond(t)' \subseteq InWindow' \cup Before(t)'
      BY <2>1 DEF InSecond, InWindow, Before, TypeOK, Grant
    <2>5. AtMost(InSecond(t)', count' + (Limit - 1))
      BY <2>1, <2>3, <2>4, SubsetAtMost
    <2>6. Cardinality(InSecond(t)') \in Nat
      BY <2>5, FS_CardinalityType DEF AtMost
    <2> QED BY <2>1, <2>5, <2>6 DEF AtMost
  <1>3. CASE Allow /\ ~(now < t + Second)
    <2>1. InSecond(t)' = InSecond(t)
      BY <1>3 DEF Allow, InSecond, Attempt
    <2> QED BY <1>1, <2>1
  <1>4. CASE UNCHANGED granted
    BY <1>1, <1>4 DEF InSecond
  <1> QED BY <1>2, <1>3, <1>4 DEF Next, Refuse, Tick, vars

(* Two bursts around the border of two windows stay below twice the limit: *)
(* no second ever sees more than 2 * Limit - 1 searches let through.       *)
THEOREM BurstsBounded == Spec => []BurstBound
  <1>1. Init => CounterInv
    <2> SUFFICES ASSUME Init PROVE CounterInv
      OBVIOUS
    <2>1. InWindow = {} /\ \A t \in Int : Before(t) = {} /\ InSecond(t) = {}
      BY DEF Init, InWindow, Before, InSecond
    <2>2. AtMost({}, 0) /\ AtMost({}, Limit - 1) /\ AtMost({}, 2 * Limit - 1)
      BY EmptyAtMost
    <2>3. Ordered /\ Opened
      BY DEF Init, Ordered, Opened
    <2>4. Counted /\ Bounded
      BY <2>1, <2>2 DEF Init, Counted, Bounded
    <2> QED BY <2>3, <2>4 DEF CounterInv
  <1>2. TypeOK /\ TypeOK' /\ CounterInv /\ [Next]_vars => CounterInv'
    BY OrderedStep, OpenedStep, CountedStep, BoundedStep DEF CounterInv
  <1>3. CounterInv => BurstBound
    BY DEF CounterInv, Bounded, BurstBound, AtMost
  <1> QED BY <1>1, <1>2, <1>3, CounterTyped, PTL DEF Spec

-----------------------------------------------------------------------------
(* Conversely every search that was counted was let through in the current *)
(* window: searches differ by their serial numbers.                        *)
Numbered == IsFiniteSet(granted) /\ \A g \in granted : g.serial <= calls
Full == IsFiniteSet(InWindow) /\ count <= Cardinality(InWindow)

LEMMA NumberedStep == TypeOK /\ Numbered /\ [Next]_vars => Numbered'
  <1>0. Numbered /\ [Next]_vars => IsFiniteSet(granted')
    BY FS_AddElement DEF Numbered, Next, Allow, Refuse, Tick, vars
  <1> SUFFICES ASSUME TypeOK, Numbered, [Next]_vars, NEW g \in granted'
               PROVE  g.serial <= calls'
    BY <1>0 DEF Numbered
  <1>1. CASE Allow
    <2>1. calls \in Int /\ calls' = calls + 1
      BY <1>1 DEF Allow, TypeOK
    <2>2. CASE g \in granted
      BY <2>1, <2>2 DEF Numbered, TypeOK, Grant
    <2>3. CASE g \notin granted
      BY <1>1, <2>1, <2>3 DEF Allow, Attempt
    <2> QED BY <2>2, <2>3
  <1>2. CASE Refuse
    BY <1>2 DEF Refuse, Numbered, TypeOK, Grant
  <1>3. CASE Tick \/ UNCHANGED vars
    BY <1>3 DEF Tick, vars, Numbered
  <1> QED BY <1>1, <1>2, <1>3 DEF Next

LEMMA FullStep == TypeOK /\ Ordered /\ Numbered /\ Full /\ [Next]_vars => Full'
  <1> SUFFICES ASSUME TypeOK, Ordered, Numbered, Full, [Next]_vars PROVE Full'
    OBVIOUS
  <1>1. CASE Allow
    <2>1. granted' = granted \cup {Attempt} /\ Attempt.ts = now
      BY <1>1 DEF Allow, Attempt
    <2>2. windowStart' = Start /\ count' = Count + 1 /\ now \in Int
      BY <1>1 DEF Allow, TypeOK
    <2>3. CASE WindowOver
      <3>1. \A g \in granted : g.ts < now /\ g.ts \in Int
        BY <2>3 DEF Ordered, WindowOver, TypeOK, Grant
      <3>2. InWindow' = {Attempt} /\ count' = 1
        BY <2>1, <2>2, <2>3, <3>1 DEF InWindow, Start, Count
      <3>3. IsFiniteSet({Attempt}) /\ Cardinality({Attempt}) = 1
        BY FS_Singleton, Zenon
      <3> QED BY <3>2, <3>3 DEF Full
    <2>4. CASE ~WindowOver
      <3>1. windowStart' = windowStart /\ count' = count + 1 /\ count \in Int
        BY <2>2, <2>4 DEF Start, Count, TypeOK
      <3>2. Attempt \notin InWindow
        BY DEF Attempt, Numbered, InWindow, TypeOK
      <3>3. InWindow' = InWindow \cup {Attempt}
        BY <2>1, <2>4, <3>1 DEF InWindow, Ordered, TypeOK
      <3>4. /\ IsFiniteSet(InWindow') /\ Cardinality(InWindow) \in Nat
            /\ Cardinality(InWindow') = Cardinality(InWindow) + 1
        BY <3>2, <3>3, FS_AddElement, FS_CardinalityType DEF Full
      <3> QED BY <3>1, <3>4 DEF Full
    <2> QED BY <2>3, <2>4
  <1>2. CASE UNCHANGED <<windowStart, count, granted>>
    BY <1>2 DEF Full, InWindow
  <1> QED BY <1>1, <1>2, RefusedInside DEF Next, Refuse, Tick, vars

(* The searches refused are within the last second of Limit others.        *)
LEMMA RefusalStep ==
    TypeOK /\ Numbered /\ Full /\ RefusedOnlyAtLimit /\ [Next]_vars
      => RefusedOnlyAtLimit'
  <1> SUFFICES ASSUME TypeOK, Numbered, Full, RefusedOnlyAtLimit, [Next]_vars
               PROVE  RefusedOnlyAtLimit'
    OBVIOUS
  <1> DEFINE Lately == {g \in granted : now - g.ts < Second}
  <1>1. CASE Refuse
    <2>1. count >= Limit /\ now - windowStart < Second
      BY <1>1 DEF Refuse, Spent, Count, WindowOver, TypeOK
    <2>2. InWindow \subseteq Lately
      BY <2>1 DEF InWindow, TypeOK, Grant
    <2>3. Lately \subseteq granted /\ IsFiniteSet(granted)
      BY DEF Numbered
    <2>4. /\ IsFiniteSet(Lately) /\ Cardinality(Lately) \in Nat
          /\ Cardinality(InWindow) \in Nat
          /\ Cardinality(InWindow) <= Cardinality(Lately)
      BY <2>2, <2>3, FS_Subset, FS_CardinalityType DEF Full
    <2>5. Cardinality(Lately) >= Limit
      BY <2>1, <2>4 DEF Full, TypeOK
    <2> QED BY <1>1, <2>5 DEF RefusedOnlyAtLimit, Refuse
  <1>2. CASE Allow \/ Tick
    BY <1>2 DEF Allow, Tick, RefusedOnlyAtLimit
  <1>3. CASE UNCHANGED vars
    BY <1>3 DEF vars, RefusedOnlyAtLimit
  <1> QED BY <1>1, <1>2, <1>3 DEF Next

(* allowSearch refuses only what is over the limit, within one second.     *)
THEOREM SearchRefusalsJustified == Spec => []RefusedOnlyAtLimit
  <1> DEFINE J == Ordered /\ Numbered /\ Full /\ RefusedOnlyAtLimit
  <1>1. Init => J
    <2> SUFFICES ASSUME Init PROVE J
      OBVIOUS
    <2>1. InWindow = {} /\ granted = {}
      BY DEF Init, InWindow
    <2>2. IsFiniteSet({}) /\ Cardinality({}) = 0
      BY FS_EmptySet
    <2> QED BY <2>1, <2>2 DEF Init, Ordered, Numbered, Full, RefusedOnlyAtLimit
  <1>2. TypeOK /\ J /\ [Next]_vars => J'
    BY OrderedStep, NumberedStep, FullStep, RefusalStep
  <1>3. J => RefusedOnlyAtLimit
    OBVIOUS
  <1> QED BY <1>1, <1>2, <1>3, CounterTyped, PTL DEF Spec

=============================================================================
