----------------------------- MODULE SequenceFacts -----------------------------
(***************************************************************************)
(* Sequences of sequences and what they are when put one behind the other, *)
(* as the front end puts together what its parsers have found.             *)
(***************************************************************************)
EXTENDS SequencesExt, TLAPS, WellFoundedInduction, SequenceTheorems

-----------------------------------------------------------------------------
(* Induction over the natural numbers, stated for sets instead of          *)
(* predicates, which is the form the proofs of this project can cite.      *)

(* Every non-empty set of natural numbers has a least element. *)
LEMMA LeastNumber ==
    ASSUME NEW T, T \subseteq Nat, T # {}
    PROVE  \E x \in T : \A y \in T : x <= y
<1> DEFINE R == OpToRel(<, Nat)
<1>1. \A x, y \in Nat : x < y => <<x, y>> \in R
  BY DEF OpToRel
<1>2. IsWellFoundedOn(R, Nat)
  BY NatLessThanWellFounded
<1> HIDE DEF R
<1>3. PICK x \in T : \A y \in T : ~(<<y, x>> \in R)
  BY <1>2, WFMin
<1>4. ASSUME NEW y \in T PROVE x <= y
  <2>1. x \in Nat /\ y \in Nat
    OBVIOUS
  <2>2. ~(y < x)
    BY <1>1, <1>3, <2>1, Zenon
  <2> QED BY <2>1, <2>2
<1> QED BY <1>4

(* A set with zero and with the successor of every number in it has every  *)
(* natural number.                                                         *)
LEMMA SetInduction ==
    ASSUME NEW S, 0 \in S, \A n \in Nat : n \in S => n + 1 \in S
    PROVE  Nat \subseteq S
<1> SUFFICES ASSUME Nat \ S # {} PROVE FALSE
  OBVIOUS
<1>1. PICK x \in Nat \ S : \A y \in Nat \ S : x <= y
  BY LeastNumber
<1>2. x - 1 \in Nat /\ x - 1 \in S
  BY <1>1
<1> QED BY <1>1, <1>2

-----------------------------------------------------------------------------
(* Concatenating the sequences of a sequence. *)

(* f concatenates the first m sequences of ss, one after the other. *)
Flattens(f, ss, m) == f = [i \in 1..m |-> IF i = 1 THEN ss[i] ELSE f[i - 1] \o ss[i]]

(* Such an f exists, for as many of them as one likes. *)
LEMMA FlattensExists ==
    ASSUME NEW ss, NEW m \in Nat
    PROVE  \E f : Flattens(f, ss, m)
<1> DEFINE S == {n \in Nat : \E f : Flattens(f, ss, n)}
<1>1. 0 \in S
  <2>1. Flattens([i \in 1..0 |-> ss], ss, 0)
    BY DEF Flattens
  <2> QED BY <2>1
<1>2. ASSUME NEW n \in Nat, n \in S
      PROVE  n + 1 \in S
  <2>1. PICK f : Flattens(f, ss, n)
    BY <1>2
  <2> DEFINE g == [i \in 1..n + 1 |-> IF i = n + 1
                                      THEN IF i = 1 THEN ss[i] ELSE f[n] \o ss[i]
                                      ELSE f[i]]
  <2>2. ASSUME NEW i \in 1..n + 1
        PROVE  g[i] = IF i = 1 THEN ss[i] ELSE g[i - 1] \o ss[i]
    <3>1. CASE i = n + 1 /\ i = 1
      BY <3>1
    <3>2. CASE i = n + 1 /\ i # 1
      <4>1. g[i] = f[n] \o ss[i] /\ g[i - 1] = f[n]
        <5>1. n \in 1..n + 1 /\ (n + 1) - 1 = n /\ n # n + 1
          BY <3>2
        <5> QED BY <3>2, <5>1
      <4> QED BY <3>2, <4>1
    <3>3. CASE i # n + 1 /\ i # 1
      <4>1. i \in 1..n /\ i - 1 \in 1..n /\ g[i] = f[i] /\ g[i - 1] = f[i - 1]
        BY <3>3
      <4>2. f[i] = f[i - 1] \o ss[i]
        BY <2>1, <3>3, <4>1 DEF Flattens
      <4> QED BY <3>3, <4>1, <4>2
    <3>4. CASE i # n + 1 /\ i = 1
      <4>1. i \in 1..n /\ g[i] = f[i]
        BY <3>4
      <4>2. f[i] = ss[i]
        BY <2>1, <3>4, <4>1 DEF Flattens
      <4> QED BY <3>4, <4>1, <4>2
    <3> QED BY <3>1, <3>2, <3>3, <3>4
  <2>3. g = [i \in 1..n + 1 |-> IF i = 1 THEN ss[i] ELSE g[i - 1] \o ss[i]]
    <3> DEFINE h == [i \in 1..n + 1 |-> IF i = 1 THEN ss[i] ELSE g[i - 1] \o ss[i]]
    <3>1. \A i \in 1..n + 1 : g[i] = h[i]
      BY <2>2
    <3> QED BY <3>1
  <2>4. Flattens(g, ss, n + 1)
    BY <2>3 DEF Flattens
  <2> QED BY <2>4
<1>3. Nat \subseteq S
  <2> HIDE DEF S
  <2> QED BY <1>1, <1>2, SetInduction
<1> QED BY <1>3

(* FlattenSeq of a sequence is the last value of such a function. *)
LEMMA FlattenDef ==
    ASSUME NEW ss, Len(ss) \in Nat \ {0}
    PROVE  \E f : Flattens(f, ss, Len(ss)) /\ FlattenSeq(ss) = f[Len(ss)]
<1>1. \E f : f = [i \in 1..Len(ss) |-> IF i = 1 THEN ss[i] ELSE f[i - 1] \o ss[i]]
  BY FlattensExists DEF Flattens
<1> QED BY <1>1 DEF FlattenSeq, Flattens

(* Two such functions agree where the sequences do. *)
LEMMA FlattensUnique ==
    ASSUME NEW ss, NEW tt, NEW m \in Nat, NEW n \in Nat, m <= n,
           NEW f, Flattens(f, ss, m), NEW g, Flattens(g, tt, n),
           \A i \in 1..m : ss[i] = tt[i]
    PROVE  \A i \in 1..m : f[i] = g[i]
<1> DEFINE S == {i \in Nat : i + 1 <= m => f[i + 1] = g[i + 1]}
<1>1. 0 \in S
  BY DEF Flattens
<1>2. ASSUME NEW i \in Nat, i \in S
      PROVE  i + 1 \in S
  <2> SUFFICES ASSUME (i + 1) + 1 <= m PROVE f[(i + 1) + 1] = g[(i + 1) + 1]
    OBVIOUS
  <2>1. i + 1 <= m /\ (i + 1) + 1 \in 1..m /\ (i + 1) + 1 \in 1..n /\ (i + 1) + 1 # 1
        /\ ((i + 1) + 1) - 1 = i + 1
    OBVIOUS
  <2>2. f[i + 1] = g[i + 1]
    BY <1>2, <2>1
  <2> DEFINE k == (i + 1) + 1
  <2>3. f[k] = f[k - 1] \o ss[k] /\ g[k] = g[k - 1] \o tt[k] /\ k - 1 = i + 1 /\ ss[k] = tt[k]
    BY <2>1 DEF Flattens
  <2> QED BY <2>2, <2>3
<1>3. Nat \subseteq S
  <2> HIDE DEF S
  <2> QED BY <1>1, <1>2, SetInduction
<1>4. ASSUME NEW i \in 1..m PROVE f[i] = g[i]
  <2>1. i - 1 \in Nat /\ (i - 1) + 1 = i
    OBVIOUS
  <2>2. i - 1 \in S
    BY <1>3, <2>1
  <2> QED BY <2>1, <2>2
<1> QED BY <1>4

(* Flattening is concatenation, one sequence after the other. *)
LEMMA FlattenEmpty == FlattenSeq(<<>>) = <<>>
BY DEF FlattenSeq

(* A sequence appended to the list is appended to what the list flattens to. *)
LEMMA FlattenAppend ==
    ASSUME NEW S, NEW ss \in Seq(Seq(S)), NEW s \in Seq(S)
    PROVE  FlattenSeq(Append(ss, s)) = FlattenSeq(ss) \o s
<1> DEFINE n == Len(ss)
<1> DEFINE tt == Append(ss, s)
<1>1. /\ n \in Nat /\ Len(tt) = n + 1 /\ tt[n + 1] = s
      /\ \A i \in 1..n : ss[i] = tt[i]
  BY AppendProperties
<1>2. PICK g : Flattens(g, tt, n + 1) /\ FlattenSeq(tt) = g[n + 1]
  <2>1. Len(tt) \in Nat \ {0}
    BY <1>1
  <2> HIDE DEF tt
  <2> QED BY <1>1, <2>1, FlattenDef
<1> HIDE DEF tt
<1>3. CASE n = 0
  <2>1. ss = <<>> /\ FlattenSeq(ss) = <<>>
    BY <1>3, EmptySeq, FlattenEmpty
  <2>2. g[1] = tt[1]
    BY <1>2, <1>3 DEF Flattens
  <2> QED BY <1>1, <1>2, <1>3, <2>1, <2>2, ConcatEmptySeq DEF tt
<1>4. CASE n # 0
  <2>1. PICK f : Flattens(f, ss, n) /\ FlattenSeq(ss) = f[n]
    BY <1>1, <1>4, FlattenDef
  <2>2. n \in 1..n /\ n + 1 \in 1..n + 1 /\ n + 1 # 1 /\ (n + 1) - 1 = n /\ n <= n + 1
    BY <1>1, <1>4
  <2>3. f[n] = g[n]
    <3> HIDE DEF n
    <3>1. \A i \in 1..n : f[i] = g[i]
      BY <1>1, <1>2, <2>1, <2>2, FlattensUnique
    <3> QED BY <2>2, <3>1
  <2>4. g[n + 1] = g[(n + 1) - 1] \o tt[n + 1]
    BY <1>2, <2>2 DEF Flattens
  <2> QED BY <1>1, <1>2, <2>1, <2>2, <2>3, <2>4 DEF tt
<1> QED BY <1>3, <1>4

(* What is flattened is a sequence of elements, and the first sequences    *)
(* can be flattened apart from the others.                                 *)
LEMMA FlattenType ==
    ASSUME NEW S, NEW ss \in Seq(Seq(S))
    PROVE  FlattenSeq(ss) \in Seq(S)
<1> DEFINE T == {n \in Nat : \A tt \in Seq(Seq(S)) : Len(tt) = n => FlattenSeq(tt) \in Seq(S)}
<1>1. 0 \in T
  <2>1. ASSUME NEW tt \in Seq(Seq(S)), Len(tt) = 0 PROVE FlattenSeq(tt) \in Seq(S)
    <3>1. tt = <<>>
      BY <2>1
    <3> QED BY <3>1, FlattenEmpty, EmptySeq
  <2> QED BY <2>1
<1>2. ASSUME NEW n \in Nat, n \in T
      PROVE  n + 1 \in T
  <2> SUFFICES ASSUME NEW tt \in Seq(Seq(S)), Len(tt) = n + 1
               PROVE  FlattenSeq(tt) \in Seq(S)
    OBVIOUS
  <2>1. tt # <<>>
    OBVIOUS
  <2>2. PICK uu \in Seq(Seq(S)), s \in Seq(S) : tt = Append(uu, s)
    BY <2>1, SequenceEmptyOrAppend
  <2>3. Len(uu) = n
    BY <2>2, AppendProperties
  <2>4. FlattenSeq(uu) \in Seq(S)
    BY <1>2, <2>3
  <2>5. FlattenSeq(tt) = FlattenSeq(uu) \o s
    BY <2>2, FlattenAppend
  <2> QED BY <2>4, <2>5, ConcatProperties
<1>3. Nat \subseteq T
  <2> HIDE DEF T
  <2> QED BY <1>1, <1>2, SetInduction
<1>4. Len(ss) \in T
  BY <1>3, LenProperties
<1> QED BY <1>4

(* Two lists one after the other flatten to one after the other. *)
LEMMA FlattenConcat ==
    ASSUME NEW S, NEW ss \in Seq(Seq(S)), NEW tt \in Seq(Seq(S))
    PROVE  FlattenSeq(ss \o tt) = FlattenSeq(ss) \o FlattenSeq(tt)
<1> DEFINE T == {n \in Nat : \A uu \in Seq(Seq(S)) : Len(uu) = n =>
                    FlattenSeq(ss \o uu) = FlattenSeq(ss) \o FlattenSeq(uu)}
<1>1. 0 \in T
  <2>1. ASSUME NEW uu \in Seq(Seq(S)), Len(uu) = 0
        PROVE  FlattenSeq(ss \o uu) = FlattenSeq(ss) \o FlattenSeq(uu)
    <3>1. uu = <<>>
      BY <2>1
    <3>2. ss \o <<>> = ss /\ FlattenSeq(ss) \o <<>> = FlattenSeq(ss)
      BY FlattenType, ConcatEmptySeq
    <3> QED BY <3>1, <3>2, FlattenEmpty
  <2> QED BY <2>1
<1>2. ASSUME NEW n \in Nat, n \in T
      PROVE  n + 1 \in T
  <2> SUFFICES ASSUME NEW uu \in Seq(Seq(S)), Len(uu) = n + 1
               PROVE  FlattenSeq(ss \o uu) = FlattenSeq(ss) \o FlattenSeq(uu)
    OBVIOUS
  <2>1. uu # <<>>
    OBVIOUS
  <2>2. PICK vv \in Seq(Seq(S)), s \in Seq(S) : uu = Append(vv, s)
    BY <2>1, SequenceEmptyOrAppend
  <2>3. Len(vv) = n
    BY <2>2, AppendProperties
  <2>4. FlattenSeq(ss \o vv) = FlattenSeq(ss) \o FlattenSeq(vv)
    BY <1>2, <2>3
  <2>5. ss \o uu = Append(ss \o vv, s) /\ ss \o vv \in Seq(Seq(S))
    <3>1. uu = vv \o <<s>> /\ <<s>> \in Seq(Seq(S)) /\ ss \o vv \in Seq(Seq(S))
      BY <2>2, AppendIsConcat, ConcatProperties
    <3>2. Append(ss \o vv, s) = (ss \o vv) \o <<s>>
      BY <3>1, AppendIsConcat
    <3>3. (ss \o vv) \o <<s>> = ss \o (vv \o <<s>>)
      BY <2>2, <3>1, ConcatAssociative
    <3> QED BY <3>1, <3>2, <3>3, Zenon
  <2>6. FlattenSeq(ss \o uu) = (FlattenSeq(ss) \o FlattenSeq(vv)) \o s
    BY <2>4, <2>5, FlattenAppend
  <2>7. FlattenSeq(uu) = FlattenSeq(vv) \o s
    BY <2>2, FlattenAppend
  <2>8. FlattenSeq(ss) \in Seq(S) /\ FlattenSeq(vv) \in Seq(S)
    BY FlattenType
  <2>9. (FlattenSeq(ss) \o FlattenSeq(vv)) \o s = FlattenSeq(ss) \o (FlattenSeq(vv) \o s)
    <3>1. \A x, y \in Seq(S) : (x \o y) \o s = x \o (y \o s)
      BY <2>2, ConcatAssociative
    <3> QED BY <2>8, <3>1, Zenon
  <2> QED BY <2>6, <2>7, <2>9, Zenon
<1>3. Nat \subseteq T
  <2> HIDE DEF T
  <2> QED BY <1>1, <1>2, SetInduction
<1>4. Len(tt) \in T
  BY <1>3, LenProperties
<1> QED BY <1>4

(* A sequence is a prefix of itself with something behind it. *)
LEMMA ConcatIsPrefix ==
    ASSUME NEW S, NEW s \in Seq(S), NEW t \in Seq(S)
    PROVE  IsPrefix(s, s \o t)
<1>1. /\ Len(s) \in Nat /\ Len(t) \in Nat
      /\ s \o t \in Seq(S) /\ Len(s \o t) = Len(s) + Len(t)
      /\ \A i \in 1..Len(s) : (s \o t)[i] = s[i]
  BY ConcatProperties
<1>2. SubSeq(s, 1, Len(s)) = s
  BY SubSeqFull
<1> DEFINE u == s \o t
<1> HIDE DEF u
<1>3. SubSeq(u, 1, Len(s)) = s
  <2>1. \A i \in 1..Len(s) : u[i] \in S /\ u[i] = s[i]
    BY <1>1 DEF u
  <2> DEFINE v == SubSeq(u, 1, Len(s))
  <2>2. /\ v \in Seq(S) /\ Len(v) = Len(s)
        /\ \A i \in 1..Len(s) : v[i] = s[i]
    BY <1>1, <2>1, SubSeqProperties
  <2> HIDE DEF v
  <2>3. v = s
    BY <2>2, SeqEqual
  <2> QED BY <2>3 DEF v
<1> QED BY <1>1, <1>2, <1>3 DEF IsPrefix, u

-----------------------------------------------------------------------------
(* No element occurs twice. *)
Distinct(s) == \A i, j \in 1..Len(s) : s[i] = s[j] => i = j

(* The elements of a sequence, and of one with another behind it. *)
LEMMA RangeFacts ==
    ASSUME NEW S, NEW s \in Seq(S), NEW t \in Seq(S)
    PROVE  /\ Range(s) \subseteq S
           /\ Range(s \o t) = Range(s) \cup Range(t)
           /\ Range(<<>>) = {}
<1>1. /\ Len(s) \in Nat /\ DOMAIN s = 1..Len(s) /\ \A i \in 1..Len(s) : s[i] \in S
      /\ Len(t) \in Nat /\ DOMAIN t = 1..Len(t) /\ \A i \in 1..Len(t) : t[i] \in S
  OBVIOUS
<1> DEFINE u == s \o t
<1>2. /\ Len(u) = Len(s) + Len(t) /\ DOMAIN u = 1..Len(u)
      /\ \A i \in 1..Len(s) : u[i] = s[i]
      /\ \A i \in Len(s) + 1..Len(s) + Len(t) : u[i] = t[i - Len(s)]
  BY ConcatProperties
<1> HIDE DEF u
<1>3. Range(s) \subseteq S
  BY <1>1 DEF Range
<1>4. Range(u) \subseteq Range(s) \cup Range(t)
  <2> SUFFICES ASSUME NEW i \in 1..Len(u)
               PROVE  u[i] \in Range(s) \cup Range(t)
    BY <1>2 DEF Range
  <2>1. CASE i \in 1..Len(s)
    BY <1>1, <1>2, <2>1 DEF Range
  <2>2. CASE i \notin 1..Len(s)
    <3>1. i \in Len(s) + 1..Len(s) + Len(t) /\ i - Len(s) \in 1..Len(t)
      BY <1>1, <1>2, <2>2
    <3>2. u[i] = t[i - Len(s)]
      BY <1>2, <3>1
    <3> QED BY <1>1, <3>1, <3>2 DEF Range
  <2> QED BY <2>1, <2>2
<1>5. Range(s) \subseteq Range(u)
  <2> SUFFICES ASSUME NEW i \in 1..Len(s) PROVE s[i] \in Range(u)
    BY <1>1 DEF Range
  <2>1. i \in 1..Len(u) /\ u[i] = s[i]
    BY <1>1, <1>2
  <2> QED BY <1>2, <2>1 DEF Range
<1>6. Range(t) \subseteq Range(u)
  <2> SUFFICES ASSUME NEW i \in 1..Len(t) PROVE t[i] \in Range(u)
    BY <1>1 DEF Range
  <2> DEFINE k == i + Len(s)
  <2>1. k \in 1..Len(u) /\ k \in Len(s) + 1..Len(s) + Len(t) /\ k - Len(s) = i
    BY <1>1, <1>2
  <2> HIDE DEF k
  <2>2. u[k] = t[i]
    BY <1>2, <2>1
  <2> QED BY <1>2, <2>1, <2>2 DEF Range
<1>7. Range(<<>>) = {}
  BY DEF Range
<1>8. Range(u) = Range(s) \cup Range(t)
  BY <1>4, <1>5, <1>6
<1> QED BY <1>3, <1>7, <1>8 DEF u

(* What is left when the head of a sequence is taken. *)
LEMMA TailFacts ==
    ASSUME NEW S, NEW s \in Seq(S), s # <<>>
    PROVE  /\ Head(s) \in S /\ Tail(s) \in Seq(S)
           /\ Len(s) \in Nat \ {0} /\ Len(Tail(s)) = Len(s) - 1
           /\ s = <<Head(s)>> \o Tail(s)
           /\ Range(s) = {Head(s)} \cup Range(Tail(s))
           /\ Distinct(s) => Distinct(Tail(s)) /\ Head(s) \notin Range(Tail(s))
<1>1. /\ Head(s) \in S /\ Tail(s) \in Seq(S) /\ Head(s) = s[1]
      /\ Len(s) \in Nat \ {0} /\ Len(Tail(s)) = Len(s) - 1
      /\ \A i \in 1..Len(Tail(s)) : Tail(s)[i] = s[i + 1]
  BY HeadTailProperties, EmptySeq
<1> DEFINE h == <<Head(s)>>
<1> DEFINE t == Tail(s)
<1>2. h \in Seq(S) /\ Len(h) = 1 /\ h[1] = Head(s) /\ Range(h) = {Head(s)}
  BY <1>1 DEF Range
<1>3. /\ h \o t \in Seq(S) /\ Len(h \o t) = 1 + Len(t)
      /\ \A i \in 1..1 : (h \o t)[i] = h[i]
      /\ \A i \in 1 + 1..1 + Len(t) : (h \o t)[i] = t[i - 1]
  <2> HIDE DEF h, t
  <2>1. t \in Seq(S)
    BY <1>1 DEF t
  <2>2. /\ h \o t \in Seq(S) /\ Len(h \o t) = Len(h) + Len(t)
        /\ \A i \in 1..Len(h) + Len(t) :
              (h \o t)[i] = IF i <= Len(h) THEN h[i] ELSE t[i - Len(h)]
    <3>1. h \in Seq(S)
      BY <1>2
    <3> QED BY <2>1, <3>1, ConcatProperties, Zenon
  <2>3. Len(h) = 1 /\ Len(t) \in Nat
    BY <1>2, <2>1
  <2> QED BY <2>2, <2>3
<1>4. s = h \o t
  <2> DEFINE u == h \o t
  <2>1. Len(u) = Len(s) /\ u \in Seq(S)
    BY <1>1, <1>3
  <2>2. ASSUME NEW i \in 1..Len(s) PROVE s[i] = u[i]
    <3>1. CASE i = 1
      BY <1>1, <1>2, <1>3, <3>1
    <3>2. CASE i # 1
      <4>1. i \in 1 + 1..1 + Len(t) /\ i - 1 \in 1..Len(t) /\ (i - 1) + 1 = i
        BY <1>1, <3>2
      <4>2. u[i] = t[i - 1]
        BY <1>3, <4>1
      <4>3. t[i - 1] = s[(i - 1) + 1]
        BY <1>1, <4>1
      <4> QED BY <4>1, <4>2, <4>3
    <3> QED BY <3>1, <3>2
  <2> HIDE DEF u
  <2>3. s = u
    BY <2>1, <2>2, SeqEqual
  <2> QED BY <2>3 DEF u
<1>5. Range(s) = {Head(s)} \cup Range(t)
  <2> HIDE DEF h, t
  <2>1. t \in Seq(S)
    BY <1>1 DEF t
  <2>2. Range(h \o t) = Range(h) \cup Range(t)
    BY <1>2, <2>1, RangeFacts
  <2> QED BY <1>2, <1>4, <2>2
<1>6. ASSUME Distinct(s) PROVE Distinct(t) /\ Head(s) \notin Range(t)
  <2>1. ASSUME NEW i \in 1..Len(t), NEW j \in 1..Len(t), t[i] = t[j]
        PROVE  i = j
    <3>1. i + 1 \in 1..Len(s) /\ j + 1 \in 1..Len(s) /\ s[i + 1] = s[j + 1]
      BY <1>1, <2>1
    <3>2. i + 1 = j + 1
      BY <1>6, <3>1 DEF Distinct
    <3> QED BY <3>2
  <2>2. ASSUME NEW i \in 1..Len(t) PROVE t[i] # Head(s)
    <3>1. i + 1 \in 1..Len(s) /\ 1 \in 1..Len(s) /\ t[i] = s[i + 1] /\ i + 1 # 1
      BY <1>1
    <3>2. s[i + 1] # s[1]
      BY <1>6, <3>1 DEF Distinct
    <3> QED BY <1>1, <3>1, <3>2
  <2>3. DOMAIN t = 1..Len(t)
    BY <1>1
  <2> HIDE DEF t
  <2> QED BY <2>1, <2>2, <2>3 DEF Distinct, Range
<1> QED BY <1>1, <1>4, <1>5, <1>6

(* Two sequences of different elements without a common one. *)
LEMMA DistinctConcat ==
    ASSUME NEW S, NEW s \in Seq(S), NEW t \in Seq(S),
           Distinct(s), Distinct(t), Range(s) \cap Range(t) = {}
    PROVE  Distinct(s \o t)
<1> DEFINE u == s \o t
<1>1. /\ Len(u) = Len(s) + Len(t) /\ Len(s) \in Nat /\ Len(t) \in Nat
      /\ \A i \in 1..Len(s) : u[i] = s[i]
      /\ \A i \in Len(s) + 1..Len(s) + Len(t) : u[i] = t[i - Len(s)]
  BY ConcatProperties
<1>2. DOMAIN s = 1..Len(s) /\ DOMAIN t = 1..Len(t)
  OBVIOUS
<1> HIDE DEF u
<1>3. ASSUME NEW i \in 1..Len(u)
      PROVE  IF i \in 1..Len(s)
             THEN u[i] = s[i] /\ u[i] \in Range(s)
             ELSE /\ i - Len(s) \in 1..Len(t) /\ u[i] = t[i - Len(s)]
                  /\ u[i] \in Range(t)
  <2>1. CASE i \in 1..Len(s)
    BY <1>1, <1>2, <2>1 DEF Range
  <2>2. CASE i \notin 1..Len(s)
    <3>1. i \in Len(s) + 1..Len(s) + Len(t) /\ i - Len(s) \in 1..Len(t)
      BY <1>1, <2>2
    <3>2. u[i] = t[i - Len(s)]
      BY <1>1, <3>1
    <3> QED BY <1>2, <2>2, <3>1, <3>2 DEF Range
  <2> QED BY <2>1, <2>2
<1>4. ASSUME NEW i \in 1..Len(u), NEW j \in 1..Len(u), u[i] = u[j]
      PROVE  i = j
  <2>1. CASE i \in 1..Len(s) /\ j \in 1..Len(s)
    BY <1>3, <1>4, <2>1 DEF Distinct
  <2>2. CASE i \notin 1..Len(s) /\ j \notin 1..Len(s)
    <3>1. i - Len(s) = j - Len(s)
      BY <1>3, <1>4, <2>2 DEF Distinct
    <3> QED BY <1>1, <3>1
  <2>3. CASE (i \in 1..Len(s)) # (j \in 1..Len(s))
    BY <1>3, <1>4, <2>3
  <2> QED BY <2>1, <2>2, <2>3
<1>5. Distinct(u)
  BY <1>4 DEF Distinct
<1> QED BY <1>5 DEF u
=============================================================================
