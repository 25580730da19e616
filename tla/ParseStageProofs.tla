--------------------------- MODULE ParseStageProofs ---------------------------
(***************************************************************************)
(* For every command line: the AST grows by the files' nodes in their      *)
(* order whatever the threads do, the container of a batch never outgrows  *)
(* what was reserved, and who declared a module was first in its file and  *)
(* in the batch of all others who did.                                     *)
(***************************************************************************)
EXTENDS ParseStage, TLAPS, SequenceFacts

-----------------------------------------------------------------------------
(* Division of natural numbers, as the batches use it. *)
LEMMA DivFacts ==
    ASSUME NEW a \in Nat, NEW n \in Nat \ {0}
    PROVE  /\ a \div n \in Nat
           /\ (a \div n) * n <= a
           /\ a < (a \div n) * n + n
OBVIOUS

(* The quotient is the only number of which these two hold. *)
LEMMA DivUnique ==
    ASSUME NEW a \in Nat, NEW n \in Nat \ {0}, NEW b \in Nat,
           b * n <= a, a < b * n + n
    PROVE  a \div n = b
<1>1. /\ a \div n \in Nat /\ (a \div n) * n <= a /\ a < (a \div n) * n + n
  BY DivFacts
<1> DEFINE c == a \div n
<1>2. c \in Nat /\ c * n <= a /\ a < c * n + n
  BY <1>1
<1> HIDE DEF c
<1>3. ~(c < b)
  BY <1>2
<1>4. ~(b < c)
  BY <1>2
<1> QED BY <1>2, <1>3, <1>4 DEF c

(* Multiplication by a natural number. *)
LEMMA TimesMonotonic ==
    ASSUME NEW a \in Nat, NEW b \in Nat, NEW n \in Nat, a <= b
    PROVE  a * n <= b * n /\ a * n \in Nat /\ (a + 1) * n = a * n + n
OBVIOUS

-----------------------------------------------------------------------------
(* StructsOf. *)

(* f lists the structs among the first m nodes of s. *)
Lists(f, s, m) ==
    f = [i \in 0..m |-> IF i = 0 THEN <<>>
                        ELSE IF IsStruct(s[i]) THEN Append(f[i - 1], s[i])
                                               ELSE f[i - 1]]

(* Such an f exists, for as long a beginning as one likes. *)
LEMMA ListsExists ==
    ASSUME NEW s, NEW m \in Nat
    PROVE  \E f : Lists(f, s, m)
<1> DEFINE S == {n \in Nat : \E f : Lists(f, s, n)}
<1>1. 0 \in S
  <2>1. Lists([i \in 0..0 |-> <<>>], s, 0)
    BY DEF Lists
  <2> QED BY <2>1
<1>2. ASSUME NEW n \in Nat, n \in S
      PROVE  n + 1 \in S
  <2>1. PICK f : Lists(f, s, n)
    BY <1>2
  <2> DEFINE g == [i \in 0..n + 1 |-> IF i = n + 1
                                      THEN IF IsStruct(s[i]) THEN Append(f[n], s[i]) ELSE f[n]
                                      ELSE f[i]]
  <2> DEFINE h == [i \in 0..n + 1 |-> IF i = 0 THEN <<>>
                                      ELSE IF IsStruct(s[i]) THEN Append(g[i - 1], s[i])
                                                             ELSE g[i - 1]]
  <2>2. ASSUME NEW i \in 0..n + 1 PROVE g[i] = h[i]
    <3>1. CASE i = n + 1
      <4>1. n \in 0..n + 1 /\ n # n + 1 /\ (n + 1) - 1 = n /\ g[n] = f[n] /\ i # 0
        BY <3>1
      <4>2. g[i] = IF IsStruct(s[i]) THEN Append(f[n], s[i]) ELSE f[n]
        BY <3>1
      <4> QED BY <3>1, <4>1, <4>2
    <3>2. CASE i # n + 1 /\ i # 0
      <4>1. i \in 0..n /\ i - 1 \in 0..n /\ g[i] = f[i] /\ g[i - 1] = f[i - 1]
        BY <3>2
      <4>2. f[i] = IF IsStruct(s[i]) THEN Append(f[i - 1], s[i]) ELSE f[i - 1]
        BY <2>1, <3>2, <4>1 DEF Lists
      <4> QED BY <3>2, <4>1, <4>2
    <3>3. CASE i = 0
      <4>1. i \in 0..n /\ g[i] = f[i]
        BY <3>3
      <4>2. f[i] = <<>>
        BY <2>1, <3>3, <4>1 DEF Lists
      <4> QED BY <3>3, <4>1, <4>2
    <3> QED BY <3>1, <3>2, <3>3
  <2>3. g = h
    BY <2>2
  <2>4. Lists(g, s, n + 1)
    BY <2>3 DEF Lists
  <2> QED BY <2>4
<1>3. Nat \subseteq S
  <2> HIDE DEF S
  <2> QED BY <1>1, <1>2, SetInduction
<1> QED BY <1>3

(* StructsOf is the last of them. *)
LEMMA StructsDef ==
    ASSUME NEW s, Len(s) \in Nat
    PROVE  \E f : Lists(f, s, Len(s)) /\ StructsOf(s) = f[Len(s)]
<1>1. \E f : f = [i \in 0..Len(s) |-> IF i = 0 THEN <<>>
                        ELSE IF IsStruct(s[i]) THEN Append(f[i - 1], s[i])
                                               ELSE f[i - 1]]
  BY ListsExists DEF Lists
<1> QED BY <1>1 DEF StructsOf, Lists

(* Two such functions agree where the sequences do. *)
LEMMA ListsUnique ==
    ASSUME NEW s, NEW t, NEW m \in Nat, NEW n \in Nat, m <= n,
           NEW f, Lists(f, s, m), NEW g, Lists(g, t, n),
           \A i \in 1..m : s[i] = t[i]
    PROVE  \A i \in 0..m : f[i] = g[i]
<1> DEFINE S == {i \in Nat : i <= m => f[i] = g[i]}
<1>1. 0 \in S
  BY DEF Lists
<1>2. ASSUME NEW i \in Nat, i \in S
      PROVE  i + 1 \in S
  <2> SUFFICES ASSUME i + 1 <= m PROVE f[i + 1] = g[i + 1]
    OBVIOUS
  <2>1. i <= m /\ i + 1 \in 0..m /\ i + 1 \in 0..n /\ i + 1 \in 1..m /\ i + 1 # 0
        /\ (i + 1) - 1 = i
    OBVIOUS
  <2>2. f[i] = g[i]
    BY <1>2, <2>1
  <2> DEFINE k == i + 1
  <2>3. /\ f[k] = IF IsStruct(s[k]) THEN Append(f[k - 1], s[k]) ELSE f[k - 1]
        /\ g[k] = IF IsStruct(t[k]) THEN Append(g[k - 1], t[k]) ELSE g[k - 1]
        /\ k - 1 = i /\ s[k] = t[k]
    BY <2>1 DEF Lists
  <2> QED BY <2>2, <2>3
<1>3. Nat \subseteq S
  <2> HIDE DEF S
  <2> QED BY <1>1, <1>2, SetInduction
<1> QED BY <1>3

(* The structs of no nodes, and of nodes with one more behind them. *)
LEMMA StructsEmpty == StructsOf(<<>>) = <<>>
<1>1. PICK f : Lists(f, <<>>, 0) /\ StructsOf(<<>>) = f[0]
  BY StructsDef, EmptySeq
<1> QED BY <1>1 DEF Lists

(* A node more is a struct more, or none. *)
LEMMA StructsAppend ==
    ASSUME NEW S, NEW s \in Seq(S), NEW x \in S
    PROVE  StructsOf(Append(s, x)) =
               IF IsStruct(x) THEN Append(StructsOf(s), x) ELSE StructsOf(s)
<1> DEFINE n == Len(s)
<1> DEFINE t == Append(s, x)
<1>1. /\ n \in Nat /\ Len(t) = n + 1 /\ t[n + 1] = x
      /\ \A i \in 1..n : s[i] = t[i]
  BY AppendProperties
<1> HIDE DEF t
<1>2. PICK g : Lists(g, t, n + 1) /\ StructsOf(t) = g[n + 1]
  BY <1>1, StructsDef
<1>3. PICK f : Lists(f, s, n) /\ StructsOf(s) = f[n]
  BY <1>1, StructsDef
<1> HIDE DEF n
<1>4. n \in 0..n /\ n + 1 \in 0..n + 1 /\ n + 1 # 0 /\ (n + 1) - 1 = n /\ n <= n + 1
  BY <1>1
<1>5. f[n] = g[n]
  <2>1. \A i \in 0..n : f[i] = g[i]
    BY <1>1, <1>2, <1>3, <1>4, ListsUnique
  <2> QED BY <1>4, <2>1
<1>6. g[n + 1] = IF IsStruct(t[n + 1]) THEN Append(g[(n + 1) - 1], t[n + 1]) ELSE g[(n + 1) - 1]
  BY <1>2, <1>4 DEF Lists
<1> QED BY <1>1, <1>2, <1>3, <1>4, <1>5, <1>6 DEF t

(* The structs of some nodes are nodes. *)
LEMMA StructsType ==
    ASSUME NEW S, NEW s \in Seq(S)
    PROVE  StructsOf(s) \in Seq(S)
<1> DEFINE T == {n \in Nat : \A t \in Seq(S) : Len(t) = n => StructsOf(t) \in Seq(S)}
<1>1. 0 \in T
  <2>1. ASSUME NEW t \in Seq(S), Len(t) = 0 PROVE StructsOf(t) \in Seq(S)
    <3>1. t = <<>>
      BY <2>1
    <3> QED BY <3>1, StructsEmpty, EmptySeq
  <2> QED BY <2>1
<1>2. ASSUME NEW n \in Nat, n \in T
      PROVE  n + 1 \in T
  <2> SUFFICES ASSUME NEW t \in Seq(S), Len(t) = n + 1
               PROVE  StructsOf(t) \in Seq(S)
    OBVIOUS
  <2>1. t # <<>>
    OBVIOUS
  <2>2. PICK u \in Seq(S), x \in S : t = Append(u, x)
    BY <2>1, SequenceEmptyOrAppend
  <2>3. Len(u) = n
    BY <2>2, AppendProperties
  <2>4. StructsOf(u) \in Seq(S)
    BY <1>2, <2>3
  <2>5. StructsOf(t) = IF IsStruct(x) THEN Append(StructsOf(u), x) ELSE StructsOf(u)
    BY <2>2, StructsAppend
  <2> QED BY <2>2, <2>4, <2>5, AppendProperties
<1>3. Nat \subseteq T
  <2> HIDE DEF T
  <2> QED BY <1>1, <1>2, SetInduction
<1>4. Len(s) \in T
  BY <1>3, LenProperties
<1> QED BY <1>4

(* The structs of some nodes and of those behind them. *)
LEMMA StructsConcat ==
    ASSUME NEW S, NEW s \in Seq(S), NEW t \in Seq(S)
    PROVE  StructsOf(s \o t) = StructsOf(s) \o StructsOf(t)
<1> DEFINE T == {n \in Nat : \A u \in Seq(S) : Len(u) = n =>
                    StructsOf(s \o u) = StructsOf(s) \o StructsOf(u)}
<1>1. 0 \in T
  <2>1. ASSUME NEW u \in Seq(S), Len(u) = 0
        PROVE  StructsOf(s \o u) = StructsOf(s) \o StructsOf(u)
    <3>1. u = <<>>
      BY <2>1
    <3>2. s \o <<>> = s /\ StructsOf(s) \o <<>> = StructsOf(s)
      BY StructsType, ConcatEmptySeq
    <3> QED BY <3>1, <3>2, StructsEmpty
  <2> QED BY <2>1
<1>2. ASSUME NEW n \in Nat, n \in T
      PROVE  n + 1 \in T
  <2> SUFFICES ASSUME NEW u \in Seq(S), Len(u) = n + 1
               PROVE  StructsOf(s \o u) = StructsOf(s) \o StructsOf(u)
    OBVIOUS
  <2>1. u # <<>>
    OBVIOUS
  <2>2. PICK v \in Seq(S), x \in S : u = Append(v, x)
    BY <2>1, SequenceEmptyOrAppend
  <2>3. Len(v) = n
    BY <2>2, AppendProperties
  <2>4. StructsOf(s \o v) = StructsOf(s) \o StructsOf(v)
    BY <1>2, <2>2, <2>3
  <2>5. s \o u = Append(s \o v, x) /\ s \o v \in Seq(S)
    <3>1. u = v \o <<x>> /\ <<x>> \in Seq(S) /\ s \o v \in Seq(S)
      BY <2>2, AppendIsConcat, ConcatProperties
    <3>2. Append(s \o v, x) = (s \o v) \o <<x>>
      BY <2>2, <3>1, AppendIsConcat
    <3>3. (s \o v) \o <<x>> = s \o (v \o <<x>>)
      BY <2>2, <3>1, ConcatAssociative
    <3> QED BY <3>1, <3>2, <3>3, Zenon
  <2>6. StructsOf(s) \in Seq(S) /\ StructsOf(v) \in Seq(S)
    BY <2>2, StructsType
  <2>7. CASE IsStruct(x)
    <3>1. StructsOf(s \o u) = Append(StructsOf(s) \o StructsOf(v), x)
      BY <2>2, <2>4, <2>5, <2>7, StructsAppend
    <3>2. StructsOf(u) = Append(StructsOf(v), x)
      BY <2>2, <2>7, StructsAppend
    <3> DEFINE a == StructsOf(s)
    <3> DEFINE b == StructsOf(v)
    <3>3. a \in Seq(S) /\ b \in Seq(S) /\ <<x>> \in Seq(S) /\ a \o b \in Seq(S)
      BY <2>2, <2>6, ConcatProperties
    <3> HIDE DEF a, b
    <3>4. Append(a \o b, x) = (a \o b) \o <<x>> /\ Append(b, x) = b \o <<x>>
      BY <2>2, <3>3, AppendIsConcat
    <3>5. (a \o b) \o <<x>> = a \o (b \o <<x>>)
      BY <3>3, ConcatAssociative
    <3>6. Append(a \o b, x) = a \o Append(b, x)
      BY <3>4, <3>5, Zenon
    <3> QED BY <3>1, <3>2, <3>6 DEF a, b
  <2>8. CASE ~IsStruct(x)
    <3>1. StructsOf(s \o u) = StructsOf(s \o v) /\ StructsOf(u) = StructsOf(v)
      BY <2>2, <2>5, <2>8, StructsAppend
    <3> QED BY <2>4, <3>1
  <2> QED BY <2>7, <2>8
<1>3. Nat \subseteq T
  <2> HIDE DEF T
  <2> QED BY <1>1, <1>2, SetInduction
<1>4. Len(t) \in T
  BY <1>3, LenProperties
<1> QED BY <1>4

-----------------------------------------------------------------------------
(* The files and their nodes. *)

Node == Nat \X Nat

(* The nodes of the first k files. *)
Pieces(k) == [f \in 1..k |-> NodesOf(f)]
Upto(k) == FlattenSeq(Pieces(k))

(* What the files of a command line are. *)
LEMMA SourceFacts ==
    ASSUME prog \in Inputs
    PROVE  /\ prog.nthreaded \in Nat
           /\ Length \in Nat /\ FileIDs = 1..Length
           /\ \A f \in FileIDs :
                 /\ Source(f) \in Seq(Kinds) /\ Len(Source(f)) \in Nat
                 /\ NodesOf(f) \in Seq(Node) /\ Len(NodesOf(f)) = Len(Source(f))
                 /\ \A i \in 1..Len(Source(f)) : NodesOf(f)[i] = <<f, i>>
<1>1. /\ prog.nthreaded \in Nat
      /\ prog.files \in Seq([name : Names, nodes : Sources])
      /\ Sources \subseteq Seq(Kinds)
  BY ParseAssumption
<1>2. Length \in Nat /\ FileIDs = 1..Length
  BY <1>1 DEF Length, FileIDs
<1>3. ASSUME NEW f \in FileIDs
      PROVE  /\ Source(f) \in Seq(Kinds) /\ Len(Source(f)) \in Nat
             /\ NodesOf(f) \in Seq(Node) /\ Len(NodesOf(f)) = Len(Source(f))
             /\ \A i \in 1..Len(Source(f)) : NodesOf(f)[i] = <<f, i>>
  <2>1. prog.files[f] \in [name : Names, nodes : Sources]
    BY <1>1, <1>2, ElementOfSeq DEF Length
  <2>2. Source(f) \in Seq(Kinds)
    BY <1>1, <2>1 DEF Source
  <2> DEFINE s == Source(f)
  <2>3. Len(s) \in Nat /\ DOMAIN s = 1..Len(s) /\ f \in Nat
    BY <1>2, <2>2
  <2>4. NodesOf(f) = [i \in 1..Len(s) |-> <<f, i>>]
    BY <2>3 DEF NodesOf
  <2> HIDE DEF s
  <2>5. \A i \in 1..Len(s) : <<f, i>> \in Node
    BY <2>3 DEF Node
  <2>6. NodesOf(f) \in Seq(Node) /\ Len(NodesOf(f)) = Len(s)
    BY <2>3, <2>4, <2>5
  <2> QED BY <2>2, <2>3, <2>4, <2>6 DEF s
<1> QED BY <1>1, <1>2, <1>3

(* The nodes of some files, and of those with one more behind them. *)
LEMMA UptoFacts ==
    ASSUME prog \in Inputs, NEW k \in 0..Length
    PROVE  /\ Pieces(k) \in Seq(Seq(Node)) /\ Len(Pieces(k)) = k
           /\ Upto(k) \in Seq(Node)
           /\ Upto(0) = <<>>
           /\ k < Length => Upto(k + 1) = Upto(k) \o NodesOf(k + 1)
<1>1. Length \in Nat /\ k \in Nat
  BY SourceFacts
<1>2. \A j \in 0..Length : Pieces(j) \in Seq(Seq(Node)) /\ Len(Pieces(j)) = j
  <2> SUFFICES ASSUME NEW j \in 0..Length
               PROVE  Pieces(j) \in Seq(Seq(Node)) /\ Len(Pieces(j)) = j
    OBVIOUS
  <2>1. \A f \in 1..j : NodesOf(f) \in Seq(Node)
    BY SourceFacts
  <2> QED BY <1>1, <2>1 DEF Pieces
<1>3. Upto(k) \in Seq(Node)
  BY <1>2, FlattenType DEF Upto
<1>4. Upto(0) = <<>>
  <2>1. Pieces(0) = <<>>
    BY <1>1, <1>2
  <2> QED BY <2>1, FlattenEmpty DEF Upto
<1>5. ASSUME k < Length PROVE Upto(k + 1) = Upto(k) \o NodesOf(k + 1)
  <2>1. k + 1 \in 0..Length /\ k + 1 \in FileIDs
    BY <1>1, <1>5, SourceFacts
  <2>2. NodesOf(k + 1) \in Seq(Node)
    BY <2>1, SourceFacts
  <2>3. Pieces(k + 1) = Append(Pieces(k), NodesOf(k + 1))
    <3> DEFINE s == Pieces(k + 1)
    <3> DEFINE t == Append(Pieces(k), NodesOf(k + 1))
    <3>1. /\ s \in Seq(Seq(Node)) /\ Len(s) = k + 1
          /\ t \in Seq(Seq(Node)) /\ Len(t) = k + 1
          /\ t[k + 1] = NodesOf(k + 1) /\ \A i \in 1..k : t[i] = Pieces(k)[i]
      BY <1>2, <2>1, <2>2, AppendProperties
    <3>2. \A i \in 1..k + 1 : s[i] = NodesOf(i)
      BY DEF Pieces
    <3>3. \A i \in 1..k : Pieces(k)[i] = NodesOf(i)
      BY DEF Pieces
    <3>4. \A i \in 1..k + 1 : i = k + 1 \/ i \in 1..k
      BY <1>1
    <3> HIDE DEF s, t
    <3>5. \A i \in 1..Len(s) : s[i] = t[i]
      BY <3>1, <3>2, <3>3, <3>4
    <3>6. s = t
      BY <3>1, <3>5, SeqEqual
    <3> QED BY <3>6 DEF s, t
  <2> QED BY <1>2, <2>2, <2>3, FlattenAppend DEF Upto
<1> QED BY <1>2, <1>3, <1>4, <1>5

(* The nodes of the first l files are those of the first k and then those  *)
(* of the files between.                                                   *)
LEMMA UptoSplit ==
    ASSUME prog \in Inputs, NEW k \in 0..Length, NEW l \in k..Length
    PROVE  /\ FlattenSeq([i \in 1..l - k |-> NodesOf(k + i)]) \in Seq(Node)
           /\ Upto(l) = Upto(k) \o FlattenSeq([i \in 1..l - k |-> NodesOf(k + i)])
<1> DEFINE r == [i \in 1..l - k |-> NodesOf(k + i)]
<1>1. Length \in Nat /\ k \in Nat /\ l \in Nat /\ l \in 0..Length /\ l - k \in Nat
  BY SourceFacts
<1>2. r \in Seq(Seq(Node)) /\ Len(r) = l - k
  <2>1. ASSUME NEW i \in 1..l - k PROVE NodesOf(k + i) \in Seq(Node)
    <3>1. k + i \in 1..Length
      BY <1>1
    <3> QED BY <3>1, SourceFacts
  <2> QED BY <1>1, <2>1
<1>3. /\ Pieces(k) \in Seq(Seq(Node)) /\ Len(Pieces(k)) = k
      /\ Pieces(l) \in Seq(Seq(Node)) /\ Len(Pieces(l)) = l
  BY <1>1, UptoFacts
<1>4. Pieces(l) = Pieces(k) \o r
  <2> DEFINE s == Pieces(k) \o r
  <2>1. /\ s \in Seq(Seq(Node)) /\ Len(s) = k + (l - k)
        /\ \A i \in 1..k + (l - k) : s[i] = IF i <= k THEN Pieces(k)[i] ELSE r[i - k]
    <3> HIDE DEF r
    <3> QED BY <1>2, <1>3, ConcatProperties
  <2>2. \A i \in 1..l : Pieces(l)[i] = NodesOf(i)
    BY DEF Pieces
  <2>3. \A i \in 1..k : Pieces(k)[i] = NodesOf(i)
    BY DEF Pieces
  <2>4. ASSUME NEW i \in 1..l PROVE s[i] = NodesOf(i)
    <3>1. CASE i <= k
      BY <1>1, <2>1, <2>3, <3>1
    <3>2. CASE ~(i <= k)
      <4>1. i - k \in 1..l - k /\ k + (i - k) = i /\ i \in 1..k + (l - k)
        BY <1>1, <3>2
      <4>2. r[i - k] = NodesOf(k + (i - k))
        BY <4>1
      <4>3. s[i] = r[i - k]
        BY <2>1, <3>2, <4>1
      <4> QED BY <4>1, <4>2, <4>3
    <3> QED BY <3>1, <3>2
  <2>5. k + (l - k) = l
    BY <1>1
  <2> HIDE DEF s
  <2>6. Pieces(l) = s
    BY <1>3, <2>1, <2>2, <2>4, <2>5, SeqEqual
  <2> QED BY <2>6 DEF s
<1> HIDE DEF r
<1>5. Upto(l) = Upto(k) \o FlattenSeq(r) /\ FlattenSeq(r) \in Seq(Node)
  BY <1>2, <1>3, <1>4, FlattenConcat, FlattenType DEF Upto
<1> QED BY <1>5 DEF r

(* Every node of the first k files is one of a file's source. *)
LEMMA UptoNodes ==
    ASSUME prog \in Inputs, NEW k \in 0..Length, NEW j \in 1..Len(Upto(k))
    PROVE  \E f \in 1..k : \E i \in 1..Len(Source(f)) : Upto(k)[j] = <<f, i>>
<1> DEFINE Good(l) == \A m \in 1..Len(Upto(l)) :
                         \E f \in 1..l : \E i \in 1..Len(Source(f)) : Upto(l)[m] = <<f, i>>
<1> DEFINE S == {l \in Nat : l <= Length => Good(l)}
<1>1. Length \in Nat /\ \A l \in 0..Length : Upto(l) \in Seq(Node)
  BY SourceFacts, UptoFacts
<1>2. 0 \in S
  <2>1. Upto(0) = <<>>
    BY <1>1, UptoFacts
  <2> QED BY <2>1, EmptySeq
<1>3. ASSUME NEW l \in Nat, l \in S
      PROVE  l + 1 \in S
  <2> SUFFICES ASSUME l + 1 <= Length, NEW m \in 1..Len(Upto(l + 1))
               PROVE  \E f \in 1..l + 1 : \E i \in 1..Len(Source(f)) : Upto(l + 1)[m] = <<f, i>>
    OBVIOUS
  <2> DEFINE g == l + 1
  <2>1. l \in 0..Length /\ g \in FileIDs /\ l < Length /\ g \in 1..l + 1 /\ l <= Length
    BY <1>1, SourceFacts
  <2>2. /\ Upto(g) = Upto(l) \o NodesOf(g)
        /\ Upto(l) \in Seq(Node) /\ NodesOf(g) \in Seq(Node)
        /\ Len(NodesOf(g)) = Len(Source(g)) /\ Len(Source(g)) \in Nat
        /\ \A i \in 1..Len(Source(g)) : NodesOf(g)[i] = <<g, i>>
    BY <2>1, UptoFacts, SourceFacts
  <2>3. /\ m \in 1..Len(Upto(l)) + Len(Source(g))
        /\ Upto(g)[m] = IF m <= Len(Upto(l)) THEN Upto(l)[m] ELSE NodesOf(g)[m - Len(Upto(l))]
    BY <2>2, ConcatProperties
  <2>4. CASE m <= Len(Upto(l))
    <3>1. m \in 1..Len(Upto(l))
      BY <2>2, <2>3, <2>4
    <3>2. PICK f \in 1..l : \E i \in 1..Len(Source(f)) : Upto(l)[m] = <<f, i>>
      BY <1>3, <2>1, <3>1
    <3>3. f \in 1..l + 1
      BY <3>2
    <3> QED BY <2>3, <2>4, <3>2, <3>3
  <2>5. CASE ~(m <= Len(Upto(l)))
    <3> DEFINE i == m - Len(Upto(l))
    <3>1. Len(Upto(l)) \in Nat
      BY <2>2
    <3>2. i \in 1..Len(Source(g))
      BY <2>2, <2>3, <2>5, <3>1
    <3>3. Upto(g)[m] = <<g, i>>
      BY <2>2, <2>3, <2>5, <3>2
    <3> HIDE DEF i
    <3> QED BY <2>1, <3>2, <3>3
  <2> QED BY <2>4, <2>5
<1>4. Nat \subseteq S
  <2> HIDE DEF S
  <2> QED BY <1>2, <1>3, SetInduction
<1>5. Good(k)
  <2>1. k \in Nat /\ k <= Length
    BY <1>1
  <2>2. k \in S
    BY <1>4, <2>1
  <2> QED BY <2>1, <2>2
<1> QED BY <1>5

-----------------------------------------------------------------------------
(* The inductive invariant. *)

TypeOK ==
    /\ prog \in Inputs
    /\ phase \in {"starting", "parsed", "error"}
    /\ batch \in Nat
    /\ next \in 1..Length + 1
    /\ container \in Seq(FileIDs)
    /\ at \in [FileIDs -> Nat]
    /\ \A f \in FileIDs : at[f] <= Len(Source(f))
    /\ checked \subseteq FileIDs
    /\ declared \in BOOLEAN
    /\ ast \in Seq(Node)

(* The last file of the batches before batch b; BatchEnd is Start(batch + 1). *)
Start(b) == IF b <= FullBatches THEN b * prog.nthreaded ELSE Length
BatchStart == Start(batch)

(* With threads: the container has the files of this batch that have been  *)
(* opened, in their order, and the AST those of the batches before it.     *)
BatchInv ==
    Threaded =>
        /\ phase = "starting" => batch <= FullBatches
        /\ phase = "parsed" => batch > FullBatches
        /\ next - 1 \in BatchStart..BatchEnd
        /\ container = [i \in 1..next - 1 - BatchStart |-> BatchStart + i]
        /\ ast = Upto(BatchStart)
        /\ \A f \in 1..BatchStart : at[f] = Len(Source(f))

(* The nodes of the files before file k and the first a nodes of file k. *)
ParsedOf(k, a) ==
    IF k <= Length THEN Upto(k - 1) \o SubSeq(NodesOf(k), 1, a) ELSE Upto(Length)

(* Without: the AST has what was parsed of the files up to this one. *)
AloneInv ==
    ~Threaded =>
        /\ container = <<>>
        /\ \A f \in FileIDs : f > next => at[f] = 0
        /\ ast = ParsedOf(next, at[next])
        /\ phase = "parsed" => next = Length + 1

StructsInv == structs = StructsOf(ast)

(* f's parser has found no module declared and is declaring one, or has.   *)
Claims(f) == f \in checked \/ (at[f] >= 1 /\ Source(f)[1] = "module")

(* With threads: who is declaring runs in this batch and at the beginning  *)
(* of a file that starts with a declaration, who has declared was seen to  *)
(* by all that asked later, so that all who claim ran together.            *)
RaceInv ==
    Threaded =>
        /\ \A f \in checked : /\ f \in BatchStart + 1..next - 1
                              /\ at[f] = 0 /\ Len(Source(f)) > 0
                              /\ Source(f)[1] = "module"
        /\ \A f \in FileIDs : \A i \in 1..at[f] :
              Source(f)[i] = "module" => i = 1 /\ declared
        /\ \A f, g \in FileIDs : Claims(f) /\ Claims(g) =>
              (f - 1) \div prog.nthreaded = (g - 1) \div prog.nthreaded

(* Without: only the first node of all declares a module. *)
FirstInv ==
    ~Threaded => \A k \in 1..Len(ast) :
                    Kind(ast[k]) = "module" => k = 1 /\ ast[1][2] = 1

IInv == TypeOK /\ BatchInv /\ AloneInv /\ StructsInv /\ RaceInv /\ FirstInv

(* The command line is fixed, and with it all that is computed from it. *)
LEMMA Fixed ==
    ASSUME prog' = prog
    PROVE  /\ Length' = Length /\ FileIDs' = FileIDs /\ Threaded' = Threaded
           /\ FullBatches' = FullBatches /\ (\A b : Start(b)' = Start(b))
           /\ \A f : Source(f)' = Source(f) /\ NodesOf(f)' = NodesOf(f)
           /\ \A k : Upto(k)' = Upto(k)
           /\ \A n : Kind(n)' = Kind(n)
           /\ \A s : StructsOf(s)' = StructsOf(s)
<1>1. /\ Length' = Length /\ FileIDs' = FileIDs /\ Threaded' = Threaded
      /\ FullBatches' = FullBatches /\ (\A b : Start(b)' = Start(b))
  BY DEF Length, FileIDs, Threaded, FullBatches, Start
<1>2. \A f : Source(f)' = Source(f)
  BY DEF Source
<1>3. \A f : NodesOf(f)' = NodesOf(f)
  BY <1>2 DEF NodesOf
<1>4. \A k : Upto(k)' = Upto(k)
  BY <1>3 DEF Upto, Pieces
<1>5. \A n : Kind(n)' = Kind(n)
  BY <1>2 DEF Kind
<1>6. \A s : StructsOf(s)' = StructsOf(s)
  BY <1>5 DEF StructsOf, IsStruct
<1> QED BY <1>1, <1>2, <1>3, <1>4, <1>5, <1>6

(* No step changes the command line. *)
LEMMA FixedByNext == [Next]_vars => prog' = prog
BY DEF Next, vars, StartParser, Collect, Parsing, ParseNode, SyntaxError, ModuleCheck,
       ModuleDeclare, Alone, ParseAlone, FailAlone, FileAlone, NoFiles, Over

(* Where the batches begin and end. *)
LEMMA StartFacts ==
    ASSUME prog \in Inputs, Threaded, NEW b \in Nat
    PROVE  /\ prog.nthreaded \in Nat \ {0} /\ FullBatches \in Nat
           /\ Start(b) \in 0..Length
           /\ Start(b + 1) \in Start(b)..Length
           /\ b > FullBatches => Start(b) = Length
           /\ b <= FullBatches => /\ Start(b) = b * prog.nthreaded
                                  /\ Start(b + 1) <= Start(b) + prog.nthreaded
           /\ Start(b + 1) = IF b < FullBatches THEN (b + 1) * prog.nthreaded ELSE Length
<1> DEFINE n == prog.nthreaded
<1> DEFINE K == FullBatches
<1>1. n \in Nat \ {0} /\ Length \in Nat
  BY SourceFacts DEF Threaded
<1>2. K \in Nat /\ K * n <= Length /\ Length < K * n + n
  BY <1>1, DivFacts DEF FullBatches
<1>3. b <= K => b * n <= K * n /\ b * n \in Nat
  <2> HIDE DEF n, K
  <2> QED BY <1>1, <1>2, TimesMonotonic
<1>4. b + 1 <= K => (b + 1) * n <= K * n /\ (b + 1) * n = b * n + n
  <2>1. n \in Nat /\ b + 1 \in Nat
    BY <1>1
  <2> HIDE DEF n, K
  <2> QED BY <1>2, <2>1, TimesMonotonic
<1>5. /\ Start(b) = IF b <= K THEN b * n ELSE Length
      /\ Start(b + 1) = IF b + 1 <= K THEN (b + 1) * n ELSE Length
  BY DEF Start
<1> HIDE DEF n, K
<1>6. CASE b > K
  BY <1>1, <1>2, <1>5, <1>6 DEF n, K
<1>7. CASE b + 1 <= K
  BY <1>1, <1>2, <1>3, <1>4, <1>5, <1>7 DEF n, K
<1>8. CASE b = K
  <2>1. ~(b + 1 <= K) /\ b <= K /\ ~(b < K) /\ ~(b > K)
    BY <1>2, <1>8
  <2> QED BY <1>1, <1>2, <1>3, <1>5, <1>8, <2>1 DEF n, K
<1> QED BY <1>2, <1>6, <1>7, <1>8

(* The same of the batch being parsed. *)
LEMMA BatchFacts ==
    ASSUME prog \in Inputs, Threaded, batch \in Nat
    PROVE  /\ BatchEnd = Start(batch + 1)
           /\ BatchStart \in 0..Length /\ BatchEnd \in BatchStart..Length
           /\ batch > FullBatches => BatchStart = Length
           /\ batch <= FullBatches => BatchEnd <= BatchStart + prog.nthreaded
<1>1. BatchEnd = Start(batch + 1)
  BY StartFacts DEF BatchEnd
<1> QED BY <1>1, StartFacts DEF BatchStart

(* The type invariant is preserved. *)
LEMMA TypeStep ==
    ASSUME IInv, [Next]_vars
    PROVE  TypeOK'
<1>0. prog' = prog /\ Length' = Length /\ FileIDs' = FileIDs /\ (\A f : Source(f)' = Source(f))
  BY FixedByNext, Fixed
<1>1. /\ Length \in Nat /\ FileIDs = 1..Length
      /\ \A f \in FileIDs : Len(Source(f)) \in Nat /\ NodesOf(f) \in Seq(Node)
      /\ \A f \in FileIDs : at[f] \in Nat /\ at[f] <= Len(Source(f))
  BY SourceFacts DEF IInv, TypeOK
<1> USE DEF IInv, TypeOK
<1>2. CASE StartParser
  <2>1. next \in 1..Length /\ next + 1 \in 1..Length + 1
    <3>1. next <= Length
      BY <1>1, <1>2, BatchFacts DEF StartParser
    <3> QED BY <1>1, <3>1
  <2>2. Append(container, next) \in Seq(FileIDs)
    BY <1>1, <2>1, AppendProperties
  <2> QED BY <1>0, <1>2, <2>1, <2>2 DEF StartParser
<1>3. CASE Collect
  <2>1. Found \in Seq(Node)
    <3>1. /\ Len(container) \in Nat /\ DOMAIN container = 1..Len(container)
          /\ \A i \in 1..Len(container) : container[i] \in FileIDs
      BY DEF Collect
    <3> DEFINE s == [i \in DOMAIN container |->
                        SubSeq(NodesOf(container[i]), 1, at[container[i]])]
    <3>2. ASSUME NEW f \in FileIDs
          PROVE  SubSeq(NodesOf(f), 1, at[f]) \in Seq(Node)
      <4>1. Len(NodesOf(f)) = Len(Source(f))
        BY SourceFacts
      <4>2. \A i \in 1..at[f] : NodesOf(f)[i] \in Node
        BY <1>1, <4>1
      <4> QED BY <1>1, <4>2, SubSeqProperties
    <3>3. s \in Seq(Seq(Node))
      BY <3>1, <3>2
    <3> HIDE DEF s
    <3>4. FlattenSeq(s) \in Seq(Node)
      BY <3>3, FlattenType
    <3> QED BY <3>4 DEF Found, s
  <2>2. ast \o Found \in Seq(Node)
    BY <2>1, ConcatProperties
  <2>3. <<>> \in Seq(FileIDs)
    BY EmptySeq
  <2> QED BY <1>0, <1>3, <2>2, <2>3 DEF Collect, Cleared
<1>4. ASSUME NEW f \in FileIDs, ParseNode(f) \/ ModuleDeclare(f)
      PROVE  TypeOK'
  <2>1. at[f] < Len(Source(f)) /\ at' = [at EXCEPT ![f] = @ + 1]
    BY <1>4 DEF ParseNode, ModuleDeclare, Parsing, Running
  <2>2. at' \in [FileIDs -> Nat] /\ \A g \in FileIDs : at'[g] <= Len(Source(g))
    BY <1>1, <2>1
  <2>3. checked' \subseteq FileIDs /\ declared' \in BOOLEAN
    BY <1>4 DEF ParseNode, ModuleDeclare
  <2>4. UNCHANGED <<phase, batch, next, container, ast>>
    BY <1>4 DEF ParseNode, ModuleDeclare, Parsing
  <2> QED BY <1>0, <2>2, <2>3, <2>4
<1>5. ASSUME NEW f \in FileIDs, SyntaxError(f) \/ ModuleCheck(f)
      PROVE  TypeOK'
  BY <1>0, <1>1, <1>5 DEF SyntaxError, ModuleCheck, Parsing
<1>6. ASSUME NEW f \in FileIDs, ParseAlone(f)
      PROVE  TypeOK'
  <2>1. <<f, at[f] + 1>> \in Node
    BY <1>1 DEF Node
  <2>2. Append(ast, <<f, at[f] + 1>>) \in Seq(Node)
    BY <2>1, AppendProperties
  <2> QED BY <1>0, <1>1, <1>6, <2>2 DEF ParseAlone, Alone
<1>7. ASSUME NEW f \in FileIDs, FailAlone(f) \/ FileAlone(f)
      PROVE  TypeOK'
  <2>1. next' \in 1..Length + 1 /\ phase' \in {"starting", "parsed", "error"}
    BY <1>1, <1>7 DEF FailAlone, FileAlone, Alone
  <2> QED BY <1>0, <1>7, <2>1 DEF FailAlone, FileAlone, Alone
<1>8. CASE NoFiles \/ Over \/ UNCHANGED vars
  BY <1>0, <1>1, <1>8 DEF NoFiles, Over, vars
<1> QED BY <1>2, <1>3, <1>4, <1>5, <1>6, <1>7, <1>8 DEF Next

(* What a batch has found when all its threads are done. *)
LEMMA FoundFacts ==
    ASSUME IInv, Collect
    PROVE  /\ next - 1 = BatchEnd
           /\ Found \in Seq(Node)
           /\ Upto(BatchEnd) = ast \o Found
           /\ \A f \in 1..BatchEnd : at[f] = Len(Source(f))
<1> DEFINE b == BatchStart
<1> DEFINE e == BatchEnd
<1>1. /\ prog \in Inputs /\ Threaded /\ batch \in Nat
      /\ container = [i \in 1..next - 1 - b |-> b + i]
      /\ next - 1 \in b..e /\ next > e /\ next \in Nat
      /\ ast = Upto(b) /\ (\A f \in 1..b : at[f] = Len(Source(f)))
  BY DEF IInv, TypeOK, BatchInv, Collect
<1>2. b \in 0..Length /\ e \in b..Length /\ Length \in Nat /\ b \in Nat /\ e \in Nat
  BY <1>1, BatchFacts, SourceFacts
<1> HIDE DEF b, e
<1>3. next - 1 = e /\ container = [i \in 1..e - b |-> b + i]
  BY <1>1, <1>2
<1>4. ASSUME NEW i \in 1..e - b
      PROVE  /\ b + i \in FileIDs
             /\ at[b + i] = Len(Source(b + i))
             /\ SubSeq(NodesOf(b + i), 1, at[b + i]) = NodesOf(b + i)
  <2>1. b + i \in FileIDs
    BY <1>2, SourceFacts, <1>1
  <2>2. b + i \in Range(container)
    BY <1>3 DEF Range
  <2>3. at[b + i] = Len(Source(b + i))
    <3>1. at[b + i] >= Len(Source(b + i))
      <4>1. ~(at[b + i] < Len(Source(b + i)))
        BY <2>2 DEF Collect, Joined, Running
      <4> QED BY <1>1, <2>1, <4>1, SourceFacts DEF IInv, TypeOK
    <3>2. at[b + i] <= Len(Source(b + i)) /\ at[b + i] \in Nat /\ Len(Source(b + i)) \in Nat
      BY <1>1, <2>1, SourceFacts DEF IInv, TypeOK
    <3> QED BY <3>1, <3>2
  <2>4. NodesOf(b + i) \in Seq(Node) /\ Len(NodesOf(b + i)) = Len(Source(b + i))
    BY <1>1, <2>1, SourceFacts
  <2>5. SubSeq(NodesOf(b + i), 1, Len(NodesOf(b + i))) = NodesOf(b + i)
    BY <2>4, SubSeqFull
  <2> QED BY <2>1, <2>3, <2>4, <2>5
<1>5. Found = FlattenSeq([i \in 1..e - b |-> NodesOf(b + i)])
  <2> DEFINE s == [i \in DOMAIN container |->
                      SubSeq(NodesOf(container[i]), 1, at[container[i]])]
  <2>1. DOMAIN container = 1..e - b /\ \A i \in 1..e - b : container[i] = b + i
    BY <1>3
  <2>2. s = [i \in 1..e - b |-> NodesOf(b + i)]
    BY <1>4, <2>1
  <2>3. Found = FlattenSeq(s)
    BY DEF Found
  <2> HIDE DEF s
  <2> QED BY <2>2, <2>3
<1>6. Found \in Seq(Node) /\ Upto(e) = Upto(b) \o Found
  BY <1>1, <1>2, <1>5, UptoSplit
<1>7. ASSUME NEW f \in 1..e PROVE at[f] = Len(Source(f))
  <2>1. CASE f \in 1..b
    BY <1>1, <2>1
  <2>2. CASE f \notin 1..b
    <3>1. f - b \in 1..e - b /\ b + (f - b) = f
      BY <1>2, <2>2
    <3> DEFINE i == f - b
    <3>2. at[b + i] = Len(Source(b + i))
      BY <1>4, <3>1
    <3> QED BY <3>1, <3>2
  <2> QED BY <2>1, <2>2
<1> QED BY <1>1, <1>3, <1>6, <1>7 DEF e

(* The batches go on as they began. *)
LEMMA BatchStep ==
    ASSUME IInv, [Next]_vars
    PROVE  BatchInv'
<1> SUFFICES ASSUME Threaded'
             PROVE  /\ phase' = "starting" => batch' <= FullBatches
                    /\ phase' = "parsed" => batch' > FullBatches
                    /\ next' - 1 \in Start(batch')..Start(batch' + 1)
                    /\ container' = [i \in 1..next' - 1 - Start(batch') |-> Start(batch') + i]
                    /\ ast' = Upto(Start(batch'))
                    /\ \A f \in 1..Start(batch') : at'[f] = Len(Source(f))
  <2>1. /\ prog' = prog /\ FullBatches' = FullBatches /\ (\A f : Source(f)' = Source(f))
        /\ (Threaded' = Threaded)
    BY FixedByNext, Fixed
  <2>2. BatchStart' = Start(batch') /\ (Upto(BatchStart))' = Upto(Start(batch'))
    BY <2>1, Fixed DEF BatchStart, Start, Upto, Pieces
  <2>3. Threaded' => BatchEnd' = Start(batch' + 1)
    <3>1. batch' \in Nat /\ prog \in Inputs
      BY TypeStep DEF TypeOK, IInv
    <3>2. BatchEnd' = IF batch' < FullBatches THEN (batch' + 1) * prog.nthreaded ELSE Length
      BY <2>1, Fixed DEF BatchEnd
    <3> QED BY <2>1, <3>1, <3>2, StartFacts
  <2> QED BY <2>1, <2>2, <2>3 DEF BatchInv
<1>0. prog' = prog /\ Threaded
  BY FixedByNext, Fixed
<1>1. /\ Length \in Nat /\ FileIDs = 1..Length
      /\ \A f \in FileIDs : Len(Source(f)) \in Nat
      /\ next \in Nat /\ batch \in Nat /\ prog \in Inputs
      /\ at \in [FileIDs -> Nat] /\ \A f \in FileIDs : at[f] <= Len(Source(f))
  BY SourceFacts DEF IInv, TypeOK
<1> DEFINE b == Start(batch)
<1> DEFINE e == Start(batch + 1)
<1>2. /\ FullBatches \in Nat /\ b \in 0..Length /\ e \in b..Length
      /\ batch > FullBatches => b = Length
      /\ BatchStart = b /\ BatchEnd = e
  BY <1>0, <1>1, StartFacts, BatchFacts DEF BatchStart
<1>3. /\ phase = "starting" => batch <= FullBatches
      /\ phase = "parsed" => batch > FullBatches
      /\ next - 1 \in b..e
      /\ container = [i \in 1..next - 1 - b |-> b + i]
      /\ ast = Upto(b)
      /\ \A f \in 1..b : at[f] = Len(Source(f))
  BY <1>0, <1>2 DEF IInv, BatchInv
<1>4. CASE StartParser
  <2>1. next <= e /\ UNCHANGED <<prog, batch, at, ast>> /\ phase = "starting"
    BY <1>2, <1>4 DEF StartParser
  <2>2. CASE phase' = "error" /\ UNCHANGED <<container, next>>
    BY <1>3, <2>1, <2>2
  <2>3. CASE container' = Append(container, next) /\ next' = next + 1 /\ UNCHANGED phase
    <3> HIDE DEF b, e
    <3>1. next \in b..e
      BY <1>1, <1>2, <1>3, <2>1
    <3>2. container' = [i \in 1..next - b |-> b + i]
      <4> DEFINE k == next - 1 - b
      <4>1. k \in Nat /\ k + 1 = next - b /\ b + (k + 1) = next /\ b \in Nat
        BY <1>1, <1>2, <1>3
      <4>2. container = [i \in 1..k |-> b + i]
        BY <1>3
      <4> HIDE DEF k
      <4>3. container \in Seq(Nat) /\ Len(container) = k
        BY <4>1, <4>2
      <4>4. /\ Append(container, next) \in Seq(Nat) /\ Len(Append(container, next)) = k + 1
            /\ Append(container, next)[k + 1] = next
            /\ \A i \in 1..k : Append(container, next)[i] = container[i]
        BY <1>1, <4>3, AppendProperties
      <4>5. \A i \in 1..k + 1 : i = k + 1 \/ i \in 1..k
        BY <4>1
      <4> DEFINE s == [i \in 1..k + 1 |-> b + i]
      <4>6. s \in Seq(Nat) /\ Len(s) = k + 1 /\ \A i \in 1..k + 1 : s[i] = b + i
        BY <4>1
      <4> HIDE DEF s
      <4>7. \A i \in 1..k + 1 : Append(container, next)[i] = s[i]
        BY <4>1, <4>2, <4>4, <4>5, <4>6
      <4>8. Append(container, next) = s
        BY <4>4, <4>6, <4>7, SeqEqual
      <4> QED BY <2>3, <4>1, <4>8 DEF s
    <3>3. next' - 1 = next /\ Start(batch') = b /\ Start(batch' + 1) = e
      BY <1>1, <2>1, <2>3 DEF b, e
    <3>4. next' - 1 - Start(batch') = next - b
      BY <3>3
    <3> QED BY <1>3, <2>1, <2>3, <3>1, <3>2, <3>3, <3>4
  <2> QED BY <1>4, <2>2, <2>3 DEF StartParser
<1>5. CASE Collect
  <2>1. /\ next - 1 = e /\ Upto(e) = ast \o Found
        /\ \A f \in 1..e : at[f] = Len(Source(f))
    BY <1>2, <1>5, FoundFacts
  <2>2. /\ batch' = batch + 1 /\ next' = next /\ at' = at /\ container' = <<>>
        /\ ast' = ast \o Found /\ phase = "starting"
        /\ phase' = IF batch = FullBatches THEN "parsed" ELSE phase
    BY <1>5 DEF Collect, Cleared
  <2>3. Start(batch') = e /\ Start(batch' + 1) \in e..Length
    <3>1. batch + 1 \in Nat
      BY <1>1
    <3>2. Start((batch + 1) + 1) \in Start(batch + 1)..Length
      BY <1>0, <1>1, <3>1, StartFacts
    <3> QED BY <2>2, <3>2
  <2> HIDE DEF b, e
  <2>4. next' - 1 \in e..Start(batch' + 1)
    BY <1>1, <1>2, <2>1, <2>2, <2>3
  <2>5. container' = [i \in 1..next' - 1 - e |-> e + i]
    <3>1. next' - 1 - e = 0
      BY <1>2, <2>1, <2>2
    <3> QED BY <2>2, <3>1
  <2>6. /\ phase' = "starting" => batch' <= FullBatches
        /\ phase' = "parsed" => batch' > FullBatches
    BY <1>1, <1>2, <1>3, <2>2
  <2>7. ast' = Upto(e)
    BY <2>1, <2>2
  <2>8. \A f \in 1..e : at'[f] = Len(Source(f))
    BY <2>1, <2>2
  <2> QED BY <2>3, <2>4, <2>5, <2>6, <2>7, <2>8
<1>6. ASSUME NEW f \in FileIDs, ParseNode(f) \/ ModuleDeclare(f)
      PROVE  /\ UNCHANGED <<phase, batch, next, container, ast>>
             /\ \A g \in 1..b : at'[g] = at[g]
  <2>1. at' = [at EXCEPT ![f] = @ + 1] /\ at[f] < Len(Source(f))
    BY <1>6 DEF ParseNode, ModuleDeclare, Parsing, Running
  <2>2. UNCHANGED <<phase, batch, next, container, ast>>
    BY <1>6 DEF ParseNode, ModuleDeclare, Parsing
  <2> HIDE DEF b
  <2>3. f \notin 1..b
    BY <1>1, <1>3, <2>1
  <2>4. \A g \in 1..b : g \in FileIDs
    BY <1>1, <1>2
  <2>5. \A g \in 1..b : at'[g] = at[g]
    BY <1>1, <2>1, <2>3, <2>4
  <2> QED BY <2>2, <2>5
<1>7. ASSUME NEW f \in FileIDs, ParseAlone(f) \/ FailAlone(f) \/ FileAlone(f)
      PROVE  FALSE
  BY <1>0, <1>7 DEF ParseAlone, FailAlone, FileAlone, Alone
<1>8. CASE \/ UNCHANGED <<phase, batch, next, container, at, ast>>
           \/ \E f \in FileIDs : SyntaxError(f) \/ ModuleCheck(f)
  <2>1. /\ UNCHANGED <<batch, next, container, at, ast>>
        /\ phase' = phase \/ phase' = "error"
    BY <1>8 DEF SyntaxError, ModuleCheck, Parsing
  <2>2. Start(batch') = b /\ Start(batch' + 1) = e
    BY <2>1
  <2> HIDE DEF b, e
  <2> QED BY <1>3, <2>1, <2>2
<1>9. CASE \E f \in FileIDs : ParseNode(f) \/ ModuleDeclare(f)
  <2>1. /\ UNCHANGED <<phase, batch, next, container, ast>>
        /\ \A g \in 1..b : at'[g] = at[g]
    BY <1>6, <1>9
  <2>2. Start(batch') = b /\ Start(batch' + 1) = e
    BY <2>1
  <2> HIDE DEF b, e
  <2> QED BY <1>3, <2>1, <2>2
<1>10. CASE NoFiles \/ Over \/ UNCHANGED vars
  <2>1. ~NoFiles
    BY <1>0, <1>1 DEF NoFiles, Threaded
  <2>2. UNCHANGED <<phase, batch, next, container, at, ast>>
    BY <1>10, <2>1 DEF Over, vars
  <2> QED BY <1>8, <2>2
<1> QED BY <1>4, <1>5, <1>7, <1>8, <1>9, <1>10 DEF Next

(* The first i nodes of a file. *)
LEMMA FirstNodes ==
    ASSUME prog \in Inputs, NEW f \in FileIDs, NEW i \in 0..Len(Source(f))
    PROVE  /\ SubSeq(NodesOf(f), 1, i) \in Seq(Node)
           /\ Len(SubSeq(NodesOf(f), 1, i)) = i
           /\ i = 0 => SubSeq(NodesOf(f), 1, i) = <<>>
           /\ i = Len(Source(f)) => SubSeq(NodesOf(f), 1, i) = NodesOf(f)
           /\ i < Len(Source(f)) =>
                 SubSeq(NodesOf(f), 1, i + 1) = Append(SubSeq(NodesOf(f), 1, i), <<f, i + 1>>)
           /\ \E rest \in Seq(Node) : NodesOf(f) = SubSeq(NodesOf(f), 1, i) \o rest
<1> DEFINE s == NodesOf(f)
<1> DEFINE n == Len(Source(f))
<1>1. /\ s \in Seq(Node) /\ Len(s) = n /\ n \in Nat
      /\ \A j \in 1..n : s[j] = <<f, j>> /\ s[j] \in Node
  BY SourceFacts
<1> HIDE DEF s, n
<1>2. \A j \in 0..n : /\ SubSeq(s, 1, j) \in Seq(Node) /\ Len(SubSeq(s, 1, j)) = j
                      /\ \A k \in 1..j : SubSeq(s, 1, j)[k] = s[k]
  <2> SUFFICES ASSUME NEW j \in 0..n
               PROVE  /\ SubSeq(s, 1, j) \in Seq(Node) /\ Len(SubSeq(s, 1, j)) = j
                      /\ \A k \in 1..j : SubSeq(s, 1, j)[k] = s[k]
    OBVIOUS
  <2>1. \A k \in 1..j : s[k] \in Node
    BY <1>1
  <2>2. /\ SubSeq(s, 1, j) \in Seq(Node)
        /\ Len(SubSeq(s, 1, j)) = IF 1 <= j THEN j - 1 + 1 ELSE 0
        /\ \A k \in 1..j - 1 + 1 : SubSeq(s, 1, j)[k] = s[1 + k - 1]
    BY <1>1, <2>1, SubSeqProperties
  <2> QED BY <1>1, <2>2
<1>3. i \in 0..n
  BY DEF n
<1>4. i = 0 => SubSeq(s, 1, i) = <<>>
  BY <1>2, <1>3, EmptySeq
<1>5. i = n => SubSeq(s, 1, i) = s
  BY <1>1, SubSeqFull
<1>6. ASSUME i < n PROVE SubSeq(s, 1, i + 1) = Append(SubSeq(s, 1, i), <<f, i + 1>>)
  <2>1. i + 1 \in 0..n /\ i + 1 \in 1..n /\ s[i + 1] = <<f, i + 1>>
    BY <1>1, <1>3, <1>6
  <2> DEFINE t == SubSeq(s, 1, i)
  <2> DEFINE u == SubSeq(s, 1, i + 1)
  <2>2. /\ t \in Seq(Node) /\ Len(t) = i /\ (\A k \in 1..i : t[k] = s[k])
        /\ u \in Seq(Node) /\ Len(u) = i + 1 /\ (\A k \in 1..i + 1 : u[k] = s[k])
        /\ s[i + 1] \in Node
    BY <1>1, <1>2, <1>3, <2>1
  <2> HIDE DEF t, u
  <2>3. /\ Append(t, s[i + 1]) \in Seq(Node) /\ Len(Append(t, s[i + 1])) = i + 1
        /\ Append(t, s[i + 1])[i + 1] = s[i + 1]
        /\ \A k \in 1..i : Append(t, s[i + 1])[k] = t[k]
    BY <2>2, AppendProperties
  <2>4. \A k \in 1..i + 1 : k = i + 1 \/ k \in 1..i
    BY <1>1, <1>3
  <2>5. \A k \in 1..i + 1 : u[k] = Append(t, s[i + 1])[k]
    BY <2>2, <2>3, <2>4
  <2>6. u = Append(t, s[i + 1])
    BY <2>2, <2>3, <2>5, SeqEqual
  <2> QED BY <2>1, <2>6 DEF t, u
<1>7. \E rest \in Seq(Node) : s = SubSeq(s, 1, i) \o rest
  <2>1. /\ 1 \in 1..Len(s) + 1 /\ i \in 1 - 1..Len(s) /\ Len(s) \in i..Len(s)
    BY <1>1, <1>3
  <2>2. SubSeq(s, 1, i) \o SubSeq(s, i + 1, Len(s)) = SubSeq(s, 1, Len(s))
    BY <1>1, <2>1, ConcatAdjacentSubSeq
  <2>3. SubSeq(s, 1, Len(s)) = s
    BY <1>1, SubSeqFull
  <2>4. SubSeq(s, i + 1, Len(s)) \in Seq(Node)
    <3>1. \A k \in i + 1..Len(s) : s[k] \in Node
      BY <1>1, <1>3
    <3>2. i + 1 \in Int /\ Len(s) \in Int
      BY <1>1, <1>3
    <3> QED BY <3>1, <3>2, SubSeqProperties
  <2> QED BY <2>2, <2>3, <2>4
<1> QED BY <1>2, <1>3, <1>4, <1>5, <1>6, <1>7 DEF s, n

(* ParsedOf, for a file and at the end. *)
LEMMA ParsedFacts ==
    /\ \A k, a : k <= Length => ParsedOf(k, a) = Upto(k - 1) \o SubSeq(NodesOf(k), 1, a)
    /\ \A k, a : ~(k <= Length) => ParsedOf(k, a) = Upto(Length)
BY DEF ParsedOf

(* Without threads one file is parsed after the other. *)
LEMMA AloneStep ==
    ASSUME IInv, [Next]_vars
    PROVE  AloneInv'
<1> SUFFICES ASSUME Threaded' = FALSE
             PROVE  /\ container' = <<>>
                    /\ \A f \in FileIDs : f > next' => at'[f] = 0
                    /\ ast' = ParsedOf(next', at'[next'])
                    /\ phase' = "parsed" => next' = Length + 1
  <2>1. prog' = prog
    BY FixedByNext
  <2>2. Length' = Length /\ FileIDs' = FileIDs /\ Threaded' = Threaded
    BY <2>1, Fixed
  <2>3. ParsedOf(next, at[next])' = ParsedOf(next', at'[next'])
    BY <2>1 DEF ParsedOf, Length, Upto, Pieces, NodesOf, Source
  <2>4. Threaded' \in BOOLEAN
    BY DEF Threaded
  <2> QED BY <2>2, <2>3, <2>4 DEF AloneInv
<1>0. prog' = prog /\ ~Threaded
  BY FixedByNext, Fixed
<1>1. /\ Length \in Nat /\ FileIDs = 1..Length
      /\ \A f \in FileIDs : Len(Source(f)) \in Nat
      /\ next \in 1..Length + 1 /\ prog \in Inputs
      /\ at \in [FileIDs -> Nat] /\ \A f \in FileIDs : at[f] <= Len(Source(f))
  BY SourceFacts DEF IInv, TypeOK
<1>2. /\ container = <<>>
      /\ \A f \in FileIDs : f > next => at[f] = 0
      /\ ast = ParsedOf(next, at[next])
      /\ phase = "parsed" => next = Length + 1
  BY <1>0 DEF IInv, AloneInv
<1>3. ~StartParser /\ ~Collect
  BY <1>0 DEF StartParser, Collect
<1>4. ASSUME NEW f \in FileIDs PROVE ~Parsing(f)
  BY <1>2 DEF Parsing, Running, Range
<1>5. ASSUME NEW f \in FileIDs, ParseAlone(f)
      PROVE  /\ container' = <<>>
             /\ \A g \in FileIDs : g > next' => at'[g] = 0
             /\ ast' = ParsedOf(next', at'[next'])
             /\ phase' = "parsed" => next' = Length + 1
  <2>1. /\ f = next /\ at[f] < Len(Source(f)) /\ phase = "starting"
        /\ at' = [at EXCEPT ![f] = @ + 1] /\ ast' = Append(ast, <<f, at[f] + 1>>)
        /\ UNCHANGED <<phase, next, container>>
    BY <1>5 DEF ParseAlone, Alone
  <2>2. at[f] \in 0..Len(Source(f)) /\ at'[f] = at[f] + 1 /\ f \in 1..Length
    BY <1>1, <2>1
  <2>3. ast' = ParsedOf(next', at'[next'])
    <3> DEFINE u == Upto(f - 1)
    <3> DEFINE s == SubSeq(NodesOf(f), 1, at[f])
    <3> DEFINE x == <<f, at[f] + 1>>
    <3>1. ast = u \o s
      BY <1>2, <2>1, <2>2 DEF ParsedOf
    <3>2. u \in Seq(Node)
      <4>1. f - 1 \in 0..Length
        BY <1>1, <2>2
      <4> QED BY <1>1, <4>1, UptoFacts
    <3>3. s \in Seq(Node) /\ SubSeq(NodesOf(f), 1, at[f] + 1) = Append(s, x)
      BY <1>1, <2>1, <2>2, FirstNodes
    <3>4. x \in Node
      BY <1>1, <2>2 DEF Node
    <3>5. ParsedOf(next', at'[next']) = u \o SubSeq(NodesOf(f), 1, at[f] + 1)
      <4>1. next' = f /\ f <= Length /\ at'[next'] = at[f] + 1
        BY <1>1, <2>1, <2>2
      <4>2. ParsedOf(f, at[f] + 1) = u \o SubSeq(NodesOf(f), 1, at[f] + 1)
        BY <4>1, ParsedFacts
      <4> HIDE DEF u
      <4> QED BY <4>1, <4>2
    <3> HIDE DEF u, s, x
    <3>6. Append(u \o s, x) = u \o Append(s, x)
      <4>1. u \o s \in Seq(Node) /\ <<x>> \in Seq(Node)
        BY <3>2, <3>3, <3>4, ConcatProperties
      <4>2. Append(u \o s, x) = (u \o s) \o <<x>> /\ Append(s, x) = s \o <<x>>
        BY <3>3, <3>4, <4>1, AppendIsConcat
      <4>3. (u \o s) \o <<x>> = u \o (s \o <<x>>)
        BY <3>2, <3>3, <4>1, ConcatAssociative
      <4> QED BY <4>2, <4>3
    <3> QED BY <2>1, <3>1, <3>3, <3>5, <3>6 DEF x
  <2> QED BY <1>1, <1>2, <2>1, <2>2, <2>3
<1>6. ASSUME NEW f \in FileIDs, FailAlone(f)
      PROVE  /\ container' = <<>>
             /\ \A g \in FileIDs : g > next' => at'[g] = 0
             /\ ast' = ParsedOf(next', at'[next'])
             /\ phase' = "parsed" => next' = Length + 1
  BY <1>2, <1>6 DEF FailAlone, Alone
<1>7. ASSUME NEW f \in FileIDs, FileAlone(f)
      PROVE  /\ container' = <<>>
             /\ \A g \in FileIDs : g > next' => at'[g] = 0
             /\ ast' = ParsedOf(next', at'[next'])
             /\ phase' = "parsed" => next' = Length + 1
  <2>1. /\ f = next /\ at[f] = Len(Source(f)) /\ phase = "starting" /\ next' = next + 1
        /\ phase' = IF f = Length THEN "parsed" ELSE phase
        /\ UNCHANGED <<at, ast, container>>
    BY <1>7 DEF FileAlone, Alone
  <2>2. f \in 1..Length /\ f - 1 \in 0..Length /\ f \in 0..Length
        /\ f - 1 < Length /\ (f - 1) + 1 = f
    BY <1>1
  <2>3. at[f] \in 0..Len(Source(f)) /\ SubSeq(NodesOf(f), 1, at[f]) = NodesOf(f)
    BY <1>1, <2>1, FirstNodes
  <2>4. ast = Upto(f)
    <3>1. ast = Upto(f - 1) \o NodesOf(f)
      <4>1. f <= Length
        BY <1>1
      <4>2. ParsedOf(f, at[f]) = Upto(f - 1) \o SubSeq(NodesOf(f), 1, at[f])
        BY <4>1, ParsedFacts
      <4> QED BY <1>2, <2>1, <2>3, <4>2
    <3>2. Upto((f - 1) + 1) = Upto(f - 1) \o NodesOf((f - 1) + 1)
      BY <1>1, <2>2, UptoFacts
    <3> QED BY <2>2, <3>1, <3>2
  <2>5. ParsedOf(next', at'[next']) = Upto(f)
    <3>1. CASE f = Length
      BY <1>1, <2>1, <3>1 DEF ParsedOf
    <3>2. CASE f # Length
      <4> DEFINE g == f + 1
      <4>1. g \in FileIDs /\ g <= Length /\ g > next /\ g - 1 = f /\ next' = g
        BY <1>1, <2>1, <2>2, <3>2
      <4>2. at'[g] = 0 /\ 0 \in 0..Len(Source(g))
        BY <1>1, <1>2, <2>1, <4>1
      <4>3. SubSeq(NodesOf(g), 1, 0) = <<>>
        BY <1>1, <4>1, <4>2, FirstNodes
      <4>4. Upto(f) \in Seq(Node)
        BY <1>1, <2>2, UptoFacts
      <4>5. Upto(f) \o <<>> = Upto(f)
        BY <4>4, ConcatEmptySeq
      <4> HIDE DEF g
      <4> QED BY <4>1, <4>2, <4>3, <4>5 DEF ParsedOf
    <3> QED BY <3>1, <3>2
  <2> QED BY <1>1, <1>2, <2>1, <2>4, <2>5
<1>8. CASE NoFiles
  BY <1>1, <1>2, <1>8 DEF NoFiles
<1>9. CASE Over \/ UNCHANGED vars
  BY <1>2, <1>9 DEF Over, vars
<1>10. CASE \E f \in FileIDs : ParseAlone(f) \/ FailAlone(f) \/ FileAlone(f)
  BY <1>5, <1>6, <1>7, <1>10
<1>11. CASE \E f \in FileIDs : ParseNode(f) \/ SyntaxError(f) \/ ModuleCheck(f) \/ ModuleDeclare(f)
  BY <1>4, <1>11 DEF ParseNode, SyntaxError, ModuleCheck, ModuleDeclare
<1> QED BY <1>3, <1>8, <1>9, <1>10, <1>11 DEF Next

(* structs lists the structs of the AST. *)
LEMMA StructsStep ==
    ASSUME IInv, [Next]_vars
    PROVE  StructsInv'
<1>1. prog' = prog /\ structs = StructsOf(ast) /\ ast \in Seq(Node)
  BY FixedByNext DEF IInv, StructsInv, TypeOK
<1>2. StructsOf(ast)' = StructsOf(ast')
  BY <1>1, Fixed DEF StructsOf, IsStruct, Kind, Source
<1>3. CASE UNCHANGED <<ast, structs>>
  BY <1>1, <1>2, <1>3 DEF StructsInv
<1>4. CASE Collect
  <2>1. ast' = ast \o Found /\ structs' = structs \o StructsOf(Found)
    BY <1>4 DEF Collect
  <2>2. Found \in Seq(Node)
    BY <1>4, FoundFacts
  <2>3. StructsOf(ast \o Found) = StructsOf(ast) \o StructsOf(Found)
    BY <1>1, <2>2, StructsConcat
  <2> QED BY <1>1, <1>2, <2>1, <2>3 DEF StructsInv
<1>5. ASSUME NEW f \in FileIDs, ParseAlone(f)
      PROVE  StructsInv'
  <2> DEFINE x == <<f, at[f] + 1>>
  <2>1. /\ ast' = Append(ast, x)
        /\ structs' = IF NextKind(f) = "struct" THEN Append(structs, x) ELSE structs
    BY <1>5 DEF ParseAlone
  <2>2. x \in Node
    BY SourceFacts DEF Node, IInv, TypeOK
  <2>3. IsStruct(x) <=> NextKind(f) = "struct"
    BY DEF IsStruct, Kind, NextKind
  <2> HIDE DEF x
  <2>4. StructsOf(Append(ast, x)) = IF IsStruct(x) THEN Append(StructsOf(ast), x)
                                                   ELSE StructsOf(ast)
    BY <1>1, <2>2, StructsAppend
  <2> QED BY <1>1, <1>2, <2>1, <2>3, <2>4 DEF StructsInv
<1>6. CASE StartParser \/ NoFiles \/ Over \/ UNCHANGED vars
  BY <1>3, <1>6 DEF StartParser, NoFiles, Over, vars
<1>7. CASE \E f \in FileIDs : \/ ParseNode(f) \/ SyntaxError(f) \/ ModuleCheck(f)
                              \/ ModuleDeclare(f) \/ FailAlone(f) \/ FileAlone(f)
  BY <1>3, <1>7 DEF ParseNode, SyntaxError, ModuleCheck, ModuleDeclare, Parsing,
                    FailAlone, FileAlone
<1> QED BY <1>4, <1>5, <1>6, <1>7 DEF Next

(* The files of the batch have the batch's number. *)
LEMMA SameBatch ==
    ASSUME prog \in Inputs, Threaded, batch \in Nat, batch <= FullBatches,
           NEW f \in BatchStart + 1..BatchEnd
    PROVE  (f - 1) \div prog.nthreaded = batch
<1> DEFINE n == prog.nthreaded
<1>1. /\ n \in Nat \ {0} /\ batch * n = BatchStart /\ BatchEnd <= BatchStart + n
      /\ BatchStart \in Nat /\ BatchEnd \in Nat
  BY StartFacts, BatchFacts, SourceFacts DEF BatchStart
<1> HIDE DEF n
<1>2. f - 1 \in Nat /\ batch * n <= f - 1 /\ f - 1 < batch * n + n
  BY <1>1
<1>3. (f - 1) \div n = batch
  <2> DEFINE a == f - 1
  <2>1. a \in Nat /\ batch * n <= a /\ a < batch * n + n
    BY <1>2
  <2> HIDE DEF a
  <2>2. a \div n = batch
    BY <1>1, <2>1, DivUnique
  <2> QED BY <2>2 DEF a
<1> QED BY <1>3 DEF n

(* Who runs is in the batch. *)
LEMMA RunningFacts ==
    ASSUME IInv, NEW f, Running(f)
    PROVE  /\ f \in FileIDs
           /\ Threaded
           /\ f \in BatchStart + 1..next - 1
           /\ f \in BatchStart + 1..BatchEnd
           /\ at[f] \in Nat /\ Len(Source(f)) \in Nat
           /\ at[f] < Len(Source(f))
           /\ batch <= FullBatches
<1>1. f \in Range(container) /\ at[f] < Len(Source(f))
  BY DEF Running
<1>2. Threaded
  BY <1>1 DEF IInv, AloneInv, Range
<1> DEFINE b == BatchStart
<1>3. /\ prog \in Inputs /\ batch \in Nat /\ next \in 1..Length + 1 /\ Length \in Nat
      /\ next - 1 \in b..BatchEnd /\ b \in 0..Length /\ BatchEnd \in b..Length
      /\ container = [i \in 1..next - 1 - b |-> b + i]
      /\ batch > FullBatches => b = Length
  BY <1>2, BatchFacts, SourceFacts DEF IInv, TypeOK, BatchInv
<1> HIDE DEF b
<1>4. PICK i \in 1..next - 1 - b : f = b + i
  BY <1>1, <1>3 DEF Range
<1>5. f \in b + 1..next - 1 /\ f \in b + 1..BatchEnd /\ f \in 1..Length
  BY <1>3, <1>4
<1>6. batch <= FullBatches
  <2>1. FullBatches \in Nat
    BY <1>2, <1>3, StartFacts
  <2> QED BY <1>3, <1>5, <2>1
<1> QED BY <1>1, <1>2, <1>3, <1>5, <1>6, SourceFacts DEF b, IInv, TypeOK

(* Who has declared a module was in the same batch as the others who did. *)
LEMMA RaceStep ==
    ASSUME IInv, [Next]_vars
    PROVE  RaceInv'
<1> DEFINE InBatch == \A f \in checked' : /\ f \in Start(batch') + 1..next' - 1
                                          /\ at'[f] = 0 /\ Len(Source(f)) > 0
                                          /\ Source(f)[1] = "module"
<1> DEFINE Firsts == \A f \in FileIDs : \A i \in 1..at'[f] :
                        Source(f)[i] = "module" => i = 1 /\ declared'
<1> DEFINE Claims2(f) == f \in checked' \/ (at'[f] >= 1 /\ Source(f)[1] = "module")
<1> DEFINE Together == \A f, g \in FileIDs : Claims2(f) /\ Claims2(g) =>
              (f - 1) \div prog.nthreaded = (g - 1) \div prog.nthreaded
<1>0. prog' = prog
  BY FixedByNext
<1> SUFFICES ASSUME Threaded
             PROVE  InBatch /\ Firsts /\ Together
  <2>1. /\ Threaded' = Threaded /\ FileIDs' = FileIDs /\ (\A f : Source(f)' = Source(f))
        /\ BatchStart' = Start(batch')
    BY <1>0, Fixed DEF BatchStart, Start, FullBatches, Length
  <2>2. \A f : Claims(f)' = Claims2(f)
    BY <1>0 DEF Claims, Source
  <2> QED BY <1>0, <2>1, <2>2 DEF RaceInv
<1>1. /\ Length \in Nat /\ FileIDs = 1..Length /\ prog \in Inputs /\ batch \in Nat
      /\ \A f \in FileIDs : Len(Source(f)) \in Nat /\ at[f] \in Nat
      /\ at \in [FileIDs -> Nat] /\ next \in Nat /\ checked \subseteq FileIDs
      /\ BatchStart \in Nat /\ BatchEnd \in Nat /\ next - 1 \in BatchStart..BatchEnd
      /\ Start(batch) = BatchStart
  BY SourceFacts, BatchFacts DEF IInv, TypeOK, BatchInv, BatchStart
<1>2. /\ \A f \in checked : /\ f \in BatchStart + 1..next - 1
                            /\ at[f] = 0 /\ Len(Source(f)) > 0
                            /\ Source(f)[1] = "module"
      /\ \A f \in FileIDs : \A i \in 1..at[f] :
              Source(f)[i] = "module" => i = 1 /\ declared
      /\ \A f, g \in FileIDs : Claims(f) /\ Claims(g) =>
              (f - 1) \div prog.nthreaded = (g - 1) \div prog.nthreaded
  BY DEF IInv, RaceInv
<1>3. CASE UNCHANGED <<batch, next, checked, at, declared>>
  BY <1>1, <1>2, <1>3 DEF Claims
<1>4. CASE StartParser
  <2>1. UNCHANGED <<batch, checked, at, declared>> /\ next' \in {next, next + 1}
    BY <1>4 DEF StartParser
  <2>2. Start(batch') = BatchStart
    BY <1>1, <2>1
  <2>3. \A f : f \in BatchStart + 1..next - 1 => f \in BatchStart + 1..next' - 1
    <3>1. BatchStart \in Nat /\ next \in Nat /\ (next' = next \/ next' = next + 1)
      BY <1>1, <2>1
    <3>2. CASE next' = next
      BY <3>2
    <3>3. CASE next' = next + 1
      BY <3>1, <3>3
    <3> QED BY <3>1, <3>2, <3>3
  <2>4. InBatch
    BY <1>2, <2>1, <2>2, <2>3
  <2>5. Firsts /\ Together
    BY <1>2, <2>1 DEF Claims
  <2> QED BY <2>4, <2>5
<1>5. CASE Collect
  <2>1. UNCHANGED <<next, checked, at, declared>> /\ Joined /\ next > BatchEnd
    BY <1>5 DEF Collect
  <2>2. checked = {}
    <3> SUFFICES ASSUME NEW f \in checked PROVE FALSE
      OBVIOUS
    <3>1. f \in BatchStart + 1..next - 1 /\ at[f] = 0 /\ Len(Source(f)) > 0
      BY <1>2
    <3>2. next - 1 = BatchEnd /\ \A g \in 1..BatchEnd : at[g] = Len(Source(g))
      BY <1>5, FoundFacts
    <3>3. f \in 1..BatchEnd
      BY <1>1, <3>1, <3>2
    <3> QED BY <3>1, <3>2, <3>3
  <2>3. InBatch
    BY <2>1, <2>2
  <2>4. Firsts /\ Together
    BY <1>2, <2>1 DEF Claims
  <2> QED BY <2>3, <2>4
<1>6. ASSUME NEW f \in FileIDs, ParseNode(f)
      PROVE  InBatch /\ Firsts /\ Together
  <2>1. /\ NextKind(f) # "module" /\ at' = [at EXCEPT ![f] = @ + 1]
        /\ UNCHANGED <<batch, next, checked, declared>>
    BY <1>6 DEF ParseNode, Parsing
  <2>2. at'[f] = at[f] + 1 /\ \A g \in FileIDs : g # f => at'[g] = at[g]
    BY <1>1, <2>1
  <2>3. Source(f)[at[f] + 1] # "module"
    BY <2>1 DEF NextKind
  <2>4. f \notin checked
    BY <1>2, <2>3
  <2>5. InBatch
    BY <1>1, <1>2, <2>1, <2>2, <2>4
  <2>6. Firsts
    <3> SUFFICES ASSUME NEW g \in FileIDs, NEW i \in 1..at'[g], Source(g)[i] = "module"
                 PROVE  i = 1 /\ declared
      BY <2>1
    <3>1. CASE g # f
      BY <1>2, <2>2, <3>1
    <3>2. CASE g = f
      <4>1. i \in 1..at[f] + 1 /\ at[f] \in Nat /\ i # at[f] + 1
        BY <1>1, <2>2, <2>3, <3>2
      <4>2. i \in 1..at[f]
        BY <4>1
      <4> QED BY <1>2, <3>2, <4>2
    <3> QED BY <3>1, <3>2
  <2>7. \A g \in FileIDs : Claims2(g) => Claims(g)
    <3> SUFFICES ASSUME NEW g \in FileIDs, at'[g] >= 1, Source(g)[1] = "module"
                 PROVE  at[g] >= 1
      BY <2>1 DEF Claims
    <3>1. CASE g # f
      BY <2>2, <3>1
    <3>2. CASE g = f
      <4>1. at[f] \in Nat /\ at[f] # 0
        <5>1. at[f] = 0 => at[f] + 1 = 1
          OBVIOUS
        <5> QED BY <1>1, <2>3, <3>2, <5>1
      <4> QED BY <3>2, <4>1
    <3> QED BY <3>1, <3>2
  <2>8. Together
    BY <1>2, <2>7
  <2> QED BY <2>5, <2>6, <2>8
<1>7. ASSUME NEW f \in FileIDs, ModuleCheck(f), phase' = phase
      PROVE  InBatch /\ Firsts /\ Together
  <2>1. /\ NextKind(f) = "module" /\ ~declared /\ at[f] = 0
        /\ checked' = checked \cup {f} /\ UNCHANGED <<batch, next, at, declared>>
        /\ Running(f)
    <3>1. /\ Parsing(f) /\ NextKind(f) = "module" /\ UNCHANGED <<at, declared>>
          /\ IF MayDeclare(at[f])
             THEN checked' = checked \cup {f} /\ UNCHANGED phase
             ELSE phase' = "error" /\ UNCHANGED checked
      BY <1>7 DEF ModuleCheck
    <3>2. MayDeclare(at[f])
      BY <1>7, <3>1 DEF Parsing
    <3> QED BY <3>1, <3>2 DEF Parsing, MayDeclare
  <2>2. /\ f \in BatchStart + 1..next - 1 /\ f \in BatchStart + 1..BatchEnd
        /\ Len(Source(f)) > 0 /\ batch <= FullBatches
    BY <1>1, <2>1, RunningFacts
  <2>3. Source(f)[1] = "module"
    BY <2>1 DEF NextKind
  <2>4. InBatch
    BY <1>1, <1>2, <2>1, <2>2, <2>3
  <2>5. Firsts
    BY <1>2, <2>1
  <2>6. \A g \in FileIDs : Claims2(g) => g \in BatchStart + 1..BatchEnd
    <3> SUFFICES ASSUME NEW g \in FileIDs, Claims2(g)
                 PROVE  g \in BatchStart + 1..BatchEnd
      OBVIOUS
    <3>1. ~(at[g] >= 1 /\ Source(g)[1] = "module")
      BY <1>1, <1>2, <2>1
    <3>2. g \in checked'
      BY <2>1, <3>1
    <3> QED BY <1>1, <1>2, <2>1, <2>2, <3>2
  <2>7. \A g \in BatchStart + 1..BatchEnd : (g - 1) \div prog.nthreaded = batch
    BY <1>1, <2>2, SameBatch
  <2>8. Together
    BY <2>6, <2>7
  <2> QED BY <2>4, <2>5, <2>8
<1>8. ASSUME NEW f \in FileIDs, ModuleDeclare(f)
      PROVE  InBatch /\ Firsts /\ Together
  <2>1. /\ f \in checked /\ at' = [at EXCEPT ![f] = @ + 1]
        /\ checked' = checked \ {f} /\ declared' = TRUE
        /\ UNCHANGED <<batch, next>>
    BY <1>8 DEF ModuleDeclare, Parsing
  <2>2. at[f] = 0 /\ at'[f] = 1 /\ (\A g \in FileIDs : g # f => at'[g] = at[g])
    BY <1>1, <1>2, <2>1
  <2>3. InBatch
    BY <1>1, <1>2, <2>1, <2>2
  <2>4. Firsts
    BY <1>1, <1>2, <2>1, <2>2
  <2>5. \A g \in FileIDs : Claims2(g) => Claims(g)
    BY <1>1, <2>1, <2>2 DEF Claims
  <2>6. Together
    BY <1>2, <2>5
  <2> QED BY <2>3, <2>4, <2>6
<1>9. CASE NoFiles \/ Over \/ UNCHANGED vars
  BY <1>3, <1>9 DEF NoFiles, Over, vars
<1>10. ASSUME NEW f \in FileIDs, SyntaxError(f) \/ (ModuleCheck(f) /\ phase' # phase)
       PROVE  InBatch /\ Firsts /\ Together
  <2>1. UNCHANGED <<batch, next, checked, at, declared>>
    BY <1>10 DEF SyntaxError, ModuleCheck, Parsing
  <2> QED BY <1>3, <2>1
<1>11. ASSUME NEW f \in FileIDs
       PROVE  ~ParseAlone(f) /\ ~FailAlone(f) /\ ~FileAlone(f)
  BY DEF ParseAlone, FailAlone, FileAlone, Alone
<1> HIDE DEF InBatch, Firsts, Together
<1>12. CASE \E f \in FileIDs :
          \/ ParseNode(f) \/ SyntaxError(f) \/ ModuleCheck(f) \/ ModuleDeclare(f)
          \/ ParseAlone(f) \/ FailAlone(f) \/ FileAlone(f)
  BY <1>6, <1>7, <1>8, <1>10, <1>11, <1>12
<1> QED BY <1>4, <1>5, <1>9, <1>12 DEF Next

(* Without threads, only the first of all nodes declares a module. *)
LEMMA FirstStep ==
    ASSUME IInv, [Next]_vars
    PROVE  FirstInv'
<1>0. prog' = prog /\ (\A n : Kind(n)' = Kind(n)) /\ ast \in Seq(Node)
  BY FixedByNext, Fixed DEF IInv, TypeOK
<1> DEFINE Good(s) == \A k \in 1..Len(s) : Kind(s[k]) = "module" => k = 1 /\ s[1][2] = 1
<1> SUFFICES ASSUME ~Threaded
             PROVE  Good(ast')
  <2>1. Threaded' = Threaded
    BY <1>0, Fixed
  <2>2. \A k : Kind(ast[k])' = Kind(ast'[k])
    BY <1>0 DEF Kind, Source
  <2> QED BY <2>1, <2>2 DEF FirstInv
<1>1. Good(ast)
  BY DEF IInv, FirstInv
<1>2. CASE ast' = ast
  BY <1>1, <1>2
<1>3. ASSUME NEW f \in FileIDs, ParseAlone(f)
      PROVE  Good(ast')
  <2> DEFINE x == <<f, at[f] + 1>>
  <2>1. /\ ast' = Append(ast, x)
        /\ NextKind(f) = "module" => MayDeclare(Len(ast))
        /\ f = next
    BY <1>3 DEF ParseAlone, Alone
  <2>2. x \in Node /\ at[f] \in Nat /\ at[f] <= Len(Source(f)) /\ f <= Length /\ f - 1 \in 0..Length
    BY SourceFacts DEF Node, IInv, TypeOK
  <2>3. Kind(x) = NextKind(f)
    BY DEF Kind, NextKind
  <2>4. ASSUME Len(ast) = 0 PROVE x[2] = 1
    <3>1. ParsedOf(f, at[f]) = Upto(f - 1) \o SubSeq(NodesOf(f), 1, at[f])
      BY <2>2, ParsedFacts
    <3>2. ast = ParsedOf(f, at[f])
      BY <2>1 DEF IInv, AloneInv
    <3>3. Upto(f - 1) \in Seq(Node)
      BY <2>2, UptoFacts DEF IInv, TypeOK
    <3>4. /\ SubSeq(NodesOf(f), 1, at[f]) \in Seq(Node)
          /\ Len(SubSeq(NodesOf(f), 1, at[f])) = at[f]
      BY <2>2, FirstNodes, SourceFacts DEF IInv, TypeOK
    <3>5. Len(ast) = Len(Upto(f - 1)) + at[f] /\ Len(Upto(f - 1)) \in Nat
      <4> DEFINE u == Upto(f - 1)
      <4> DEFINE t == SubSeq(NodesOf(f), 1, at[f])
      <4> HIDE DEF u, t
      <4>1. Len(u \o t) = Len(u) + Len(t) /\ Len(u) \in Nat
        BY <3>3, <3>4, ConcatProperties DEF u, t
      <4> QED BY <3>1, <3>2, <3>4, <4>1 DEF u, t
    <3>6. at[f] = 0
      BY <2>2, <2>4, <3>5
    <3> QED BY <3>6
  <2> HIDE DEF x
  <2>5. /\ Len(Append(ast, x)) = Len(ast) + 1 /\ Append(ast, x)[Len(ast) + 1] = x
        /\ \A k \in 1..Len(ast) : Append(ast, x)[k] = ast[k]
        /\ Len(ast) \in Nat
    BY <1>0, <2>2, AppendProperties
  <2> SUFFICES ASSUME NEW k \in 1..Len(ast) + 1, Kind(Append(ast, x)[k]) = "module"
               PROVE  k = 1 /\ Append(ast, x)[1][2] = 1
    BY <2>1, <2>5
  <2>6. CASE k \in 1..Len(ast)
    <3>1. k = 1 /\ ast[1][2] = 1 /\ 1 \in 1..Len(ast)
      BY <1>1, <2>5, <2>6
    <3> QED BY <2>5, <3>1
  <2>7. CASE k = Len(ast) + 1
    <3>1. NextKind(f) = "module"
      BY <2>3, <2>5, <2>7
    <3>2. Len(ast) = 0
      BY <2>1, <3>1 DEF MayDeclare
    <3> QED BY <2>4, <2>5, <2>7, <3>2
  <2> QED BY <2>5, <2>6, <2>7
<1>4. ~StartParser /\ ~Collect
  BY DEF StartParser, Collect
<1>5. CASE NoFiles \/ Over \/ UNCHANGED vars
  BY <1>2, <1>5 DEF NoFiles, Over, vars
<1> HIDE DEF Good
<1>6. CASE \E f \in FileIDs :
          \/ ParseNode(f) \/ SyntaxError(f) \/ ModuleCheck(f) \/ ModuleDeclare(f)
          \/ FailAlone(f) \/ FileAlone(f)
  BY <1>2, <1>6 DEF ParseNode, SyntaxError, ModuleCheck, ModuleDeclare, Parsing,
                    FailAlone, FileAlone
<1> QED BY <1>3, <1>4, <1>5, <1>6 DEF Next

(* It holds of the beginning. *)
LEMMA InitInductive == Init => IInv
<1> SUFFICES ASSUME Init PROVE IInv
  OBVIOUS
<1>1. /\ prog \in Inputs /\ phase = "starting" /\ batch = 0 /\ next = 1 /\ container = <<>>
      /\ at = [f \in FileIDs |-> 0] /\ checked = {} /\ declared = FALSE
      /\ ast = <<>> /\ structs = <<>>
  BY DEF Init
<1>2. /\ Length \in Nat /\ FileIDs = 1..Length /\ prog.nthreaded \in Nat
      /\ \A f \in FileIDs : Len(Source(f)) \in Nat
  BY <1>1, SourceFacts
<1>3. Len(ast) = 0 /\ <<>> \in Seq(FileIDs) /\ <<>> \in Seq(Node)
  BY <1>1, EmptySeq
<1>4. TypeOK
  <2>1. at \in [FileIDs -> Nat] /\ \A f \in FileIDs : at[f] <= Len(Source(f))
    BY <1>1, <1>2
  <2>2. next \in 1..Length + 1 /\ batch \in Nat /\ checked \subseteq FileIDs
    BY <1>1, <1>2
  <2>3. container \in Seq(FileIDs) /\ ast \in Seq(Node)
    BY <1>1, <1>3
  <2> QED BY <1>1, <2>1, <2>2, <2>3 DEF TypeOK
<1>5. Upto(0) = <<>>
  BY <1>1, <1>2, UptoFacts
<1>6. BatchInv
  <2> SUFFICES ASSUME Threaded PROVE BatchInv
    BY DEF BatchInv
  <2>1. /\ FullBatches \in Nat /\ 0 <= FullBatches
        /\ Start(0) = 0 * prog.nthreaded /\ BatchStart = Start(0)
    BY <1>1, StartFacts DEF BatchStart
  <2>2. BatchStart = 0
    BY <1>2, <2>1
  <2>3. BatchEnd \in BatchStart..Length
    BY <1>1, BatchFacts
  <2>4. next - 1 \in BatchStart..BatchEnd /\ next - 1 - BatchStart = 0
    BY <1>1, <1>2, <2>2, <2>3
  <2>5. container = [i \in 1..next - 1 - BatchStart |-> BatchStart + i]
    BY <1>1, <2>4
  <2> QED BY <1>1, <1>5, <2>1, <2>2, <2>4, <2>5 DEF BatchInv
<1>7. AloneInv
  <2>1. ast = ParsedOf(1, at[1])
    <3>1. CASE 1 <= Length
      <4>1. at[1] = 0 /\ 1 \in FileIDs /\ 0 \in 0..Len(Source(1)) /\ 1 - 1 = 0
        BY <1>1, <1>2, <3>1
      <4>2. SubSeq(NodesOf(1), 1, 0) = <<>>
        BY <1>1, <4>1, FirstNodes
      <4>3. <<>> \o <<>> = <<>>
        BY <1>3, ConcatEmptySeq
      <4> QED BY <1>1, <1>5, <3>1, <4>1, <4>2, <4>3, ParsedFacts
    <3>2. CASE ~(1 <= Length)
      <4>1. Length = 0
        BY <1>2, <3>2
      <4> QED BY <1>1, <1>5, <3>2, <4>1, ParsedFacts
    <3> QED BY <3>1, <3>2
  <2> QED BY <1>1, <2>1 DEF AloneInv
<1>8. StructsInv
  BY <1>1, StructsEmpty DEF StructsInv
<1>9. RaceInv
  BY <1>1, <1>2 DEF RaceInv, Claims
<1>10. FirstInv
  BY <1>3 DEF FirstInv
<1> QED BY <1>4, <1>6, <1>7, <1>8, <1>9, <1>10 DEF IInv

(* The stage's invariant. *)
THEOREM ParseStageInductive == Spec => []IInv
<1>1. IInv /\ [Next]_vars => IInv'
  BY TypeStep, BatchStep, AloneStep, StructsStep, RaceStep, FirstStep DEF IInv
<1> QED BY InitInductive, <1>1, PTL DEF Spec

(* parserContainer holds no more parsers than were reserved. *)
THEOREM ParsersStable == Spec => []StableParsers
<1>1. IInv => StableParsers
  <2> SUFFICES ASSUME IInv PROVE Len(container) <= prog.nthreaded
    BY DEF StableParsers
  <2>1. prog \in Inputs /\ batch \in Nat /\ prog.nthreaded \in Nat /\ Length \in Nat
    BY SourceFacts DEF IInv, TypeOK
  <2>2. CASE ~Threaded
    <3>1. Len(container) = 0
      BY <2>2, EmptySeq DEF IInv, AloneInv
    <3> QED BY <2>1, <3>1
  <2>3. CASE Threaded
    <3> DEFINE b == BatchStart
    <3> DEFINE e == BatchEnd
    <3>1. /\ container = [i \in 1..next - 1 - b |-> b + i]
          /\ next - 1 \in b..e /\ b \in 0..Length /\ e \in b..Length
          /\ batch > FullBatches => b = Length
          /\ batch <= FullBatches => e <= b + prog.nthreaded
          /\ next \in 1..Length + 1 /\ FullBatches \in Nat
      BY <2>1, <2>3, BatchFacts, StartFacts DEF IInv, TypeOK, BatchInv
    <3> HIDE DEF b, e
    <3>2. e <= b + prog.nthreaded
      BY <2>1, <3>1
    <3>3. next - 1 - b \in Nat /\ next - 1 - b <= prog.nthreaded
      BY <2>1, <3>1, <3>2
    <3>4. Len(container) = next - 1 - b
      BY <3>1, <3>3
    <3> QED BY <3>3, <3>4
  <2> QED BY <2>2, <2>3
<1> QED BY ParseStageInductive, <1>1, PTL

(* All nodes are those of the files up to the last. *)
LEMMA AllIsUpto == AllNodes = Upto(Length)
BY DEF AllNodes, Upto, Pieces, FileIDs

(* The nodes of the files up to k are the beginning of all. *)
LEMMA UptoIsPrefix ==
    ASSUME prog \in Inputs, NEW k \in 0..Length
    PROVE  \E rest \in Seq(Node) : AllNodes = Upto(k) \o rest
<1>1. Length \in k..Length
  BY SourceFacts
<1> QED BY <1>1, UptoSplit, AllIsUpto

(* The AST of a state is the beginning of all nodes. *)
LEMMA AstIsPrefix ==
    ASSUME IInv
    PROVE  IsPrefix(ast, AllNodes) /\ (phase = "parsed" => ast = AllNodes)
<1>1. /\ prog \in Inputs /\ batch \in Nat /\ Length \in Nat /\ FileIDs = 1..Length
      /\ next \in 1..Length + 1 /\ ast \in Seq(Node)
      /\ at \in [FileIDs -> Nat] /\ \A f \in FileIDs : at[f] <= Len(Source(f))
  BY SourceFacts DEF IInv, TypeOK
<1>2. CASE Threaded
  <2>1. /\ BatchStart \in 0..Length /\ ast = Upto(BatchStart)
        /\ phase = "parsed" => BatchStart = Length
    BY <1>1, <1>2, BatchFacts DEF IInv, BatchInv
  <2>2. PICK rest \in Seq(Node) : AllNodes = ast \o rest
    BY <1>1, <2>1, UptoIsPrefix
  <2> QED BY <1>1, <2>1, <2>2, ConcatIsPrefix, AllIsUpto
<1>3. CASE ~Threaded
  <2>1. ast = ParsedOf(next, at[next]) /\ (phase = "parsed" => next = Length + 1)
    BY <1>3 DEF IInv, AloneInv
  <2>2. CASE ~(next <= Length)
    <3>1. ast = AllNodes
      BY <2>1, <2>2, ParsedFacts, AllIsUpto
    <3>2. <<>> \in Seq(Node) /\ ast \o <<>> = ast
      BY <1>1, EmptySeq, ConcatEmptySeq
    <3>3. IsPrefix(ast, ast \o <<>>)
      BY <1>1, <3>2, ConcatIsPrefix
    <3> QED BY <3>1, <3>2, <3>3
  <2>3. CASE next <= Length
    <3>1. /\ next \in FileIDs /\ at[next] \in 0..Len(Source(next))
          /\ next - 1 \in 0..Length /\ next - 1 < Length /\ (next - 1) + 1 = next
          /\ next \in 0..Length /\ phase # "parsed"
      BY <1>1, <2>1, <2>3, SourceFacts
    <3>2. ast = Upto(next - 1) \o SubSeq(NodesOf(next), 1, at[next])
      BY <2>1, <2>3, ParsedFacts
    <3>3. PICK r \in Seq(Node) : NodesOf(next) = SubSeq(NodesOf(next), 1, at[next]) \o r
      BY <1>1, <3>1, FirstNodes
    <3>4. SubSeq(NodesOf(next), 1, at[next]) \in Seq(Node) /\ Upto(next - 1) \in Seq(Node)
      BY <1>1, <3>1, FirstNodes, UptoFacts
    <3>5. Upto((next - 1) + 1) = Upto(next - 1) \o NodesOf((next - 1) + 1)
      BY <1>1, <3>1, UptoFacts
    <3>6. PICK rest \in Seq(Node) : AllNodes = Upto(next) \o rest
      BY <1>1, <3>1, UptoIsPrefix
    <3> DEFINE u == Upto(next - 1)
    <3> DEFINE s == SubSeq(NodesOf(next), 1, at[next])
    <3>7. /\ ast = u \o s /\ AllNodes = (u \o (s \o r)) \o rest
          /\ u \in Seq(Node) /\ s \in Seq(Node) /\ r \in Seq(Node) /\ rest \in Seq(Node)
      <4>1. Upto(next) = u \o NodesOf(next)
        BY <3>1, <3>5
      <4>2. Upto(next) = u \o (s \o r)
        BY <3>3, <4>1
      <4> QED BY <3>2, <3>3, <3>4, <3>6, <4>2
    <3> HIDE DEF u, s
    <3>8. u \o (s \o r) = (u \o s) \o r /\ u \o s \in Seq(Node)
      BY <3>7, ConcatAssociative, ConcatProperties
    <3>9. ((u \o s) \o r) \o rest = (u \o s) \o (r \o rest) /\ r \o rest \in Seq(Node)
      BY <3>7, <3>8, ConcatAssociative, ConcatProperties
    <3>10. IsPrefix(u \o s, (u \o s) \o (r \o rest))
      BY <3>8, <3>9, ConcatIsPrefix
    <3>11. AllNodes = (u \o s) \o (r \o rest)
      BY <3>7, <3>8, <3>9
    <3> QED BY <3>1, <3>7, <3>10, <3>11
  <2> QED BY <2>2, <2>3
<1> QED BY <1>2, <1>3

(* Threads do not change what is compiled. *)
THEOREM ParsedInOrder == Spec => []InOrder
<1>1. IInv => InOrder
  BY AstIsPrefix DEF InOrder, IInv, StructsInv
<1> QED BY ParseStageInductive, <1>1, PTL

(* Which modules an accepted program declares. *)
THEOREM ModulesAreChecked == Spec => []ModulesChecked
<1>1. IInv => ModulesChecked
  <2> SUFFICES ASSUME IInv, phase = "parsed", NEW m \in Declarations, NEW n \in Declarations
               PROVE  /\ m[2] = 1
                      /\ m # n => /\ Threaded
                                  /\ (m[1] - 1) \div prog.nthreaded
                                         = (n[1] - 1) \div prog.nthreaded
    BY DEF ModulesChecked
  <2>1. /\ prog \in Inputs /\ batch \in Nat /\ ast \in Seq(Node) /\ Length \in Nat
        /\ FileIDs = 1..Length
    BY SourceFacts DEF IInv, TypeOK
  <2>2. Kind(m) = "module" /\ Kind(n) = "module" /\ m \in Range(ast) /\ n \in Range(ast)
    BY DEF Declarations
  <2>3. PICK j \in 1..Len(ast), k \in 1..Len(ast) : m = ast[j] /\ n = ast[k]
    BY <2>1, <2>2 DEF Range
  <2>4. CASE ~Threaded
    <3>1. j = 1 /\ k = 1 /\ ast[1][2] = 1
      BY <2>2, <2>3, <2>4 DEF IInv, FirstInv
    <3> QED BY <2>3, <3>1
  <2>5. CASE Threaded
    <3>1. ast = Upto(BatchStart) /\ BatchStart \in 0..Length
      BY <2>1, <2>5, BatchFacts DEF IInv, BatchInv
    <3>2. \A l \in 1..Len(ast) :
            \E f \in 1..BatchStart : \E i \in 1..Len(Source(f)) : ast[l] = <<f, i>>
      <4>1. \A l \in 1..Len(Upto(BatchStart)) :
              \E f \in 1..BatchStart : \E i \in 1..Len(Source(f)) :
                 Upto(BatchStart)[l] = <<f, i>>
        <5> DEFINE b == BatchStart
        <5>1. prog \in Inputs /\ b \in 0..Length
          BY <2>1, <3>1
        <5> HIDE DEF b
        <5>2. \A l \in 1..Len(Upto(b)) :
                \E f \in 1..b : \E i \in 1..Len(Source(f)) : Upto(b)[l] = <<f, i>>
          BY <5>1, UptoNodes
        <5> QED BY <5>2 DEF b
      <4> QED BY <3>1, <4>1
    <3>3. PICK f \in 1..BatchStart : \E i \in 1..Len(Source(f)) : m = <<f, i>>
      BY <2>3, <3>2
    <3>3a. PICK i \in 1..Len(Source(f)) : m = <<f, i>>
      BY <3>3
    <3>4. PICK g \in 1..BatchStart : \E h \in 1..Len(Source(g)) : n = <<g, h>>
      BY <2>3, <3>2
    <3>4a. PICK h \in 1..Len(Source(g)) : n = <<g, h>>
      BY <3>4
    <3>5. f \in FileIDs /\ g \in FileIDs /\ at[f] = Len(Source(f)) /\ at[g] = Len(Source(g))
      BY <2>1, <2>5, <3>1 DEF IInv, BatchInv
    <3>6. Source(f)[i] = "module" /\ Source(g)[h] = "module"
      BY <2>2, <3>3a, <3>4a DEF Kind
    <3>7. i = 1 /\ h = 1
      BY <2>5, <3>5, <3>6 DEF IInv, RaceInv
    <3>8. Claims(f) /\ Claims(g)
      BY <2>1, <3>5, <3>6, <3>7, SourceFacts DEF Claims
    <3>9. (f - 1) \div prog.nthreaded = (g - 1) \div prog.nthreaded
      BY <2>5, <3>5, <3>8 DEF IInv, RaceInv
    <3> QED BY <2>5, <3>3a, <3>4a, <3>7, <3>9
  <2> QED BY <2>4, <2>5
<1> QED BY ParseStageInductive, <1>1, PTL
=============================================================================
