--------------------------- MODULE TaskQueueProofs ---------------------------
(***************************************************************************)
(* Proofs about TaskQueue, for every set of cells: the invariant           *)
(* NoLeakNoDangling holds and the list implements TaskFifo.                *)
(*                                                                         *)
(* The argument: the links of the list spell a sequence of different cells *)
(* (Spells); en() appends to it, de() takes its head away, and the rounds  *)
(* of clear() enumerate it, so that FromTail is that sequence.             *)
(***************************************************************************)
EXTENDS TaskQueue, TLAPS, FiniteSetTheorems, SequenceFacts

(* The links of r spell the sequence s, the oldest task first. *)
Spells(r, s) ==
    /\ r \in Queues
    /\ s \in Seq(Cells)
    /\ r.len = Len(s)
    /\ \A i, j \in 1..Len(s) : s[i] = s[j] => i = j
    /\ r.tail = IF s = <<>> THEN Null ELSE s[1]
    /\ r.head = IF s = <<>> THEN Null ELSE s[Len(s)]
    /\ \A i \in 1..Len(s) :
          /\ r.prev[s[i]] = IF i = Len(s) THEN Null ELSE s[i + 1]
          /\ r.next[s[i]] = IF i = 1 THEN Null ELSE s[i - 1]

N == Cardinality(Cells)

(* There are finitely many cells and Null is none. *)
LEMMA CellFacts == N \in Nat /\ Null \notin Cells /\ IsFiniteSet(Cells)
BY TaskQueueAssumption, FS_CardinalityType DEF N

(* Different cells in a row: not more than there are. *)
LEMMA InjectiveLength ==
    ASSUME NEW s \in Seq(Cells), \A i, j \in 1..Len(s) : s[i] = s[j] => i = j
    PROVE  Len(s) <= N
<1>1. s \in Injection(1..Len(s), Cells)
  BY DEF Injection, IsInjective
<1>2. Cardinality(1..Len(s)) <= Cardinality(Cells)
  BY <1>1, CellFacts, FS_Injection
<1> QED BY <1>2, FS_Interval DEF N

(* en() of a cell that is not in the list appends it. *)
LEMMA EnAppends ==
    ASSUME NEW s, Spells(q, s), NEW c \in Cells, \A i \in 1..Len(s) : s[i] # c
    PROVE  Spells(Linked(c), Append(s, c))
<1> DEFINE t == Append(s, c)
<1> DEFINE r == Linked(c)
<1>1. /\ s \in Seq(Cells) /\ Len(s) \in Nat
      /\ t \in Seq(Cells) /\ Len(t) = Len(s) + 1 /\ t # <<>>
      /\ \A i \in 1..Len(s) : t[i] = s[i] /\ s[i] \in Cells
      /\ t[Len(s) + 1] = c
  BY AppendProperties DEF Spells
<1>2. \A i, j \in 1..Len(s) : s[i] = s[j] => i = j
  BY DEF Spells
<1>3. \A i \in 1..Len(t) : i = Len(s) + 1 \/ i \in 1..Len(s)
  BY <1>1
<1>4. r = [head |-> c,
           tail |-> IF q.head = Null THEN c ELSE q.tail,
           len  |-> q.len + 1,
           prev |-> [d \in Cells |-> IF d = c THEN Null ELSE IF d = q.head THEN c ELSE q.prev[d]],
           next |-> [q.next EXCEPT ![c] = q.head]]
  <2> DEFINE p == [d \in Cells |-> IF d = c THEN Null ELSE IF d = q.head THEN c ELSE q.prev[d]]
  <2> DEFINE n == [q.next EXCEPT ![c] = q.head]
  <2> DEFINE l == IF q.head = Null THEN c ELSE q.tail
  <2>1. q \in Queues
    BY DEF Spells
  <2>2. r = [q EXCEPT !.head = c, !.tail = l, !.prev = p, !.next = n, !.len = q.len + 1]
    BY <2>1 DEF Linked, Queues
  <2> HIDE DEF p, n, l, r
  <2>3. r = [head |-> c, tail |-> l, len |-> q.len + 1, prev |-> p, next |-> n]
    BY <2>1, <2>2 DEF Queues
  <2> QED BY <2>3 DEF p, n, l
<1> HIDE DEF t, r
<1>5. \A i, j \in 1..Len(t) : t[i] = t[j] => i = j
  BY <1>1, <1>2, <1>3
<1>6. Len(t) <= N
  BY <1>1, <1>5, InjectiveLength
<1>7. r \in Queues
  <2>1. /\ q.head \in Links /\ q.tail \in Links /\ q.len \in 0..N
        /\ q.prev \in [Cells -> Links] /\ q.next \in [Cells -> Links]
    BY DEF Spells, Queues, N
  <2>2. q.len + 1 \in 0..N
    BY <1>1, <1>6, <2>1 DEF Spells
  <2> QED BY <1>4, <2>1, <2>2 DEF Queues, N, Links
<1>8. s = <<>> <=> q.head = Null
  BY <1>1, CellFacts DEF Spells
<1>9. r.tail = t[1] /\ r.head = t[Len(t)] /\ r.len = Len(t)
  BY <1>1, <1>4, <1>8 DEF Spells
<1>10. ASSUME NEW i \in 1..Len(t)
       PROVE  /\ r.prev[t[i]] = IF i = Len(t) THEN Null ELSE t[i + 1]
              /\ r.next[t[i]] = IF i = 1 THEN Null ELSE t[i - 1]
  <2>1. CASE i = Len(t)
    BY <1>1, <1>4, <1>8, <2>1 DEF Spells, Queues
  <2>2. CASE i # Len(t)
    BY <1>1, <1>4, <1>8, <2>2 DEF Spells, Queues
  <2> QED BY <2>1, <2>2
<1>11. Spells(r, t)
  BY <1>1, <1>5, <1>7, <1>9, <1>10 DEF Spells
<1> QED BY <1>11 DEF r, t

(* de() takes the head of the sequence away. *)
LEMMA DeTakesHead ==
    ASSUME NEW r, NEW s, Spells(r, s), s # <<>>
    PROVE  Spells(Unlinked(r), Tail(s)) /\ r.tail = Head(s) /\ r.tail \in Cells
<1> DEFINE t == Tail(s)
<1> DEFINE u == Unlinked(r)
<1> DEFINE p == r.prev[r.tail]
<1>1. /\ s \in Seq(Cells) /\ Len(s) \in Nat /\ Len(s) >= 1
      /\ t \in Seq(Cells) /\ Len(t) = Len(s) - 1
      /\ \A i \in 1..Len(t) : t[i] = s[i + 1]
      /\ \A i \in 1..Len(s) : s[i] \in Cells
      /\ Head(s) = s[1]
  BY HeadTailProperties DEF Spells
<1>2. /\ r.tail = s[1] /\ r.head = s[Len(s)] /\ r.len = Len(s)
      /\ \A i, j \in 1..Len(s) : s[i] = s[j] => i = j
      /\ \A i \in 1..Len(s) :
            /\ r.prev[s[i]] = IF i = Len(s) THEN Null ELSE s[i + 1]
            /\ r.next[s[i]] = IF i = 1 THEN Null ELSE s[i - 1]
  BY DEF Spells
<1>3. r.tail # Null /\ r.tail \in Cells /\ p = IF Len(s) = 1 THEN Null ELSE s[2]
  <2>1. 1 \in 1..Len(s)
    BY <1>1
  <2>2. p = r.prev[s[1]] /\ r.prev[s[1]] = IF 1 = Len(s) THEN Null ELSE s[1 + 1]
    BY <1>2, <2>1
  <2> HIDE DEF t, u, p
  <2>3. s[1] \in Cells
    BY <1>1, <2>1
  <2> QED BY <1>2, <2>2, <2>3, CellFacts
<1>4. u = [head |-> IF p = Null THEN Null ELSE r.head,
           tail |-> p,
           len  |-> r.len - 1,
           prev |-> [r.prev EXCEPT ![r.tail] = Null],
           next |-> [c \in Cells |-> IF c \in {r.tail, p} THEN Null ELSE r.next[c]]]
  BY <1>3 DEF Spells, Queues, Unlinked
<1>5. /\ r.head \in Links /\ r.tail \in Links /\ r.len \in 0..N
      /\ r.prev \in [Cells -> Links] /\ r.next \in [Cells -> Links]
  BY DEF Spells, Queues, N
<1> HIDE DEF t, u, p
<1>6. Len(s) = 1 <=> t = <<>>
  <2>1. t = <<>> <=> Len(t) = 0
    BY <1>1
  <2> QED BY <1>1, <2>1
<1>7. \A i, j \in 1..Len(t) : t[i] = t[j] => i = j
  <2>1. \A i \in 1..Len(t) : i + 1 \in 1..Len(s)
    BY <1>1
  <2> QED BY <1>1, <1>2, <2>1
<1>8. p \in Links /\ (p = Null <=> t = <<>>)
  BY <1>1, <1>3, <1>6, CellFacts DEF Links
<1>9. u \in Queues
  <2>1. r.len - 1 \in 0..N
    BY <1>1, <1>2, <1>5, CellFacts
  <2> QED BY <1>3, <1>4, <1>5, <1>8, <2>1 DEF Queues, N, Links
<1>10. /\ u.len = Len(t)
       /\ u.tail = IF t = <<>> THEN Null ELSE t[1]
       /\ u.head = IF t = <<>> THEN Null ELSE t[Len(t)]
  BY <1>1, <1>2, <1>3, <1>4, <1>6, <1>8
<1>11. ASSUME NEW i \in 1..Len(t)
       PROVE  /\ u.prev[t[i]] = IF i = Len(t) THEN Null ELSE t[i + 1]
              /\ u.next[t[i]] = IF i = 1 THEN Null ELSE t[i - 1]
  <2>1. i + 1 \in 1..Len(s) /\ t[i] = s[i + 1] /\ t[i] \in Cells /\ t[i] # r.tail
    BY <1>1, <1>2
  <2>2. u.prev[t[i]] = r.prev[s[i + 1]]
    BY <1>4, <1>5, <2>1
  <2>3. u.prev[t[i]] = IF i = Len(t) THEN Null ELSE t[i + 1]
    <3>1. CASE i = Len(t)
      BY <1>1, <1>2, <2>1, <2>2, <3>1
    <3>2. CASE i # Len(t)
      <4>1. i + 1 \in 1..Len(t) /\ i + 1 # Len(s)
        BY <1>1, <3>2
      <4> QED BY <1>1, <1>2, <2>1, <2>2, <3>2, <4>1
    <3> QED BY <3>1, <3>2
  <2>4. i = 1 <=> t[i] = p
    BY <1>1, <1>3, <1>7, <2>1, CellFacts
  <2>5. u.next[t[i]] = IF i = 1 THEN Null ELSE r.next[s[i + 1]]
    BY <1>4, <2>1, <2>4
  <2>6. i # 1 => r.next[s[i + 1]] = t[i - 1]
    <3> SUFFICES ASSUME i # 1 PROVE r.next[s[i + 1]] = t[i - 1]
      OBVIOUS
    <3>1. i - 1 \in 1..Len(t) /\ i + 1 # 1 /\ (i + 1) - 1 = i /\ (i - 1) + 1 = i
      BY <1>1
    <3> QED BY <1>1, <1>2, <2>1, <3>1
  <2> QED BY <2>3, <2>5, <2>6
<1>12. Spells(u, t)
  BY <1>1, <1>7, <1>9, <1>10, <1>11 DEF Spells
<1> QED BY <1>1, <1>2, <1>3, <1>12 DEF u, t

-----------------------------------------------------------------------------
(* The rounds of clear(). *)

(* A function of the rounds up to m exists; it is built one round at a time. *)
RoundsOf(f, r, m) == f = [i \in 0..m |-> IF i = 0 THEN r ELSE Unlinked(f[i - 1])]

LEMMA RoundsExist ==
    ASSUME NEW r, NEW m \in Nat
    PROVE  \E f : RoundsOf(f, r, m)
<1> DEFINE S == {n \in Nat : \E f : RoundsOf(f, r, n)}
<1>1. 0 \in S
  <2>1. RoundsOf([i \in 0..0 |-> r], r, 0)
    BY DEF RoundsOf
  <2> QED BY <2>1
<1>2. ASSUME NEW n \in Nat, n \in S
      PROVE  n + 1 \in S
  <2>1. PICK f : RoundsOf(f, r, n)
    BY <1>2
  <2> DEFINE g == [i \in 0..n + 1 |-> IF i = n + 1 THEN Unlinked(f[n]) ELSE f[i]]
  <2>2. ASSUME NEW i \in 0..n + 1
        PROVE  g[i] = IF i = 0 THEN r ELSE Unlinked(g[i - 1])
    <3>1. CASE i = n + 1
      <4>1. g[i] = Unlinked(f[n]) /\ g[i - 1] = f[n] /\ i # 0
        BY <3>1
      <4> QED BY <4>1
    <3>2. CASE i # n + 1 /\ i # 0
      <4>1. i \in 0..n /\ i - 1 \in 0..n /\ g[i] = f[i] /\ g[i - 1] = f[i - 1]
        BY <3>2
      <4>2. f[i] = Unlinked(f[i - 1])
        BY <2>1, <3>2, <4>1 DEF RoundsOf
      <4> QED BY <3>2, <4>1, <4>2
    <3>3. CASE i = 0
      <4>1. i \in 0..n /\ g[i] = f[i]
        BY <3>3
      <4>2. f[i] = r
        BY <2>1, <3>3, <4>1 DEF RoundsOf
      <4> QED BY <3>3, <4>1, <4>2
    <3> QED BY <3>1, <3>2, <3>3
  <2>3. g = [i \in 0..n + 1 |-> IF i = 0 THEN r ELSE Unlinked(g[i - 1])]
    <3> DEFINE h == [i \in 0..n + 1 |-> IF i = 0 THEN r ELSE Unlinked(g[i - 1])]
    <3>1. \A i \in 0..n + 1 : g[i] = h[i]
      BY <2>2
    <3> QED BY <3>1
  <2>4. RoundsOf(g, r, n + 1)
    BY <2>3 DEF RoundsOf
  <2> QED BY <2>4
<1>3. Nat \subseteq S
  <2> HIDE DEF S
  <2> QED BY <1>1, <1>2, SetInduction
<1> QED BY <1>3

(* after is such a function. *)
LEMMA AfterRounds ==
    /\ after = [i \in 0..N |-> IF i = 0 THEN q ELSE Unlinked(after[i - 1])]
    /\ after' = [i \in 0..N |-> IF i = 0 THEN q' ELSE Unlinked(after'[i - 1])]
<1>1. \A r : \E f : f = [i \in 0..Cardinality(Cells) |-> IF i = 0 THEN r ELSE Unlinked(f[i - 1])]
  BY CellFacts, RoundsExist DEF RoundsOf, N
<1>2. after = [i \in 0..Cardinality(Cells) |-> IF i = 0 THEN q ELSE Unlinked(after[i - 1])]
  BY <1>1 DEF after
<1>3. after' = [i \in 0..Cardinality(Cells) |-> IF i = 0 THEN q' ELSE Unlinked(after'[i - 1])]
  BY <1>1 DEF after
<1> QED BY <1>2, <1>3 DEF N

(* Dropping the first i elements of a sequence. *)
Rest(s, i) == SubSeq(s, i + 1, Len(s))

LEMMA RestFacts ==
    ASSUME NEW s \in Seq(Cells), NEW i \in 0..Len(s)
    PROVE  /\ Rest(s, i) \in Seq(Cells)
           /\ Len(Rest(s, i)) = Len(s) - i
           /\ Rest(s, 0) = s
           /\ i = Len(s) => Rest(s, i) = <<>>
           /\ i < Len(s) => /\ Rest(s, i) # <<>>
                            /\ Head(Rest(s, i)) = s[i + 1]
                            /\ Tail(Rest(s, i)) = Rest(s, i + 1)
<1>1. Len(s) \in Nat
  OBVIOUS
<1>2. /\ Rest(s, i) \in Seq(Cells)
      /\ Len(Rest(s, i)) = Len(s) - i
      /\ i = Len(s) => Rest(s, i) = <<>>
  BY <1>1, SubSeqProperties, SubSeqEmpty DEF Rest
<1>3. Rest(s, 0) = s
  BY SubSeqFull DEF Rest
<1>4. i < Len(s) => /\ Rest(s, i) # <<>>
                    /\ Head(Rest(s, i)) = s[i + 1]
                    /\ Tail(Rest(s, i)) = Rest(s, i + 1)
  <2> SUFFICES ASSUME i < Len(s)
               PROVE  /\ Rest(s, i) # <<>>
                      /\ Head(Rest(s, i)) = s[i + 1]
                      /\ Tail(Rest(s, i)) = Rest(s, i + 1)
    OBVIOUS
  <2>1. i + 1 \in 1..Len(s) /\ Len(s) \in i + 1..Len(s) /\ i + 1 + 1 = (i + 1) + 1
    BY <1>1
  <2>2. /\ Head(SubSeq(s, i + 1, Len(s))) = s[i + 1]
        /\ Tail(SubSeq(s, i + 1, Len(s))) = SubSeq(s, (i + 1) + 1, Len(s))
    BY <2>1, HeadTailOfSubSeq
  <2>3. Len(Rest(s, i)) # 0
    BY <1>1, <1>2
  <2>4. Rest(s, i) # <<>>
    BY <2>3
  <2> QED BY <2>2, <2>4 DEF Rest
<1> QED BY <1>2, <1>3, <1>4

(* Round by round the list loses the head of what it spells, until it is   *)
(* empty and de() leaves it alone.                                         *)
LEMMA RoundsSpell ==
    ASSUME NEW r, NEW s, NEW f, Spells(r, s), RoundsOf(f, r, N)
    PROVE  /\ \A i \in 0..Len(s) : Spells(f[i], Rest(s, i))
           /\ \A i \in Len(s)..N : Spells(f[i], <<>>)
           /\ Len(s) \in 0..N
<1>1. /\ s \in Seq(Cells) /\ Len(s) \in Nat /\ Len(s) <= N /\ N \in Nat
      /\ \A i \in 0..N : f[i] = IF i = 0 THEN r ELSE Unlinked(f[i - 1])
  BY CellFacts, InjectiveLength DEF Spells, RoundsOf
<1> DEFINE P(i) == IF i <= Len(s) THEN Spells(f[i], Rest(s, i)) ELSE Spells(f[i], <<>>)
<1> DEFINE S == {i \in Nat : i <= N => P(i)}
<1>2. 0 \in S
  BY <1>1, RestFacts
<1>3. ASSUME NEW i \in Nat, i \in S
      PROVE  i + 1 \in S
  <2> SUFFICES ASSUME i + 1 <= N PROVE P(i + 1)
    OBVIOUS
  <2>1. i \in 0..N /\ i + 1 \in 0..N /\ P(i) /\ f[i + 1] = Unlinked(f[i])
    BY <1>1, <1>3
  <2>2. CASE i < Len(s)
    <3>1. i \in 0..Len(s) /\ i + 1 <= Len(s) /\ i <= Len(s)
      BY <1>1, <2>2
    <3>2. Spells(f[i], Rest(s, i)) /\ Rest(s, i) # <<>> /\ Tail(Rest(s, i)) = Rest(s, i + 1)
      BY <1>1, <2>1, <2>2, <3>1, RestFacts
    <3>3. Spells(Unlinked(f[i]), Rest(s, i + 1))
      <4>1. Spells(Unlinked(f[i]), Tail(Rest(s, i)))
        BY <3>2, DeTakesHead, Zenon
      <4> QED BY <3>2, <4>1, Zenon
    <3> QED BY <2>1, <3>1, <3>3
  <2>3. CASE ~(i < Len(s))
    <3>1. Spells(f[i], <<>>)
      <4>1. CASE i = Len(s)
        BY <1>1, <2>1, <4>1, RestFacts
      <4>2. CASE i # Len(s)
        BY <1>1, <2>1, <2>3, <4>2
      <4> QED BY <4>1, <4>2
    <3>2. f[i + 1] = f[i]
      BY <2>1, <3>1 DEF Spells, Unlinked
    <3>3. ~(i + 1 <= Len(s))
      BY <1>1, <2>3
    <3> QED BY <3>1, <3>2, <3>3
  <2> QED BY <2>2, <2>3
<1>4. Nat \subseteq S
  <2> HIDE DEF S
  <2> QED BY <1>2, <1>3, SetInduction
<1>5. \A i \in 0..N : P(i)
  BY <1>4
<1>6. \A i \in 0..Len(s) : Spells(f[i], Rest(s, i))
  BY <1>1, <1>5
<1>7. ASSUME NEW i \in Len(s)..N PROVE Spells(f[i], <<>>)
  <2>1. CASE i = Len(s)
    BY <1>1, <1>6, <2>1, RestFacts
  <2>2. CASE i # Len(s)
    <3>1. i \in 0..N /\ ~(i <= Len(s))
      BY <1>1, <2>2
    <3> QED BY <1>5, <3>1
  <2> QED BY <2>1, <2>2
<1> QED BY <1>1, <1>6, <1>7

(* So the tails met in the rounds are what the list spells, in its order,  *)
(* and then Null.                                                          *)
LEMMA TailsSpell ==
    ASSUME NEW r, NEW s, NEW f, Spells(r, s), RoundsOf(f, r, N)
    PROVE  /\ [i \in 1..r.len |-> f[i - 1].tail] = s
           /\ \A i \in 0..N - 1 : f[i].tail = IF i < Len(s) THEN s[i + 1] ELSE Null
<1>1. s \in Seq(Cells) /\ Len(s) \in Nat /\ r.len = Len(s) /\ Len(s) \in 0..N /\ N \in Nat
  BY CellFacts, RoundsSpell DEF Spells
<1>2. ASSUME NEW i \in 0..N - 1
      PROVE  f[i].tail = IF i < Len(s) THEN s[i + 1] ELSE Null
  <2>1. CASE i < Len(s)
    <3>1. i \in 0..Len(s)
      BY <1>1, <2>1
    <3>2. Spells(f[i], Rest(s, i)) /\ Rest(s, i) # <<>> /\ Head(Rest(s, i)) = s[i + 1]
      BY <1>1, <2>1, <3>1, RoundsSpell, RestFacts
    <3> QED BY <2>1, <3>2, DeTakesHead
  <2>2. CASE ~(i < Len(s))
    <3>1. i \in Len(s)..N
      BY <1>1, <2>2
    <3>2. Spells(f[i], <<>>)
      BY <3>1, RoundsSpell
    <3> QED BY <2>2, <3>2 DEF Spells
  <2> QED BY <2>1, <2>2
<1>3. ASSUME NEW i \in 1..Len(s)
      PROVE  f[i - 1].tail = s[i]
  <2>1. i - 1 \in 0..N - 1 /\ i - 1 < Len(s) /\ (i - 1) + 1 = i
    BY <1>1
  <2> QED BY <1>2, <2>1
<1>4. s = [i \in 1..Len(s) |-> s[i]]
  BY <1>1
<1> QED BY <1>1, <1>2, <1>3, <1>4

(* FromTail is the sequence the list spells, before and after a step. *)
LEMMA FromTailSpells ==
    ASSUME NEW s
    PROVE  /\ Spells(q, s) => FromTail = s
           /\ Spells(q', s) => FromTail' = s
<1>1. RoundsOf(after, q, N) /\ RoundsOf(after', q', N)
  BY AfterRounds DEF RoundsOf
<1>2. Spells(q, s) => FromTail = s
  BY <1>1, TailsSpell DEF FromTail
<1>3. Spells(q', s) => FromTail' = s
  BY <1>1, TailsSpell DEF FromTail
<1> QED BY <1>2, <1>3

-----------------------------------------------------------------------------
(* The inductive invariant: the links spell some sequence, and what is     *)
(* allocated is either in it or with a worker.                             *)

CellsOf(s) == {s[i] : i \in 1..Len(s)}

IInv ==
    \E s : /\ Spells(q, s)
           /\ TypeOK
           /\ CellsOf(s) \cup taken = heap
           /\ CellsOf(s) \cap taken = {}

(* An empty list spells the empty sequence. *)
LEMMA EmptySpells == Init => Spells(q, <<>>) /\ IInv
<1> SUFFICES ASSUME Init PROVE Spells(q, <<>>) /\ IInv
  OBVIOUS
<1>1. q \in Queues
  BY CellFacts DEF Init, Queues, Links, N
<1>2. Spells(q, <<>>)
  BY <1>1 DEF Init, Spells
<1>3. CellsOf(<<>>) = {}
  BY DEF CellsOf
<1> QED BY <1>1, <1>2, <1>3 DEF Init, IInv, TypeOK

(* What a step does to the sequence the list spells: en() appends to it,   *)
(* de() takes its head, clear() empties it, and freeing leaves it alone;   *)
(* in each case what is allocated is accounted for again.                  *)
Accounted(s) == TypeOK /\ CellsOf(s) \cup taken = heap /\ CellsOf(s) \cap taken = {}

LEMMA StepSpells ==
    ASSUME NEW s, Spells(q, s), Accounted(s), [Next]_vars
    PROVE  \E t : /\ Spells(q', t) /\ Accounted(t)'
                  /\ \/ t = s
                     \/ \E c \in Cells : t = Append(s, c)
                     \/ s # <<>> /\ t = Tail(s)
                     \/ t = <<>>
<1> USE DEF Accounted
<1>0. /\ s \in Seq(Cells) /\ Len(s) \in Nat
      /\ \A i \in 1..Len(s) : s[i] \in Cells
      /\ q \in Queues /\ heap \subseteq Cells /\ taken \subseteq heap
  BY DEF Spells, TypeOK
<1>1. ASSUME NEW c \in Cells, En(c)
      PROVE  Spells(q', Append(s, c)) /\ Accounted(Append(s, c))'
  <2>1. \A i \in 1..Len(s) : s[i] # c
    BY <1>1 DEF En, CellsOf
  <2>2. Spells(q', Append(s, c))
    BY <1>1, <2>1, EnAppends DEF En
  <2>3. CellsOf(Append(s, c)) = CellsOf(s) \cup {c}
    <3> DEFINE t == Append(s, c)
    <3>1. /\ Len(t) = Len(s) + 1 /\ t[Len(s) + 1] = c
          /\ \A i \in 1..Len(s) : t[i] = s[i]
      BY <1>0, AppendProperties
    <3> HIDE DEF t
    <3>2. \A i \in 1..Len(t) : i = Len(s) + 1 \/ i \in 1..Len(s)
      BY <1>0, <3>1
    <3>3. \A i \in 1..Len(s) : i \in 1..Len(t)
      BY <1>0, <3>1
    <3>4. Len(s) + 1 \in 1..Len(t)
      BY <1>0, <3>1
    <3>5. CellsOf(t) = CellsOf(s) \cup {c}
      BY <3>1, <3>2, <3>3, <3>4 DEF CellsOf
    <3> QED BY <3>5 DEF t
  <2> QED BY <1>0, <1>1, <2>2, <2>3 DEF En, TypeOK, Spells
<1>2. ASSUME De
      PROVE  s # <<>> /\ Spells(q', Tail(s)) /\ Accounted(Tail(s))'
  <2>1. s # <<>>
    BY <1>2 DEF De, Spells
  <2>2. Spells(q', Tail(s)) /\ q.tail = Head(s) /\ q.tail \in Cells
    BY <1>2, <2>1, DeTakesHead DEF De
  <2>3. CellsOf(s) = CellsOf(Tail(s)) \cup {q.tail} /\ q.tail \notin CellsOf(Tail(s))
    <3> DEFINE t == Tail(s)
    <3>1. /\ Len(t) = Len(s) - 1 /\ Len(s) >= 1 /\ q.tail = s[1]
          /\ \A i \in 1..Len(t) : t[i] = s[i + 1]
      BY <1>0, <2>1, <2>2, HeadTailProperties
    <3> HIDE DEF t
    <3>2. \A i \in 1..Len(s) : i # 1 => i - 1 \in 1..Len(t) /\ (i - 1) + 1 = i
      BY <1>0, <3>1
    <3>3. \A i \in 1..Len(t) : i + 1 \in 1..Len(s) /\ i + 1 # 1
      BY <1>0, <3>1
    <3>4. 1 \in 1..Len(s)
      BY <1>0, <3>1
    <3>5. \A i, j \in 1..Len(s) : s[i] = s[j] => i = j
      BY DEF Spells
    <3>6. CellsOf(s) = CellsOf(t) \cup {q.tail}
      <4>1. ASSUME NEW i \in 1..Len(s) PROVE s[i] \in CellsOf(t) \cup {q.tail}
        BY <3>1, <3>2 DEF CellsOf
      <4>2. ASSUME NEW i \in 1..Len(t) PROVE t[i] \in CellsOf(s)
        BY <3>1, <3>3 DEF CellsOf
      <4>3. q.tail \in CellsOf(s)
        BY <3>1, <3>4 DEF CellsOf
      <4> QED BY <4>1, <4>2, <4>3 DEF CellsOf
    <3>7. q.tail \notin CellsOf(t)
      BY <3>1, <3>3, <3>4, <3>5 DEF CellsOf
    <3> QED BY <3>6, <3>7 DEF t
  <2> QED BY <1>0, <1>2, <2>1, <2>2, <2>3 DEF De, TypeOK, Spells
<1>3. ASSUME NEW c \in Cells, FreeTask(c)
      PROVE  Spells(q', s) /\ Accounted(s)'
  BY <1>0, <1>3 DEF FreeTask, TypeOK
<1>4. ASSUME Clear
      PROVE  Spells(q', <<>>) /\ Accounted(<<>>)'
  <2>1. RoundsOf(after, q, N)
    BY AfterRounds DEF RoundsOf
  <2>2. Spells(q', <<>>)
    <3>1. N \in Len(s)..N
      BY <2>1, CellFacts, RoundsSpell
    <3> QED BY <1>4, <2>1, <3>1, RoundsSpell DEF Clear, N
  <2>3. {after[i].tail : i \in Rounds} \cap Cells = CellsOf(s)
    <3>1. \A i \in 0..N - 1 : after[i].tail = IF i < Len(s) THEN s[i + 1] ELSE Null
      BY <2>1, TailsSpell
    <3>2. Rounds = 0..N - 1
      BY DEF Rounds, N
    <3>3. Len(s) \in 0..N
      BY <2>1, RoundsSpell
    <3>4. ASSUME NEW i \in 1..Len(s)
          PROVE  i - 1 \in Rounds /\ after[i - 1].tail = s[i]
      BY <3>1, <3>2, <3>3, <3>4, CellFacts
    <3>5. ASSUME NEW i \in Rounds, after[i].tail \in Cells
          PROVE  i + 1 \in 1..Len(s) /\ after[i].tail = s[i + 1]
      BY <1>0, <3>1, <3>2, <3>3, <3>5, CellFacts
    <3>6. \A x \in CellsOf(s) : x \in {after[i].tail : i \in Rounds} \cap Cells
      BY <1>0, <3>4 DEF CellsOf
    <3>7. \A x \in {after[i].tail : i \in Rounds} \cap Cells : x \in CellsOf(s)
      BY <3>5 DEF CellsOf
    <3> QED BY <3>6, <3>7
  <2>4. heap' = taken
    BY <1>0, <1>4, <2>3 DEF Clear
  <2>5. CellsOf(<<>>) = {}
    BY DEF CellsOf
  <2> QED BY <1>0, <1>4, <2>2, <2>4, <2>5 DEF Clear, TypeOK, Spells
<1>5. CASE UNCHANGED vars
  BY <1>5 DEF vars, TypeOK
<1> QED BY <1>1, <1>2, <1>3, <1>4, <1>5 DEF Next

-----------------------------------------------------------------------------
(* The theorems. *)

(* IInv holds in every reachable state: whatever en(), de(), clear() and   *)
(* task.free do, and whichever address the allocator hands out next.       *)
THEOREM Inductive == Spec => []IInv
<1>1. Init => IInv
  BY EmptySpells
<1>2. IInv /\ [Next]_vars => IInv'
  BY StepSpells DEF IInv, Accounted
<1> QED BY <1>1, <1>2, PTL DEF Spec

(* A list that spells a sequence is well formed in the terms of the model. *)
LEMMA SpellsWellFormed ==
    ASSUME NEW s, Spells(q, s), TypeOK
    PROVE  WellFormed /\ {FromTail[i] : i \in 1..q.len} = CellsOf(s)
<1>1. /\ FromTail = s /\ q.len = Len(s) /\ s \in Seq(Cells) /\ Len(s) \in Nat
      /\ \A i \in 1..Len(s) : s[i] \in Cells
      /\ s = <<>> <=> Len(s) = 0
  BY FromTailSpells DEF Spells
<1>2. {FromTail[i] : i \in 1..q.len} = CellsOf(s)
  BY <1>1 DEF CellsOf
<1>3. \A i, j \in 1..q.len : FromTail[i] = FromTail[j] => i = j
  BY <1>1 DEF Spells
<1>4. (q.len = 0 <=> q.head = Null) /\ (q.len = 0 <=> q.tail = Null)
  BY <1>1, CellFacts DEF Spells
<1>5. q.len > 0 => FromTail[q.len] = q.head /\ q.prev[q.head] = Null
  BY <1>1 DEF Spells
<1>6. ASSUME NEW i \in 1..q.len
      PROVE  /\ FromTail[i] # Null
             /\ q.next[FromTail[i]] = IF i = 1 THEN Null ELSE FromTail[i - 1]
  BY <1>1, CellFacts DEF Spells
<1> QED BY <1>2, <1>3, <1>4, <1>5, <1>6 DEF WellFormed

(* The links are always well formed and every allocated cell is either in  *)
(* the list or with the worker that took it, never both: nothing is used   *)
(* after it was freed, returned twice or lost (task_queue of               *)
(* threadpool.bjou).                                                       *)
THEOREM NoLeak == Spec => []NoLeakNoDangling
<1>1. IInv => NoLeakNoDangling
  BY SpellsWellFormed DEF IInv, NoLeakNoDangling
<1> QED BY <1>1, Inductive, PTL

(* The linked list is a first-in first-out queue: every step of it is a    *)
(* step of TaskFifo, or leaves the queue as it is.                         *)
THEOREM ListImplementsFifo == Spec => ImplementsFifo
<1>1. Init => Fifo!Init
  BY EmptySpells, FromTailSpells DEF Fifo!Init
<1>2. IInv /\ [Next]_vars => [Fifo!Next]_FromTail
  <2> SUFFICES ASSUME IInv, [Next]_vars PROVE [Fifo!Next]_FromTail
    OBVIOUS
  <2>1. PICK s : Spells(q, s) /\ Accounted(s)
    BY DEF IInv, Accounted
  <2>2. PICK t : /\ Spells(q', t)
                 /\ \/ t = s
                    \/ \E c \in Cells : t = Append(s, c)
                    \/ s # <<>> /\ t = Tail(s)
                    \/ t = <<>>
    BY <2>1, StepSpells
  <2>3. FromTail = s /\ FromTail' = t
    BY <2>1, <2>2, FromTailSpells
  <2> QED BY <2>2, <2>3 DEF Fifo!Next, Fifo!Put, Fifo!Take, Fifo!Drop
<1>3. Spec => Fifo!Spec
  BY <1>1, <1>2, Inductive, PTL DEF Spec, Fifo!Spec
<1> QED BY <1>3 DEF ImplementsFifo
=============================================================================
