---------------------------- MODULE RBTreeProofs ----------------------------
(***************************************************************************)
(* remove keeps a red-black tree as well; the inductive invariant RBInv of *)
(* both operations; and what follows from it between operations: the tree  *)
(* is balanced, lookup finds its keys, an iterator meets them in order and *)
(* beg is the lowest.                                                      *)
(***************************************************************************)
EXTENDS RBTreeShapes, FiniteSetTheorems

(* The bounds and f of remove: what is below q on side dir contains key or ends at it. *)
Found(N, lo, hi, a) ==
    /\ Lower(lo, a.q, a.dir) < a.key /\ a.key <= Upper(hi, a.q, a.dir)
    /\ a.f = IF a.key < Upper(hi, a.q, a.dir) THEN Null ELSE a.key
    /\ a.f # Null => a.f \in N /\ a.q \in N /\ lo[a.f] <= lo[a.q]

(* What remove knows at the head of its loop: q is red, or the next node *)
(* is, or nothing above q is.                                            *)
Deleting(u, N, lo, hi, a) ==
    /\ a \in Locals /\ N # {}
    /\ a.q \in N \cup {FalseRoot}
    /\ a.q = FalseRoot => a.dir = 1
    /\ a.q # FalseRoot =>
         /\ a.p \in N \cup {FalseRoot}
         /\ Under(u, N, a.q, a.p)
         /\ a.dir = Less(a.q, a.key)
         /\ \/ u.red[a.q]
            \/ Red(u, u.child[a.q][a.dir])
            \/ a.p = FalseRoot /\ ~Red(u, u.child[a.q][1 - a.dir])
    /\ Found(N, lo, hi, a)

(* at after one iteration of remove's loop *)
Followed(a, q) ==
    /\ a \in Locals /\ a.key = at.key /\ a.q = q /\ a.dir = Less(q, at.key)
    /\ a.f = IF q = at.key THEN q ELSE at.f

(* What holds of remove's next q *)
AtNext(N, lo, hi, q) ==
    /\ q \in N /\ q \in Keys /\ q \in Int /\ Slot(N, at.q, at.dir) /\ at.dir \in Dirs
    /\ lo[q] = Lower(lo, at.q, at.dir) /\ hi[q] = Upper(hi, at.q, at.dir)
    /\ lo[q] \in Int /\ hi[q] \in Int /\ lo[q] < q /\ q < hi[q]
    /\ at.key \in Keys /\ at.key \in Int /\ lo[q] < at.key /\ at.key <= hi[q]
    /\ at.q \in N => lo[at.q] <= lo[q] /\ lo[at.q] \in Int /\ at.q # q
    /\ at.f # Null => at.f = at.key /\ at.key = hi[q]
    /\ at.f = Null => at.key < hi[q]
    /\ at.f # Null => at.f \in N /\ at.q \in N /\ lo[at.f] <= lo[at.q] /\ at.f \in Keys /\ lo[at.f] \in Int

(* Where remove's next q is. *)
LEMMA NextQ ==
    ASSUME NEW N, NEW lo, NEW hi, Tree(t, N, lo, hi), Deleting(t, N, lo, hi, at),
           NEW q, q = t.child[at.q][at.dir], q # Null
    PROVE  AtNext(N, lo, hi, q)
<1>1. at \in Locals /\ at.dir \in Dirs /\ at.key \in Keys /\ N \subseteq Keys /\ at.q \in N \cup {FalseRoot}
  BY DEF Deleting, Locals, Tree
<1>2. Slot(N, at.q, at.dir)
  BY <1>1 DEF Deleting, Slot
<1>3. q \in N /\ lo[q] = Lower(lo, at.q, at.dir) /\ hi[q] = Upper(hi, at.q, at.dir)
  BY <1>1, <1>2, SlotFacts
<1>4. q \in Int /\ lo[q] \in Int /\ hi[q] \in Int /\ lo[q] < q /\ q < hi[q]
  BY <1>3, Bounds
<1>5. at.q \in N => lo[at.q] <= lo[q] /\ lo[at.q] \in Int /\ at.q # q
  BY <1>1, Nested
<1>6. Found(N, lo, hi, at)
  BY DEF Deleting
<1>7. at.f # Null => at.f \in N /\ at.q \in N /\ lo[at.f] <= lo[at.q]
  BY <1>6 DEF Found
<1>8. at.f \in N => at.f \in Keys /\ lo[at.f] \in Int
  BY <1>1, Bounds
<1>9. lo[q] < at.key /\ at.key <= hi[q] /\ at.f = IF at.key < hi[q] THEN Null ELSE at.key
  BY <1>3, <1>6 DEF Found
<1>10. q \in Keys /\ at.key \in Int /\ Null \notin Keys
  BY <1>1, <1>3, Sets
<1>11. /\ at.f # Null => at.f = at.key /\ at.key = hi[q]
       /\ at.f = Null => at.key < hi[q]
  BY <1>1, <1>4, <1>9, <1>10
<1> QED BY <1>1, <1>2, <1>3, <1>4, <1>5, <1>7, <1>8, <1>9, <1>10, <1>11 DEF AtNext

(* The bounds of the key after one step down. *)
LEMMA FoundBelow ==
    ASSUME NEW N, NEW lo, NEW hi, Tree(t, N, lo, hi), Deleting(t, N, lo, hi, at),
           NEW q, q = t.child[at.q][at.dir], q # Null, NEW a, Followed(a, q),
           NEW lo2, NEW hi2, lo2[q] \in Int, hi2[q] \in Int, lo[q] <= lo2[q],
           a.dir = 0 => lo2[q] = lo[q], a.dir = 1 => hi2[q] = hi[q],
           at.f # Null /\ at.f # q => lo2[at.f] = lo[at.f]
    PROVE  Found(N, lo2, hi2, a) /\ a.dir \in Dirs
<1>0. AtNext(N, lo, hi, q)
  BY NextQ
<1>1. /\ q \in N /\ q \in Keys /\ q \in Int
      /\ lo[q] \in Int /\ hi[q] \in Int /\ lo[q] < q /\ q < hi[q]
      /\ at.key \in Keys /\ at.key \in Int /\ lo[q] < at.key /\ at.key <= hi[q]
      /\ at.q \in N => lo[at.q] <= lo[q] /\ lo[at.q] \in Int
      /\ at.f # Null => at.f = at.key /\ at.key = hi[q]
      /\ at.f = Null => at.key < hi[q]
      /\ at.f # Null => at.f \in N /\ at.q \in N /\ lo[at.f] <= lo[at.q] /\ at.f \in Keys /\ lo[at.f] \in Int
  BY <1>0 DEF AtNext
<1>2. /\ a.key = at.key /\ a.q = q /\ a.dir = Less(q, at.key)
      /\ a.f = IF q = at.key THEN q ELSE at.f
  BY DEF Followed
<1>3. (a.dir = 0 \/ a.dir = 1) /\ a.dir \in Dirs /\ (a.dir = 1 => q < at.key) /\ (a.dir = 0 => at.key <= q)
  BY <1>1, <1>2, Sets DEF Less
<1>4. q # FalseRoot /\ Null \notin Keys
  BY <1>1, Sets
<1>5. CASE a.dir = 0
  <2>1. Lower(lo2, q, 0) = lo[q] /\ Upper(hi2, q, 0) = q
    BY <1>4, <1>5 DEF Lower, Upper
  <2>2. at.f = Null
    BY <1>1, <1>3, <1>5
  <2>3. a.f = IF at.key < q THEN Null ELSE at.key
    BY <1>1, <1>2, <1>3, <1>5, <2>2
  <2>4. a.f # Null => a.f = q
    BY <1>2, <2>2
  <2> QED BY <1>1, <1>2, <1>3, <1>5, <2>1, <2>3, <2>4 DEF Found
<1>6. CASE a.dir = 1
  <2>1. Lower(lo2, q, 1) = q /\ Upper(hi2, q, 1) = hi[q]
    BY <1>4, <1>6 DEF Lower, Upper
  <2>2. a.f = at.f
    BY <1>1, <1>2, <1>3, <1>6
  <2>3. ASSUME at.f # Null PROVE at.f \in N /\ lo2[at.f] <= lo2[q]
    <3>1. at.f = at.key /\ at.f # q
      BY <1>1, <1>3, <1>6, <2>3
    <3>2. lo2[at.f] = lo[at.f] /\ at.f \in N /\ lo[at.f] <= lo[at.q] /\ lo[at.q] <= lo[q]
          /\ lo[at.f] \in Int /\ lo[at.q] \in Int
      BY <1>1, <2>3, <3>1
    <3> QED BY <1>1, <3>2
  <2> QED BY <1>1, <1>2, <1>3, <1>6, <2>1, <2>2, <2>3 DEF Found
<1> QED BY <1>3, <1>5, <1>6

(* The direction from a node to any key, its own included. *)
LEMMA LessDirs ==
    ASSUME NEW n \in Int, NEW k \in Int
    PROVE  Less(n, k) \in Dirs /\ (Less(n, k) = 1 => n < k) /\ (Less(n, k) = 0 => k <= n)
BY DEF Less, Dirs

(* c is what Nested says of the child of m on side d. *)
IsNested(N, lo, hi, m, d, c) ==
    /\ c \in N /\ c # m /\ {c, m, lo[c], lo[m], hi[c], hi[m]} \subseteq Int
    /\ lo[c] < c /\ c < hi[c] /\ lo[m] < m /\ m < hi[m]
    /\ d = 0 => hi[c] = m /\ lo[c] = lo[m] /\ c < m
    /\ d = 1 => lo[c] = m /\ hi[c] = hi[m] /\ m < c

(* The same as Nested, as one predicate. *)
LEMMA NestedFacts ==
    ASSUME NEW u, NEW N, NEW lo, NEW hi, Tree(u, N, lo, hi),
           NEW m, NEW d, d \in Dirs, m \in N, u.child[m][d] # Null
    PROVE  IsNested(N, lo, hi, m, d, u.child[m][d])
BY Nested DEF IsNested

(* What a single rotation leaves of the bounds. *)
AreTurned(lo2, hi2, lo, hi, n, r, d) ==
    /\ d = 0 => lo2[n] = lo[n]
    /\ d = 1 => lo2[n] = r /\ hi2[n] = hi[n]
    /\ \A x \in Keys : x # n /\ x # r => lo2[x] = lo[x]

(* LoTurned and HiTurned change the two nodes that are turned only. *)
LEMMA TurnedBounds ==
    ASSUME NEW lo, NEW hi, NEW n, NEW r, NEW d, lo \in [Keys -> Int], hi \in [Keys -> Int],
           n \in Keys, r \in Keys, r # n, d \in Dirs
    PROVE  AreTurned(LoTurned(lo, n, r, d), HiTurned(hi, n, r, d), lo, hi, n, r, d)
BY DEF LoTurned, HiTurned, Dirs, AreTurned

(* A turn above q that brings down its red child on the other side. *)
LEMMA DeleteTurn ==
    ASSUME NEW N, NEW lo, NEW hi, Shape(t, N, lo, hi), Deleting(t, N, lo, hi, at),
           NEW q, q = t.child[at.q][at.dir], q # Null, NEW a, Followed(a, q), NEW d, d = a.dir,
           NEW o, o \in Dirs, o # d,
           ~Red(t, q), ~Red(t, t.child[q][d]), Red(t, t.child[q][o]),
           NEW w, IsTurned(w, t, at.q, at.dir, q, d, o), a.p = t.child[q][o]
    PROVE  \E lo2, hi2 : Shape(w, N, lo2, hi2) /\ Deleting(w, N, lo2, hi2, a)
<1> DEFINE r == t.child[q][o]
           lo2 == LoTurned(lo, q, r, d)
           hi2 == HiTurned(hi, q, r, d)
<1>0. Tree(t, N, lo, hi) /\ Cool(t, N) /\ N \subseteq Keys
      /\ lo \in [Keys -> Int] /\ hi \in [Keys -> Int]
  BY DEF Shape, Tree
<1>1. AtNext(N, lo, hi, q)
  BY <1>0, NextQ
<1>2. q \in N /\ q \in Keys /\ q \in Int /\ Slot(N, at.q, at.dir) /\ at.dir \in Dirs
      /\ q # FalseRoot /\ q # Null /\ N # {} /\ q \in Nodes
  BY <1>1, Sets DEF AtNext
<1>3. d = Less(q, at.key) /\ at.key \in Int
  BY <1>1 DEF Followed, AtNext
<1>4. d \in Dirs /\ (d = 1 => q < at.key) /\ (d = 0 => at.key <= q)
  BY <1>2, <1>3, LessDirs
<1>5. /\ t.child[q][o] # Null /\ t.red[t.child[q][o]] /\ ~t.red[q]
      /\ t.child[at.q][at.dir] = q
  BY Zenon, <1>2 DEF Red
<1>6. r \in N /\ r # q /\ r \in Int /\ lo[r] \in Int /\ lo[r] < r
      /\ (o = 0 => lo[r] = lo[q] /\ r < q)
  <2>1. Tree(t, N, lo, hi) /\ o \in Dirs /\ q \in N /\ t.child[q][o] # Null
    BY Zenon, <1>0, <1>2, <1>5
  <2>2. IsNested(N, lo, hi, q, o, r)
    BY <2>1, NestedFacts
  <2> HIDE DEF r
  <2> QED BY <2>2 DEF IsNested
<1>7. Tree(w, N, lo2, hi2)
  BY Zenon, <1>0, <1>2, <1>4, <1>5, TurnTree
<1>8. PICK bh \in Heights : Even(t, N, bh)
  BY DEF Shape
<1>9. \E bh2 \in Heights : Even(w, N, bh2)
  <2> DEFINE bh2 == [bh EXCEPT ![r] = bh[q], ![q] = bh[r]]
  <2>1. bh2 \in Heights /\ Even(w, N, bh2)
    BY Zenon, <1>0, <1>2, <1>4, <1>5, <1>8, TurnEven
  <2> QED BY Zenon, <2>1
<1>10. r \in Nodes /\ r \in Keys
  BY Zenon, <1>0, <1>6, Sets
<1>11. Cool(w, N)
  <2>1. ~t.red[FalseRoot] /\ (\A x \in N, f \in Dirs : x # r /\ t.red[x] => ~Red(t, t.child[x][f]))
    BY Zenon, <1>0 DEF Cool
  <2>2. ~Red(t, t.child[r][d])
    BY Zenon, <1>0, <1>4, <1>5, <1>6 DEF Cool
  <2> QED BY Zenon, <1>0, <1>2, <1>4, <1>5, <2>1, <2>2, TurnCool
<1>12. w.child[r][d] = q /\ w.red[q]
  BY Zenon, <1>2, <1>4, <1>5, <1>6, <1>10 DEF IsTurned
<1>13. /\ d = 0 => lo2[q] = lo[q]
       /\ d = 1 => lo2[q] = r /\ hi2[q] = hi[q]
       /\ \A x \in Keys : x # q /\ x # r => lo2[x] = lo[x]
  <2>1. r # q /\ r \in Keys /\ q \in Keys
    BY Zenon, <1>2, <1>6, <1>10
  <2> HIDE DEF r
  <2>2. AreTurned(lo2, hi2, lo, hi, q, r, d)
    BY <1>0, <1>4, <2>1, TurnedBounds
  <2> HIDE DEF lo2, hi2
  <2> QED BY Zenon, <2>2 DEF AreTurned
<1>14. hi2 \in [Keys -> Int] /\ lo2 \in [Keys -> Int]
  BY Zenon, <1>7 DEF Tree
<1> HIDE DEF lo2, hi2, r
<1>15. (d = 0 \/ d = 1) /\ (d = 1 => o = 0)
  BY <1>4 DEF Dirs
<1>16. at.f # Null => at.f = at.key /\ at.key = hi[q] /\ q < hi[q] /\ hi[q] \in Int /\ at.f \in Keys
  BY <1>1 DEF AtNext
<1>17. at.f # Null /\ at.f # q => lo2[at.f] = lo[at.f]
  <2>1. d = 1 /\ at.f # Null => at.f # r
    BY <1>2, <1>6, <1>15, <1>16
  <2>2. d = 0 => at.f = Null
    BY <1>2, <1>4, <1>16
  <2> QED BY <1>13, <1>15, <1>16, <2>1, <2>2
<1>18. lo[q] \in Int
  BY <1>1 DEF AtNext
<1>19. lo2[q] \in Int /\ hi2[q] \in Int /\ lo[q] <= lo2[q]
  <2>1. lo2[q] \in Int /\ hi2[q] \in Int
    BY <1>2, <1>14
  <2>2. CASE d = 0
    <3>1. lo2[q] = lo[q]
      BY <1>13, <2>2
    <3> QED BY <1>18, <2>1, <3>1
  <2>3. CASE d = 1
    <3>1. lo2[q] = r /\ lo[r] = lo[q] /\ lo[r] < r
      BY Zenon, <1>6, <1>13, <1>15, <2>3
    <3> QED BY <1>6, <1>18, <2>1, <3>1
  <2> QED BY <1>15, <2>1, <2>2, <2>3
<1>20. Found(N, lo2, hi2, a)
  <2>1. a.dir = 0 => lo2[q] = lo[q]
    BY <1>13
  <2>2. a.dir = 1 => hi2[q] = hi[q]
    BY <1>13
  <2> QED BY Zenon, <1>0, <1>17, <1>19, <2>1, <2>2, FoundBelow
<1>21. Deleting(w, N, lo2, hi2, a)
  <2>1. a \in Locals /\ a.q = q /\ a.dir = Less(a.q, a.key)
    BY DEF Followed
  <2>2. Under(w, N, q, r)
    BY <1>4, <1>6, <1>12 DEF Under, Slot
  <2>3. a.p = r
    BY DEF r
  <2> QED BY Zenon, <1>2, <1>6, <1>12, <1>20, <2>1, <2>2, <2>3 DEF Deleting
<1>22. Shape(w, N, lo2, hi2)
  BY <1>7, <1>9, <1>11 DEF Shape
<1> QED BY <1>21, <1>22

(* w is u but for colours. *)
IsRecoloured(w, u, B, R) ==
    w \in Links /\ w.child = u.child /\ w.parent = u.parent /\ Recoloured(w, u, B, R)

(* Red first, then black. *)
LEMMA PaintBlack ==
    ASSUME NEW u, u \in Links, NEW B, NEW R
    PROVE  IsRecoloured(Painted(Painted(u, R, TRUE), B, FALSE), u, B, R)
BY Zenon, RecolouredFacts DEF IsRecoloured

(* Black first: the two sets are apart. *)
LEMMA PaintRed ==
    ASSUME NEW u, u \in Links, NEW B, NEW R, \A x \in B : x \notin R
    PROVE  IsRecoloured(Painted(Painted(u, B, FALSE), R, TRUE), u, B, R)
<1> DEFINE v == Painted(u, B, FALSE)
           w == Painted(v, R, TRUE)
<1>1. IsPainted(v, u, B, FALSE)
  BY Zenon, PaintedFacts
<1>2. IsPainted(w, v, R, TRUE)
  <2>1. v \in Links
    BY Zenon, <1>1 DEF IsPainted
  <2> HIDE DEF v
  <2> QED BY Zenon, <2>1, PaintedFacts
<1> HIDE DEF v, w
<1>3. w \in Links /\ w.child = u.child /\ w.parent = u.parent
  BY <1>1, <1>2 DEF IsPainted
<1>4. Recoloured(w, u, B, R)
  <2> SUFFICES ASSUME NEW x \in Nodes PROVE w.red[x] <=> x \notin B /\ (x \in R \/ u.red[x])
    BY DEF Recoloured
  <2>1. v.red[x] = IF x \in B THEN FALSE ELSE u.red[x]
    BY Zenon, <1>1 DEF IsPainted
  <2>2. w.red[x] = IF x \in R THEN TRUE ELSE v.red[x]
    BY Zenon, <1>2 DEF IsPainted
  <2> QED BY <2>1, <2>2
<1> QED BY Zenon, <1>3, <1>4 DEF w, v, IsRecoloured

(* remove's node q stays below its parent. *)
LEMMA DeletingBelow ==
    ASSUME NEW N, NEW lo, NEW hi, Tree(t, N, lo, hi), Deleting(t, N, lo, hi, at),
           NEW q, q = t.child[at.q][at.dir], q # Null, NEW a, Followed(a, q), a.p = at.q,
           NEW w, NEW lo2, NEW hi2, lo2[q] = lo[q], hi2[q] = hi[q],
           at.f # Null /\ at.f # q => lo2[at.f] = lo[at.f],
           w.child[at.q][at.dir] = q,
           w.red[q] \/ Red(w, w.child[q][a.dir]) \/ (at.q = FalseRoot /\ ~Red(w, w.child[q][1 - a.dir]))
    PROVE  Deleting(w, N, lo2, hi2, a)
<1>1. AtNext(N, lo, hi, q)
  BY NextQ
<1>2. q \in N /\ Slot(N, at.q, at.dir) /\ at.dir \in Dirs /\ q # FalseRoot /\ N # {}
      /\ lo[q] \in Int /\ hi[q] \in Int
  BY <1>1, Sets DEF AtNext
<1>3. Found(N, lo2, hi2, a)
  <2>1. lo[q] <= lo2[q]
    BY <1>2
  <2> QED BY <1>2, <2>1, FoundBelow
<1>4. a \in Locals /\ a.q = q /\ a.dir = Less(a.q, a.key)
  BY DEF Followed
<1>5. Under(w, N, q, at.q) /\ at.q \in N \cup {FalseRoot}
  BY <1>2 DEF Under, Slot
<1> QED BY <1>2, <1>3, <1>4, <1>5 DEF Deleting

(* What remove may lend from: q is black, and so are its children and its sibling. *)
LEMMA LendingFacts ==
    ASSUME NEW N, NEW lo, NEW hi, Shape(t, N, lo, hi), Deleting(t, N, lo, hi, at),
           NEW q, q = t.child[at.q][at.dir], q # Null,
           NEW o, o \in Dirs, o # at.dir, t.child[at.q][o] # Null,
           ~Red(t, q), \A f \in Dirs : ~Red(t, t.child[q][f])
    PROVE  /\ at.q \in N /\ at.dir \in Dirs /\ Under(t, N, at.q, at.p)
           /\ Lending(t, at.p, at.q, at.dir, o)
<1>1. Tree(t, N, lo, hi) /\ Cool(t, N)
  BY DEF Shape
<1>2. at.dir \in Dirs /\ at.q \in N \cup {FalseRoot} /\ at \in Locals
  BY DEF Deleting, Locals
<1>3. at.q # FalseRoot
  <2> SUFFICES ASSUME at.q = FalseRoot PROVE FALSE
    OBVIOUS
  <2>1. at.dir = 1
    BY DEF Deleting
  <2>2. o = 0
    BY <2>1 DEF Dirs
  <2>3. ~Slot(N, FalseRoot, 0)
    BY <1>1, Sets DEF Slot, Tree
  <2>4. t.child[FalseRoot][0] = Null
    BY <1>1, <2>3, Sets DEF Tree, Linked
  <2> QED BY <2>2, <2>4
<1>4. at.q \in N
  BY <1>2, <1>3
<1>5. Under(t, N, at.q, at.p)
  BY <1>3 DEF Deleting
<1>6. 1 - at.dir = o
  BY <1>2 DEF Dirs
<1>7. at.p = FalseRoot \/ t.red[at.q]
  BY <1>3 DEF Deleting
<1>8. ~Red(t, t.child[at.q][o])
  <2>1. t.red[at.q] => ~Red(t, t.child[at.q][o])
    BY <1>1, <1>4 DEF Cool
  <2> QED BY <1>3, <1>6, <2>1 DEF Deleting
<1> QED BY Zenon, <1>2, <1>4, <1>5, <1>7, <1>8 DEF Lending, Red

(* Nothing to do *)
LEMMA DeleteKeep ==
    ASSUME NEW N, NEW lo, NEW hi, Shape(t, N, lo, hi), Deleting(t, N, lo, hi, at),
           NEW q, q = t.child[at.q][at.dir], q # Null, NEW a, Followed(a, q), a.p = at.q,
           \/ Red(t, q) \/ Red(t, t.child[q][a.dir])
           \/ ~Red(t, t.child[q][1 - a.dir]) /\ t.child[at.q][1 - at.dir] = Null
    PROVE  Deleting(t, N, lo, hi, a)
<1>1. Tree(t, N, lo, hi)
  BY DEF Shape
<1>2. PICK bh \in Heights : Even(t, N, bh)
  BY DEF Shape
<1>3. ASSUME ~t.red[q], t.child[at.q][1 - at.dir] = Null PROVE at.q = FalseRoot
  <2> SUFFICES ASSUME at.q \in N PROVE FALSE
    BY DEF Deleting
  <2>1. AtNext(N, lo, hi, q)
    BY <1>1, NextQ
  <2>2. q \in N /\ at.dir \in {0, 1}
    BY <2>1 DEF AtNext, Dirs
  <2>3. bh[t.child[at.q][0]] = bh[t.child[at.q][1]] /\ bh[Null] = 0
        /\ bh[q] = bh[t.child[q][0]] + IF t.red[q] THEN 0 ELSE 1
    BY <1>2, <2>2 DEF Even
  <2>4. bh[t.child[q][0]] \in Nat
    <3>1. t.child[q][0] \in Keys \cup {Null}
      BY <1>1, <2>2, Sets DEF Tree, Linked, Slot
    <3> QED BY <1>2, <3>1 DEF Heights
  <2>5. bh[q] # 0
    BY <1>3, <2>3, <2>4
  <2>6. bh[q] = bh[t.child[at.q][1 - at.dir]]
    BY <2>2, <2>3
  <2> QED BY <1>3, <2>3, <2>5, <2>6
<1>4. t.red[q] \/ Red(t, t.child[q][a.dir]) \/ (at.q = FalseRoot /\ ~Red(t, t.child[q][1 - a.dir]))
  BY Zenon, <1>3 DEF Red
<1> QED BY Zenon, <1>1, <1>4, DeletingBelow

(* A colour flip *)
LEMMA DeleteFlip ==
    ASSUME NEW N, NEW lo, NEW hi, Shape(t, N, lo, hi), Deleting(t, N, lo, hi, at),
           NEW q, q = t.child[at.q][at.dir], q # Null, NEW a, Followed(a, q), a.p = at.q,
           NEW s, NEW o, o \in Dirs, o # at.dir, s = t.child[at.q][o], s # Null,
           ~Red(t, q), \A f \in Dirs : ~Red(t, t.child[q][f]), \A f \in Dirs : ~Red(t, t.child[s][f]),
           NEW w, w = Painted(Painted(t, {at.q}, FALSE), {s, q}, TRUE)
    PROVE  Shape(w, N, lo, hi) /\ Deleting(w, N, lo, hi, a)
<1>1. Tree(t, N, lo, hi) /\ Cool(t, N) /\ t \in Links
  BY DEF Shape, Tree
<1>2. PICK bh \in Heights : Even(t, N, bh)
  BY DEF Shape
<1>3. /\ at.q \in N /\ at.dir \in Dirs /\ Under(t, N, at.q, at.p)
      /\ Lending(t, at.p, at.q, at.dir, o)
  BY LendingFacts
<1>4. PICK e \in Dirs : Slot(N, at.p, e) /\ t.child[at.p][e] = at.q
  BY <1>3 DEF Under
<1>5. Kin(t, N, at.p, e, at.q, at.dir, o)
  BY <1>1, <1>3, <1>4, Family
<1>6. at.q # q /\ at.q # s /\ q \in Nodes
  BY Zenon, <1>1, <1>5, Sets DEF Kin, Tree
<1>7. IsRecoloured(w, t, {at.q}, {s, q})
  BY Zenon, <1>1, <1>6, PaintRed
<1>8. w \in Links /\ w.child = t.child /\ w.parent = t.parent /\ Recoloured(w, t, {at.q}, {t.child[at.q][at.dir], t.child[at.q][o]})
  <2>1. {s, q} = {t.child[at.q][at.dir], t.child[at.q][o]}
    OBVIOUS
  <2> QED BY Zenon, <1>7, <2>1 DEF IsRecoloured
<1>9. (\E bh2 \in Heights : Even(w, N, bh2)) /\ Cool(w, N)
  <2>1. \A f \in Dirs : ~Red(t, t.child[t.child[at.q][o]][f])
    OBVIOUS
  <2> QED BY Zenon, <1>1, <1>2, <1>3, <1>4, <1>8, <2>1, FlipBlack
<1>10. Tree(w, N, lo, hi)
  BY Zenon, <1>1, <1>8, PaintTree
<1>11. w.red[q]
  BY Zenon, <1>6, <1>7 DEF IsRecoloured, Recoloured
<1>12. w.child[at.q][at.dir] = q
  BY Zenon, <1>8
<1>13. Deleting(w, N, lo, hi, a)
  BY Zenon, <1>1, <1>11, <1>12, DeletingBelow
<1> QED BY Zenon, <1>9, <1>10, <1>13 DEF Shape

(* What Borrowed leaves: the nodes moved have other bounds now. *)
Borrowing(w, N, lo2, hi2, lo, hi, q, moved) ==
    /\ Shape(w, N, lo2, hi2)
    /\ moved \subseteq Keys /\ q \notin moved
    /\ \A x \in Keys : x \notin moved => lo2[x] = lo[x] /\ hi2[x] = hi[x]
    /\ at.dir = 0 => lo2[at.q] = lo[at.q]
    /\ at.dir = 1 => \A x \in moved : x < q
    /\ at.q \in N /\ w.child[at.q][at.dir] = q /\ w.red[q]

(* The walk of remove goes on with the new bounds. *)
LEMMA DeleteBorrowed ==
    ASSUME NEW N, NEW lo, NEW hi, Shape(t, N, lo, hi), Deleting(t, N, lo, hi, at),
           NEW q, q = t.child[at.q][at.dir], q # Null, NEW a, Followed(a, q), a.p = at.q,
           NEW w, NEW lo2, NEW hi2, NEW moved, Borrowing(w, N, lo2, hi2, lo, hi, q, moved)
    PROVE  Deleting(w, N, lo2, hi2, a)
<1>0. /\ moved \subseteq Keys /\ q \notin moved
      /\ \A x \in Keys : x \notin moved => lo2[x] = lo[x] /\ hi2[x] = hi[x]
      /\ at.dir = 0 => lo2[at.q] = lo[at.q]
      /\ at.dir = 1 => \A x \in moved : x < q
      /\ at.q \in N /\ w.child[at.q][at.dir] = q /\ w.red[q]
  BY DEF Borrowing
<1>1. Tree(t, N, lo, hi)
  BY DEF Shape
<1>2. AtNext(N, lo, hi, q)
  BY <1>1, NextQ
<1>3. q \in Keys /\ q \in Int /\ hi[q] \in Int /\ q < hi[q] /\ (at.dir = 0 \/ at.dir = 1)
      /\ (at.f # Null => at.f = hi[q] /\ at.f \in Keys)
  BY <1>2, Sets DEF AtNext, Dirs
<1>4. lo2[q] = lo[q] /\ hi2[q] = hi[q]
  BY <1>0, <1>3
<1>5. ASSUME at.f # Null PROVE lo2[at.f] = lo[at.f]
  <2>1. CASE at.dir = 0
    <3>1. hi[q] = Upper(hi, at.q, 0) /\ at.q # FalseRoot
      BY Zenon, <1>0, <1>1, <1>2, <2>1, Sets DEF AtNext, Tree
    <3>2. hi[q] = at.q
      BY <3>1 DEF Upper
    <3> QED BY <1>0, <1>3, <1>5, <2>1, <3>2
  <2>2. CASE at.dir = 1
    <3>1. at.f \notin moved
      <4>1. SUFFICES ASSUME at.f \in moved PROVE FALSE
        OBVIOUS
      <4>2. at.f < q /\ at.f = hi[q]
        BY <1>0, <1>3, <1>5, <2>2, <4>1
      <4> QED BY <1>3, <4>2
    <3> QED BY <1>0, <1>3, <1>5, <3>1
  <2> QED BY <1>3, <2>1, <2>2
<1> QED BY <1>0, <1>1, <1>4, <1>5, DeletingBelow

(* One turn changes the bounds of the two nodes only. *)
Still(lo2, hi2, lo, hi, n, r, d) ==
    /\ \A x \in Keys : x \notin {n, r} => lo2[x] = lo[x] /\ hi2[x] = hi[x]
    /\ d = 0 => lo2[n] = lo[n]
    /\ lo2 \in [Keys -> Int] /\ hi2 \in [Keys -> Int]

(* LoTurned and HiTurned change the two nodes that are turned only. *)
LEMMA TurnedStill ==
    ASSUME NEW lo, NEW hi, NEW n, NEW r, NEW d, lo \in [Keys -> Int], hi \in [Keys -> Int],
           n \in Keys, r \in Keys, r # n, d \in Dirs
    PROVE  Still(LoTurned(lo, n, r, d), HiTurned(hi, n, r, d), lo, hi, n, r, d)
<1>1. lo[n] \in Int /\ hi[n] \in Int /\ r \in Int
  BY Sets
<1> QED BY <1>1 DEF LoTurned, HiTurned, Dirs, Still

(* Where the nodes around n are, with d the side of q *)
Around(N, n, q, s, c, d) ==
    /\ {n, q, s} \subseteq Keys /\ q # s /\ q # n /\ s # n
    /\ c # Null => c \in Keys /\ c # q /\ c # n /\ c # s
    /\ d = 1 => s < q /\ n < q /\ (c # Null => c < q)

(* The order of the nodes below n. *)
LEMMA AroundFacts ==
    ASSUME NEW u, NEW N, NEW lo, NEW hi, Tree(u, N, lo, hi),
           NEW n, n \in N, NEW d, d \in Dirs, NEW o, o \in Dirs, o # d,
           u.child[n][d] # Null, u.child[n][o] # Null
    PROVE  Around(N, n, u.child[n][d], u.child[n][o], u.child[u.child[n][o]][d], d)
<1> DEFINE q == u.child[n][d]
           s == u.child[n][o]
           c == u.child[s][d]
<1>1. IsNested(N, lo, hi, n, d, q) /\ IsNested(N, lo, hi, n, o, s)
  BY NestedFacts
<1>2. s \in N
  BY <1>1 DEF IsNested
<1>3. c # Null => IsNested(N, lo, hi, s, d, c)
  BY <1>2, NestedFacts
<1>4. (d = 0 /\ o = 1) \/ (d = 1 /\ o = 0)
  BY DEF Dirs
<1> HIDE DEF q, s, c
<1>5. {n, q, s} \subseteq Keys /\ (c # Null => c \in Keys)
  BY <1>1, <1>3, Sets DEF IsNested, Tree
<1>6. {n, q, s, lo[q], hi[q], lo[s], hi[s]} \subseteq Int
  BY <1>1 DEF IsNested
<1>7. ASSUME d = 0 PROVE Around(N, n, q, s, c, d)
  <2>1. q < n /\ n < s /\ lo[s] = n
    BY <1>1, <1>4, <1>7 DEF IsNested
  <2>2. c # Null => c \in Int /\ lo[c] = lo[s] /\ lo[c] < c /\ c < s
    BY <1>3, <1>7 DEF IsNested
  <2> QED BY <1>5, <1>6, <1>7, <2>1, <2>2 DEF Around
<1>8. ASSUME d = 1 PROVE Around(N, n, q, s, c, d)
  <2>1. n < q /\ s < n /\ hi[s] = n
    BY <1>1, <1>4, <1>8 DEF IsNested
  <2>2. c # Null => c \in Int /\ hi[c] = hi[s] /\ c < hi[c] /\ s < c
    BY <1>3, <1>8 DEF IsNested
  <2> QED BY <1>5, <1>6, <1>8, <2>1, <2>2 DEF Around
<1>9. Around(N, n, q, s, c, d)
  BY <1>4, <1>7, <1>8
<1> QED BY <1>9 DEF q, s, c

(* How Borrowed paints: the node on top and q red, what hangs below the top black *)
Lent(v, q, top) == Painted(Painted(v, {q, top}, TRUE), {v.child[top][0], v.child[top][1]}, FALSE)

(* The far child of the sibling is red: one turn *)
LEMMA DeleteBorrowOnce ==
    ASSUME NEW N, NEW lo, NEW hi, Shape(t, N, lo, hi), Deleting(t, N, lo, hi, at),
           NEW q, q = t.child[at.q][at.dir], q # Null, NEW a, Followed(a, q), a.p = at.q,
           NEW s, NEW o, o \in Dirs, o # at.dir, s = t.child[at.q][o], s # Null,
           at.q \in N, at.dir \in Dirs, Lending(t, at.p, at.q, at.dir, o),
           ~Red(t, t.child[s][at.dir]), Red(t, t.child[s][o]),
           NEW e, e \in Dirs, Slot(N, at.p, e), t.child[at.p][e] = at.q,
           NEW v, v = Turned(t, at.p, e, at.q, at.dir),
           NEW w, w = Lent(v, q, s)
    PROVE  \E lo2, hi2 : Shape(w, N, lo2, hi2) /\ Deleting(w, N, lo2, hi2, a)
<1> DEFINE n == at.q
           d == at.dir
           far == t.child[s][o]
           lo2 == LoTurned(lo, n, s, d)
           hi2 == HiTurned(hi, n, s, d)
<1>1. Tree(t, N, lo, hi) /\ Cool(t, N) /\ N \subseteq Keys
  BY DEF Shape, Tree
<1>2. PICK bh \in Heights : Even(t, N, bh)
  BY DEF Shape
<1>3. n \in N /\ d \in Dirs /\ Lending(t, at.p, n, d, o)
  OBVIOUS
<1>4. Kin(t, N, at.p, e, n, d, o)
  BY <1>1, <1>3, Family
<1>5. Around(N, n, q, s, t.child[s][d], d)
  BY <1>1, <1>3, AroundFacts
<1>6. IsTurned(v, t, at.p, e, n, d, o)
  <2>1. 1 - d = o
    <3>1. (d = 0 /\ o = 1) \/ (d = 1 /\ o = 0)
      BY <1>3 DEF Dirs
    <3> QED BY <3>1
  <2>2. t.child[n][1 - d] # Null
    BY <2>1
  <2>3. IsTurned(Turned(t, at.p, e, n, d), t, at.p, e, n, d, 1 - d)
    BY <1>1, <1>3, <2>2, TurnInTree
  <2> QED BY <2>1, <2>3
<1>7. Tree(v, N, lo2, hi2)
  <2>1. Tree(v, N, LoTurned(lo, n, t.child[n][o], d), HiTurned(hi, n, t.child[n][o], d))
    BY Zenon, <1>1, <1>3, <1>6, TurnTree
  <2> QED BY <2>1
<1>8. n \in Nodes /\ s \in Nodes /\ n \in Keys /\ s \in Keys /\ q \in Keys /\ q \in Nodes /\ s # n /\ q # n /\ q # s
  BY <1>5, Sets DEF Around
<1>9. q # far /\ far # s /\ far # n /\ at.p # s /\ at.p # n /\ t.child[s][d] # n /\ t.child[s][d] # s
  <2>1. q # far /\ far # s /\ far # n
    BY Zenon, <1>4 DEF Kin
  <2> QED BY Zenon, <1>4, <2>1 DEF Kin
<1> HIDE DEF lo2, hi2, n, d, far
<1>10. d # o /\ q = t.child[n][d] /\ s = t.child[n][o] /\ far = t.child[s][o]
  BY DEF n, d, far
<1>11. v.child[s][d] = n /\ v.child[s][o] = far
  BY <1>3, <1>6, <1>8, <1>9, <1>10 DEF IsTurned
<1>12. v.child[n][d] = q
  BY <1>3, <1>6, <1>8, <1>9, <1>10 DEF IsTurned
<1>13. {v.child[s][0], v.child[s][1]} = {n, far}
  <2>1. (d = 0 /\ o = 1) \/ (d = 1 /\ o = 0)
    BY <1>3, <1>10 DEF Dirs
  <2> QED BY Zenon, <1>11, <2>1
<1>14. IsRecoloured(w, v, {n, far}, {q, s})
  <2>1. v \in Links
    BY <1>7 DEF Tree
  <2>2. w = Painted(Painted(v, {q, s}, TRUE), {n, far}, FALSE)
    BY Zenon, <1>13 DEF Lent
  <2> QED BY Zenon, <2>1, <2>2, PaintBlack
<1>15. w \in Links /\ w.child = v.child /\ w.parent = v.parent /\ Recoloured(w, v, {n, far}, {q, s})
  BY <1>14 DEF IsRecoloured
<1>16. Recoloured(w, t, {n, far}, {q, s})
  <2> SUFFICES ASSUME NEW x \in Nodes PROVE w.red[x] <=> x \notin {n, far} /\ (x \in {q, s} \/ t.red[x])
    BY Zenon DEF Recoloured
  <2>1. w.red[x] <=> x \notin {n, far} /\ (x \in {q, s} \/ v.red[x])
    BY Zenon, <1>15 DEF Recoloured
  <2>2. v.red[x] = IF x = s THEN FALSE ELSE IF x = n THEN TRUE ELSE t.red[x]
    BY ZenonT(40), <1>6, <1>10 DEF IsTurned
  <2> QED BY <2>1, <2>2
<1>17. (\E bh2 \in Heights : Even(w, N, bh2)) /\ Cool(w, N)
  <2>1. Recoloured(w, t, {n, t.child[t.child[n][o]][o]}, {t.child[n][d], t.child[n][o]})
    BY <1>10, <1>16
  <2>2. ~Red(t, t.child[t.child[n][o]][d]) /\ Red(t, t.child[t.child[n][o]][o])
    BY <1>10 DEF d, n
  <2>3. t.child[at.p][e] = n /\ Slot(N, at.p, e) /\ e \in Dirs /\ o \in Dirs
    BY DEF n
  <2>4. w \in Links /\ w.child = v.child
    BY <1>15
  <2>5. IsTurned(v, t, at.p, e, n, d, o) /\ Lending(t, at.p, n, d, o)
    BY <1>3, <1>6
  <2> QED BY <1>1, <1>2, <1>3, <1>10, <2>1, <2>2, <2>3, <2>4, <2>5, BorrowOnce
<1>18. Tree(w, N, lo2, hi2)
  BY <1>7, <1>15, PaintTree
<1>19. Still(lo2, hi2, lo, hi, n, s, d)
  <2>1. lo \in [Keys -> Int] /\ hi \in [Keys -> Int]
    BY <1>1 DEF Tree
  <2> QED BY <1>3, <1>8, <2>1, TurnedStill DEF lo2, hi2
<1>20. w.child[n][d] = q /\ w.red[q]
  BY Zenon, <1>8, <1>9, <1>12, <1>15, <1>16 DEF Recoloured
<1>21. d = 1 => s < q /\ n < q
  BY <1>5 DEF Around
<1>22. Shape(w, N, lo2, hi2)
  BY <1>17, <1>18 DEF Shape
<1>23. Borrowing(w, N, lo2, hi2, lo, hi, q, {n, s})
  <2> DEFINE moved == {n, s}
  <2>1. moved \subseteq Keys /\ q \notin moved
    BY <1>8
  <2>2. \A x \in Keys : x \notin moved => lo2[x] = lo[x] /\ hi2[x] = hi[x]
    BY <1>19 DEF Still
  <2>3. at.dir = 0 => lo2[at.q] = lo[at.q]
    BY <1>19 DEF Still, n, d
  <2>4. at.dir = 1 => \A x \in moved : x < q
    BY <1>21 DEF d
  <2>5. at.q \in N /\ w.child[at.q][at.dir] = q /\ w.red[q]
    BY <1>3, <1>20 DEF n, d
  <2> HIDE DEF moved
  <2>6. Borrowing(w, N, lo2, hi2, lo, hi, q, moved)
    BY Zenon, <1>22, <2>1, <2>2, <2>3, <2>4, <2>5 DEF Borrowing
  <2> QED BY <2>6 DEF moved
<1>24. Deleting(w, N, lo2, hi2, a)
  BY <1>23, DeleteBorrowed
<1> QED BY <1>22, <1>24

(* TwiceInTree without its second theorem *)
LEMMA TwiceTurned ==
    ASSUME NEW u, NEW N, NEW lo, NEW hi, Tree(u, N, lo, hi),
           NEW m, NEW e, e \in Dirs, Slot(N, m, e), NEW n, n \in N, u.child[m][e] = n,
           NEW d, d \in Dirs, NEW o, o \in Dirs, o # d, NEW r, r = u.child[n][o], r # Null,
           NEW c, c = u.child[r][d], c # Null
    PROVE  /\ IsTurnedTwice(TurnedTwice(u, m, e, n, d), u, m, e, n, d, o)
           /\ Tree(TurnedTwice(u, m, e, n, d), N,
                   LoTurned(LoTurned(lo, r, c, o), n, c, d), HiTurned(HiTurned(hi, r, c, o), n, c, d))
<1>1. 1 - d = o
  BY DEF Dirs
<1>2. u.child[n][1 - d] # Null /\ u.child[u.child[n][1 - d]][d] # Null
  BY <1>1
<1>3. LET rr == u.child[n][1 - d]
          ss == u.child[rr][d]
      IN /\ IsTurnedTwice(TurnedTwice(u, m, e, n, d), u, m, e, n, d, 1 - d)
         /\ Tree(TurnedTwice(u, m, e, n, d), N,
                 LoTurned(LoTurned(lo, rr, ss, 1 - d), n, ss, d),
                 HiTurned(HiTurned(hi, rr, ss, 1 - d), n, ss, d))
  BY <1>2, TwiceInTree
<1> QED BY <1>1, <1>3

(* IsTurnedTwice with names for the nodes. *)
TwiceSeen(v, u, m, e, n, d, o, r, c) ==
    /\ \A x \in Nodes, f \in Dirs :
          v.child[x][f] = IF x = n /\ f = o THEN u.child[c][d]
                          ELSE IF x = r /\ f = d THEN u.child[c][o]
                          ELSE IF x = c THEN IF f = d THEN n ELSE r
                          ELSE IF x = m /\ f = e THEN c
                          ELSE u.child[x][f]
    /\ \A x \in Nodes :
          v.red[x] = IF x = c THEN FALSE ELSE IF x \in {n, r} THEN TRUE ELSE u.red[x]

(* A double rotation, with names for the nodes. *)
LEMMA TwiceSees ==
    ASSUME NEW u, NEW v, NEW m, NEW e, NEW n, NEW d, NEW o, IsTurnedTwice(v, u, m, e, n, d, o),
           NEW r, r = u.child[n][o], NEW c, c = u.child[r][d]
    PROVE  TwiceSeen(v, u, m, e, n, d, o, r, c)
BY ZenonT(40) DEF IsTurnedTwice, TwiceSeen

(* The colours of a red-black tree *)
Evened(w, N) == (\E bh2 \in Heights : Even(w, N, bh2)) /\ Cool(w, N)

(* BorrowTwice, with names for the nodes. *)
LEMMA BorrowTwiceEvens ==
    ASSUME NEW u, NEW N, NEW lo, NEW hi, Tree(u, N, lo, hi), NEW bh, bh \in Heights, Even(u, N, bh),
           Cool(u, N),
           NEW m, NEW e, e \in Dirs, Slot(N, m, e), NEW n, n \in N, u.child[m][e] = n,
           NEW d, d \in Dirs, NEW o, o \in Dirs, o # d, Lending(u, m, n, d, o),
           NEW q, q = u.child[n][d], NEW r, r = u.child[n][o], NEW c, c = u.child[r][d], Red(u, c),
           NEW v, IsTurnedTwice(v, u, m, e, n, d, o),
           NEW w, w \in Links, w.child = v.child, Recoloured(w, u, {n, r}, {q, c})
    PROVE  Evened(w, N)
<1>1. Red(u, u.child[u.child[n][o]][d])
      /\ Recoloured(w, u, {n, u.child[n][o]}, {u.child[n][d], u.child[u.child[n][o]][d]})
  OBVIOUS
<1> QED BY <1>1, BorrowTwice DEF Evened

(* The near child of the sibling is red: two turns *)
LEMMA DeleteBorrowTwice ==
    ASSUME NEW N, NEW lo, NEW hi, Shape(t, N, lo, hi), Deleting(t, N, lo, hi, at),
           NEW q, q = t.child[at.q][at.dir], q # Null, NEW a, Followed(a, q), a.p = at.q,
           NEW s, NEW o, o \in Dirs, o # at.dir, s = t.child[at.q][o], s # Null,
           at.q \in N, at.dir \in Dirs, Lending(t, at.p, at.q, at.dir, o),
           NEW c, c = t.child[s][at.dir], Red(t, c),
           NEW e, e \in Dirs, Slot(N, at.p, e), t.child[at.p][e] = at.q,
           NEW v, v = TurnedTwice(t, at.p, e, at.q, at.dir),
           NEW w, w = Lent(v, q, c)
    PROVE  \E lo2, hi2 : Shape(w, N, lo2, hi2) /\ Deleting(w, N, lo2, hi2, a)
<1> DEFINE n == at.q
           d == at.dir
           lo1 == LoTurned(lo, s, c, o)
           hi1 == HiTurned(hi, s, c, o)
           lo2 == LoTurned(lo1, n, c, d)
           hi2 == HiTurned(hi1, n, c, d)
<1>0. c # Null
  BY Zenon DEF Red
<1>1. Tree(t, N, lo, hi) /\ Cool(t, N) /\ N \subseteq Keys
  BY DEF Shape, Tree
<1>2. PICK bh \in Heights : Even(t, N, bh)
  BY DEF Shape
<1>3. n \in N /\ d \in Dirs /\ Lending(t, at.p, n, d, o)
  OBVIOUS
<1>4. Kin(t, N, at.p, e, n, d, o)
  BY <1>1, <1>3, Family
<1>5. Around(N, n, q, s, c, d)
  BY <1>1, <1>3, AroundFacts
<1>6. IsTurnedTwice(v, t, at.p, e, n, d, o) /\ Tree(v, N, lo2, hi2)
  BY ZenonT(40), <1>0, <1>1, <1>3, TwiceTurned
<1>60. TwiceSeen(v, t, at.p, e, n, d, o, s, c)
  BY Zenon, <1>6, TwiceSees
<1>7. Still(lo1, hi1, lo, hi, s, c, o)
  <2>1. lo \in [Keys -> Int] /\ hi \in [Keys -> Int]
    BY <1>1 DEF Tree
  <2>2. s \in Keys /\ c \in Keys /\ c # s
    BY Zenon, <1>0, <1>5 DEF Around
  <2> QED BY Zenon, <2>1, <2>2, TurnedStill
<1> HIDE DEF lo1, hi1
<1>8. Still(lo2, hi2, lo1, hi1, n, c, d)
  <2>1. lo1 \in [Keys -> Int] /\ hi1 \in [Keys -> Int]
    BY Zenon, <1>7 DEF Still
  <2>2. n \in Keys /\ c \in Keys /\ c # n
    BY Zenon, <1>0, <1>5 DEF Around
  <2> QED BY <1>3, <2>1, <2>2, TurnedStill
<1> HIDE DEF lo2, hi2
<1>9. n \in Nodes /\ s \in Nodes /\ n \in Keys /\ s \in Keys /\ q \in Keys /\ q \in Nodes
      /\ s # n /\ q # n /\ q # s /\ c \in Keys /\ c \in Nodes /\ c # q /\ c # n /\ c # s
  BY Zenon, <1>0, <1>5, Sets DEF Around
<1>10. at.p # n /\ at.p # s /\ at.p # c
  BY Zenon, <1>4 DEF Kin
<1> HIDE DEF n, d
<1>11. d # o /\ q = t.child[n][d] /\ s = t.child[n][o] /\ c = t.child[s][d] /\ t.child[at.p][e] = n
  BY DEF n, d
<1>12. v.child[c][d] = n /\ v.child[c][o] = s
  BY Zenon, <1>3, <1>60, <1>9, <1>11 DEF TwiceSeen
<1>13. v.child[n][d] = q
  BY Zenon, <1>3, <1>60, <1>9, <1>10, <1>11 DEF TwiceSeen
<1>14. {v.child[c][0], v.child[c][1]} = {n, s}
  <2>1. (d = 0 /\ o = 1) \/ (d = 1 /\ o = 0)
    <3>1. d \in {0, 1} /\ o \in {0, 1} /\ d # o
      BY <1>3, <1>11 DEF Dirs
    <3> QED BY <3>1
  <2>2. CASE d = 0 /\ o = 1
    BY Zenon, <1>12, <2>2
  <2>3. CASE d = 1 /\ o = 0
    <3>1. v.child[c][1] = n /\ v.child[c][0] = s
      BY Zenon, <1>12, <2>3
    <3> QED BY Zenon, <3>1
  <2> QED BY Zenon, <2>1, <2>2, <2>3
<1>15. IsRecoloured(w, v, {n, s}, {q, c})
  <2>1. v \in Links
    BY <1>6 DEF Tree
  <2>2. w = Painted(Painted(v, {q, c}, TRUE), {n, s}, FALSE)
    BY Zenon, <1>14 DEF Lent
  <2> QED BY Zenon, <2>1, <2>2, PaintBlack
<1>16. w \in Links /\ w.child = v.child /\ w.parent = v.parent /\ Recoloured(w, v, {n, s}, {q, c})
  BY Zenon, <1>15 DEF IsRecoloured
<1>17. Recoloured(w, t, {n, s}, {q, c})
  <2> SUFFICES ASSUME NEW x \in Nodes PROVE w.red[x] <=> x \notin {n, s} /\ (x \in {q, c} \/ t.red[x])
    BY Zenon DEF Recoloured
  <2>1. w.red[x] <=> x \notin {n, s} /\ (x \in {q, c} \/ v.red[x])
    BY Zenon, <1>16 DEF Recoloured
  <2>2. v.red[x] = IF x = c THEN FALSE ELSE IF x \in {n, s} THEN TRUE ELSE t.red[x]
    BY Zenon, <1>60 DEF TwiceSeen
  <2> QED BY Zenon, <2>1, <2>2
<1>18. (\E bh2 \in Heights : Even(w, N, bh2)) /\ Cool(w, N)
  <2>1. t.child[at.p][e] = n /\ Slot(N, at.p, e) /\ e \in Dirs /\ o \in Dirs
    BY <1>11
  <2>2. w \in Links /\ w.child = v.child
    BY Zenon, <1>16
  <2>3. IsTurnedTwice(v, t, at.p, e, n, d, o) /\ Lending(t, at.p, n, d, o)
    BY <1>3, <1>6
  <2>4. Tree(t, N, lo, hi) /\ Cool(t, N) /\ bh \in Heights /\ Even(t, N, bh)
        /\ n \in N /\ d \in Dirs /\ o # d
    BY <1>1, <1>2, <1>3, <1>11
  <2>5. Evened(w, N)
    BY <1>11, <1>17, <2>1, <2>2, <2>3, <2>4, BorrowTwiceEvens
  <2> QED BY Zenon, <2>5 DEF Evened
<1>19. Tree(w, N, lo2, hi2)
  BY Zenon, <1>6, <1>16, PaintTree
<1>20. w.child[n][d] = q /\ w.red[q]
  BY Zenon, <1>9, <1>13, <1>16, <1>17 DEF Recoloured
<1>21. d = 1 => s < q /\ n < q /\ c < q
  BY <1>0, <1>5 DEF Around, d, n
<1>22. Shape(w, N, lo2, hi2)
  BY Zenon, <1>18, <1>19 DEF Shape
<1>23. Borrowing(w, N, lo2, hi2, lo, hi, q, {n, s, c})
  <2> DEFINE moved == {n, s, c}
  <2>1. moved \subseteq Keys /\ q \notin moved
    BY Zenon, <1>9
  <2>2. \A x \in Keys : x \notin moved => lo2[x] = lo[x] /\ hi2[x] = hi[x]
    BY Zenon, <1>7, <1>8 DEF Still
  <2>3. at.dir = 0 => lo2[at.q] = lo[at.q]
    <3>1. lo1[n] = lo[n]
      BY Zenon, <1>7, <1>9 DEF Still
    <3> QED BY <1>8, <3>1 DEF Still, n, d
  <2>4. at.dir = 1 => \A x \in moved : x < q
    BY <1>21 DEF d
  <2>5. at.q \in N /\ w.child[at.q][at.dir] = q /\ w.red[q]
    BY Zenon, <1>3, <1>20 DEF n, d
  <2> HIDE DEF moved
  <2>6. Borrowing(w, N, lo2, hi2, lo, hi, q, moved)
    BY Zenon, <1>22, <2>1, <2>2, <2>3, <2>4, <2>5 DEF Borrowing
  <2> QED BY Zenon, <2>6 DEF moved
<1>24. Deleting(w, N, lo2, hi2, a)
  BY Zenon, <1>23, DeleteBorrowed
<1> QED BY Zenon, <1>22, <1>24

(* remove goes on below q, and p is the parent. *)
NextAt(q, p) == [at EXCEPT !.g = at.p, !.q = q, !.dir = Less(q, at.key), !.p = p,
                           !.f = IF q = at.key THEN q ELSE @]

(* How the locals of remove go one step down. *)
LEMMA NextFollowed ==
    ASSUME NEW N, NEW lo, NEW hi, Tree(t, N, lo, hi), Deleting(t, N, lo, hi, at),
           NEW q, q = t.child[at.q][at.dir], q # Null, NEW p, p \in Refs
    PROVE  Followed(NextAt(q, p), q) /\ NextAt(q, p).p = p /\ NextAt(q, p).dir \in Dirs
<1>1. AtNext(N, lo, hi, q)
  BY NextQ
<1>2. q \in Refs /\ q \in Int /\ at.key \in Int
  BY <1>1, Sets DEF AtNext
<1>3. Less(q, at.key) \in Dirs
  BY <1>2, LessDirs
<1>4. at \in Locals
  BY DEF Deleting
<1> QED BY Zenon, <1>2, <1>3, <1>4 DEF Followed, NextAt, Locals

(* One iteration of remove's loop, by its cases *)
Walked(w, a, q, s, d, o) ==
    \/ /\ ~Red(t, q) /\ ~Red(t, t.child[q][d]) /\ Red(t, t.child[q][o])
       /\ w = Turned(t, at.q, at.dir, q, d) /\ a = NextAt(q, t.child[q][o])
    \/ /\ ~Red(t, q) /\ (\A f \in Dirs : ~Red(t, t.child[q][f])) /\ s # Null
       /\ \A f \in Dirs : ~Red(t, t.child[s][f])
       /\ w = Painted(Painted(t, {at.q}, FALSE), {s, q}, TRUE) /\ a = NextAt(q, at.q)
    \/ /\ ~Red(t, q) /\ (\A f \in Dirs : ~Red(t, t.child[q][f])) /\ s # Null
       /\ \E f \in Dirs : Red(t, t.child[s][f])
       /\ w = Borrowed(t, at.p, at.q, q, at.dir) /\ a = NextAt(q, at.q)
    \/ /\ \/ Red(t, q) \/ Red(t, t.child[q][d])
          \/ ~Red(t, t.child[q][o]) /\ s = Null
       /\ w = t /\ a = NextAt(q, at.q)

(* An iteration of remove is one of these cases, and it never runs       *)
(* without a next node.                                                  *)
LEMMA RemoveWalks ==
    ASSUME NEW N, NEW lo, NEW hi, Tree(t, N, lo, hi), Deleting(t, N, lo, hi, at), RemoveDown,
           NEW q, q = t.child[at.q][at.dir]
    PROVE  /\ q # Null
           /\ Walked(t', at', q, t.child[at.q][1 - at.dir], Less(q, at.key), 1 - Less(q, at.key))
<1> DEFINE d == Less(q, at.key)
           s == t.child[at.q][1 - at.dir]
           turn == ~Red(t, q) /\ ~Red(t, t.child[q][d]) /\ Red(t, t.child[q][1 - d])
           push == ~Red(t, q) /\ ~Red(t, t.child[q][d]) /\ ~turn /\ s # Null
           flip == push /\ ~Red(t, t.child[s][0]) /\ ~Red(t, t.child[s][1])
<1>1. q # Null
  BY Zenon DEF RemoveDown
<1>2. /\ t' = IF turn THEN Hung(Rotate(t, q, d), at.q, at.dir, Top(t, q, d))
              ELSE IF flip THEN Painted(Painted(t, {at.q}, FALSE), {s, q}, TRUE)
              ELSE IF push THEN Borrowed(t, at.p, at.q, q, at.dir)
              ELSE t
      /\ at' = [at EXCEPT !.g = at.p, !.q = q, !.dir = d,
                          !.p = IF turn THEN Top(t, q, d) ELSE at.q,
                          !.f = IF q = at.key THEN q ELSE @]
  BY Zenon DEF RemoveDown
<1>3. AtNext(N, lo, hi, q)
  BY <1>1, NextQ
<1>4. q \in Int /\ at.key \in Int
  BY <1>3 DEF AtNext
<1>5. (d = 0 /\ 1 - d = 1) \/ (d = 1 /\ 1 - d = 0)
  BY <1>4 DEF Less
<1>6. CASE turn
  <2>1. t' = Turned(t, at.q, at.dir, q, d)
    BY <1>2, <1>6 DEF Turned
  <2>2. at' = NextAt(q, t.child[q][1 - d])
    BY Zenon, <1>2, <1>6 DEF Top, NextAt
  <2> QED BY Zenon, <1>1, <1>6, <2>1, <2>2 DEF Walked
<1>7. CASE ~turn
  <2>1. at' = NextAt(q, at.q)
    <3> HIDE DEF turn
    <3> QED BY <1>2, <1>7 DEF NextAt
  <2>2. push => ~Red(t, q) /\ (\A f \in Dirs : ~Red(t, t.child[q][f])) /\ s # Null
    BY <1>5, <1>7 DEF Dirs
  <2>3. CASE flip
    <3>1. t' = Painted(Painted(t, {at.q}, FALSE), {s, q}, TRUE)
      <4> HIDE DEF turn, flip
      <4> QED BY <1>2, <1>7, <2>3
    <3>2. \A f \in Dirs : ~Red(t, t.child[s][f])
      BY <2>3 DEF Dirs
    <3> QED BY Zenon, <1>1, <2>1, <2>2, <2>3, <3>1, <3>2 DEF Walked
  <2>4. CASE push /\ ~flip
    <3>1. t' = Borrowed(t, at.p, at.q, q, at.dir)
      <4> HIDE DEF turn, flip, push
      <4> QED BY <1>2, <1>7, <2>4
    <3>2. \E f \in Dirs : Red(t, t.child[s][f])
      BY Zenon, <2>4 DEF Dirs
    <3> QED BY Zenon, <1>1, <2>1, <2>2, <2>4, <3>1, <3>2 DEF Walked
  <2>5. CASE ~push
    <3>1. t' = t
      <4>1. ~flip
        BY <2>5
      <4> HIDE DEF turn, flip, push
      <4> QED BY <1>2, <1>7, <2>5, <4>1
    <3>2. \/ Red(t, q) \/ Red(t, t.child[q][d])
          \/ ~Red(t, t.child[q][1 - d]) /\ s = Null
      BY <1>7, <2>5
    <3> QED BY Zenon, <1>1, <2>1, <3>1, <3>2 DEF Walked
  <2> QED BY <2>3, <2>4, <2>5
<1> QED BY <1>6, <1>7

(* Borrowing keeps the shape. *)
LEMMA DeleteBorrow ==
    ASSUME NEW N, NEW lo, NEW hi, Shape(t, N, lo, hi), Deleting(t, N, lo, hi, at),
           NEW q, q = t.child[at.q][at.dir], q # Null, NEW a, Followed(a, q), a.p = at.q,
           NEW s, s = t.child[at.q][1 - at.dir], s # Null,
           ~Red(t, q), \A f \in Dirs : ~Red(t, t.child[q][f]), \E f \in Dirs : Red(t, t.child[s][f])
    PROVE  \E lo2, hi2 : /\ Shape(Borrowed(t, at.p, at.q, q, at.dir), N, lo2, hi2)
                         /\ Deleting(Borrowed(t, at.p, at.q, q, at.dir), N, lo2, hi2, a)
<1>1. PICK o \in Dirs : o = 1 - at.dir /\ o # at.dir
  <2>1. at.dir \in Dirs
    BY DEF Deleting, Locals
  <2> QED BY <2>1 DEF Dirs
<1>2. s = t.child[at.q][o]
  BY <1>1
<1>3. /\ at.q \in N /\ at.dir \in Dirs /\ Under(t, N, at.q, at.p)
      /\ Lending(t, at.p, at.q, at.dir, o)
  BY <1>1, <1>2, LendingFacts
<1>4. PICK e \in Dirs : Slot(N, at.p, e) /\ t.child[at.p][e] = at.q
  BY <1>3 DEF Under
<1>5. at.q # Null /\ Tree(t, N, lo, hi)
  BY <1>3, Sets DEF Tree, Shape
<1>6. e = 0 => t.child[at.p][1] # at.q
  <2> SUFFICES ASSUME e = 0, t.child[at.p][1] = at.q PROVE FALSE
    OBVIOUS
  <2>1. Slot(N, at.p, 1) /\ 1 \in Dirs
    BY <1>4 DEF Slot, Dirs
  <2> QED BY <1>4, <1>5, <2>1, OnePlace
<1> DEFINE c == t.child[s][at.dir]
           v1 == Turned(t, at.p, e, at.q, at.dir)
           v2 == TurnedTwice(t, at.p, e, at.q, at.dir)
<1>7. Borrowed(t, at.p, at.q, q, at.dir) = IF Red(t, c) THEN Lent(v2, q, c) ELSE Lent(v1, q, s)
  <2>1. e \in Dirs /\ t.child[at.p][e] = at.q /\ (e = 0 => t.child[at.p][1] # at.q)
    BY <1>4, <1>6
  <2>2. e = IF t.child[at.p][1] = at.q THEN 1 ELSE 0
    BY <2>1 DEF Dirs
  <2>3. /\ v1 = Hung(Rotate(t, at.q, at.dir), at.p, e, Top(t, at.q, at.dir))
        /\ v2 = Hung(Rotate2(t, at.q, at.dir), at.p, e, Top2(t, at.q, at.dir))
    BY DEF Turned, TurnedTwice
  <2>4. Top(t, at.q, at.dir) = s /\ Top2(t, at.q, at.dir) = c
    BY DEF Top, Top2
  <2> HIDE DEF v1, v2, c
  <2>5. c = t.child[s][at.dir]
    BY DEF c
  <2> QED BY Zenon, <2>2, <2>3, <2>4, <2>5 DEF Borrowed, Lent
<1> HIDE DEF v1, v2, c
<1>8. CASE Red(t, c)
  <2>1. \E lo2, hi2 : Shape(Lent(v2, q, c), N, lo2, hi2) /\ Deleting(Lent(v2, q, c), N, lo2, hi2, a)
    BY Zenon, <1>1, <1>2, <1>3, <1>4, <1>8, DeleteBorrowTwice DEF v2, c
  <2> QED BY <1>7, <1>8, <2>1
<1>9. CASE ~Red(t, c)
  <2>1. Red(t, t.child[s][o])
    <3>1. PICK f \in Dirs : Red(t, t.child[s][f])
      OBVIOUS
    <3>2. f # at.dir
      BY Zenon, <1>9, <3>1 DEF c
    <3>3. f = o
      BY <1>1, <1>3, <3>2 DEF Dirs
    <3> QED BY <3>1, <3>3
  <2>2. \E lo2, hi2 : Shape(Lent(v1, q, s), N, lo2, hi2) /\ Deleting(Lent(v1, q, s), N, lo2, hi2, a)
    BY Zenon, <1>1, <1>2, <1>3, <1>4, <1>9, <2>1, DeleteBorrowOnce DEF v1, c
  <2> QED BY <1>7, <1>9, <2>2
<1> QED BY <1>8, <1>9

(* remove's walk down keeps the tree in shape. *)
LEMMA RemoveDownShape ==
    ASSUME NEW N, NEW lo, NEW hi, Shape(t, N, lo, hi), Deleting(t, N, lo, hi, at),
           NEW w, NEW a, NEW q, q = t.child[at.q][at.dir], q # Null,
           Walked(w, a, q, t.child[at.q][1 - at.dir], Less(q, at.key), 1 - Less(q, at.key))
    PROVE  \E lo2, hi2 : Shape(w, N, lo2, hi2) /\ Deleting(w, N, lo2, hi2, a)
<1> DEFINE d == Less(q, at.key)
           s == t.child[at.q][1 - at.dir]
<1>1. Tree(t, N, lo, hi)
  BY DEF Shape
<1>2. AtNext(N, lo, hi, q)
  BY <1>1, NextQ
<1>3. /\ q \in N /\ q \in Int /\ at.key \in Int /\ q \in Nodes
      /\ Slot(N, at.q, at.dir) /\ at.dir \in Dirs /\ t \in Links /\ at.q \in Refs
  BY Zenon, <1>1, <1>2, Sets DEF AtNext, Tree, Slot
<1>4. d \in Dirs
  BY <1>3, LessDirs
<1>5. 1 - d \in Dirs /\ 1 - d # d
  BY <1>4 DEF Dirs
<1>6. t.child[q][1 - d] \in Refs
  BY <1>3, <1>5 DEF Links
<1>7. ASSUME NEW p \in Refs, a = NextAt(q, p)
      PROVE  Followed(a, q) /\ a.p = p /\ a.dir = d
  <2>1. Followed(a, q) /\ a.p = p
    BY <1>1, <1>7, NextFollowed
  <2> QED BY <2>1 DEF Followed
<1> HIDE DEF d, s
<1>8. Walked(w, a, q, s, d, 1 - d)
  BY DEF d, s
<1>9. CASE /\ ~Red(t, q) /\ ~Red(t, t.child[q][d]) /\ Red(t, t.child[q][1 - d])
           /\ w = Turned(t, at.q, at.dir, q, d) /\ a = NextAt(q, t.child[q][1 - d])
  <2>1. Followed(a, q) /\ a.p = t.child[q][1 - d] /\ a.dir = d
    BY Zenon, <1>6, <1>7, <1>9
  <2>2. t.child[q][1 - d] # Null
    BY Zenon, <1>9 DEF Red
  <2>3. IsTurned(w, t, at.q, at.dir, q, d, 1 - d)
    BY Zenon, <1>1, <1>3, <1>4, <1>9, <2>2, TurnInTree
  <2> QED BY Zenon, <1>5, <1>9, <2>1, <2>3, DeleteTurn
<1>10. CASE /\ ~Red(t, q) /\ (\A f \in Dirs : ~Red(t, t.child[q][f])) /\ s # Null
            /\ \A f \in Dirs : ~Red(t, t.child[s][f])
            /\ w = Painted(Painted(t, {at.q}, FALSE), {s, q}, TRUE) /\ a = NextAt(q, at.q)
  <2>1. Followed(a, q) /\ a.p = at.q
    BY <1>3, <1>7, <1>10
  <2>2. PICK o \in Dirs : o = 1 - at.dir /\ o # at.dir
    BY <1>3 DEF Dirs
  <2>3. s = t.child[at.q][o]
    BY <2>2 DEF s
  <2> QED BY Zenon, <1>10, <2>1, <2>2, <2>3, DeleteFlip
<1>11. CASE /\ ~Red(t, q) /\ (\A f \in Dirs : ~Red(t, t.child[q][f])) /\ s # Null
            /\ \E f \in Dirs : Red(t, t.child[s][f])
            /\ w = Borrowed(t, at.p, at.q, q, at.dir) /\ a = NextAt(q, at.q)
  <2>1. Followed(a, q) /\ a.p = at.q
    BY <1>3, <1>7, <1>11
  <2>2. s = t.child[at.q][1 - at.dir]
    BY DEF s
  <2> QED BY Zenon, <1>11, <2>1, <2>2, DeleteBorrow
<1>12. CASE /\ \/ Red(t, q) \/ Red(t, t.child[q][d])
               \/ ~Red(t, t.child[q][1 - d]) /\ s = Null
            /\ w = t /\ a = NextAt(q, at.q)
  <2>1. Followed(a, q) /\ a.p = at.q /\ a.dir = d
    BY <1>3, <1>7, <1>12
  <2>2. \/ Red(t, q) \/ Red(t, t.child[q][a.dir])
        \/ ~Red(t, t.child[q][1 - a.dir]) /\ t.child[at.q][1 - at.dir] = Null
    BY <1>12, <2>1 DEF s
  <2>3. Deleting(t, N, lo, hi, a)
    BY <2>1, <2>2, DeleteKeep
  <2> QED BY <1>12, <2>3
<1> QED BY Zenon, <1>8, <1>9, <1>10, <1>11, <1>12 DEF Walked

(* The bounds of a node are nodes, or the ends. *)
LEMMA BoundNodes ==
    ASSUME NEW u, NEW N, NEW lo, NEW hi, Tree(u, N, lo, hi)
    PROVE  \A n \in N : lo[n] \in N \cup {0} /\ hi[n] \in N \cup {MaxKey + 1}
<1>1. \A n \in N : n \in Nat /\ n < MaxKey + 1 /\ lo[n] \in Int /\ hi[n] \in Int /\ n \in Int
  BY Bounds
<1>2. MaxKey \in Int
  BY Sets
<1>3. ASSUME NEW n0 \in N, lo[n0] \notin N \cup {0} PROVE FALSE
  <2> DEFINE T == {k \in Nat : \E n \in N : lo[n] \notin N \cup {0} /\ k = MaxKey - n}
  <2>1. MaxKey - n0 \in T
    BY <1>1, <1>2, <1>3
  <2>2. PICK k \in T : \A y \in T : k <= y
    <3>1. T \subseteq Nat /\ T # {}
      BY <2>1
    <3> HIDE DEF T
    <3> QED BY Zenon, <3>1, LeastNumber
  <2>3. PICK n \in N : lo[n] \notin N \cup {0} /\ k = MaxKey - n
    OBVIOUS
  <2>4. PICK m \in N, d \in Dirs : u.child[m][d] = n
    BY <2>3, ParentSlot
  <2>5. n # Null /\ (d = 0 \/ d = 1)
    BY Sets DEF Tree
  <2>6. IsNested(N, lo, hi, m, d, n)
    BY <2>4, <2>5, NestedFacts
  <2>7. lo[m] = lo[n] /\ n < m
    BY <2>3, <2>4, <2>5, <2>6 DEF IsNested
  <2>8. MaxKey - m \in T /\ MaxKey - m < k
    <3>1. MaxKey - m \in Nat /\ MaxKey - m < MaxKey - n
      BY <1>1, <1>2, <2>7
    <3> QED BY <2>3, <2>4, <2>7, <3>1
  <2>9. k \in Nat
    OBVIOUS
  <2> QED BY <1>1, <1>2, <2>2, <2>8, <2>9
<1>4. ASSUME NEW n0 \in N, hi[n0] \notin N \cup {MaxKey + 1} PROVE FALSE
  <2> DEFINE T == {n \in N : hi[n] \notin N \cup {MaxKey + 1}}
  <2>1. n0 \in T
    BY <1>4
  <2>2. PICK n \in T : \A y \in T : n <= y
    <3>1. T \subseteq Nat /\ T # {}
      BY <1>1, <2>1
    <3> HIDE DEF T
    <3> QED BY Zenon, <3>1, LeastNumber
  <2>4. PICK m \in N, d \in Dirs : u.child[m][d] = n
    BY <2>2, ParentSlot
  <2>5. n # Null /\ (d = 0 \/ d = 1)
    BY Sets DEF Tree
  <2>6. IsNested(N, lo, hi, m, d, n)
    BY <2>2, <2>4, <2>5, NestedFacts
  <2>7. hi[m] = hi[n] /\ m < n
    BY <2>2, <2>4, <2>5, <2>6 DEF IsNested
  <2> QED BY <1>1, <2>2, <2>4, <2>7
<1> QED BY <1>3, <1>4

(* The leaf q is taken out from below (p, e) and left blank. *)
IsCut(w, u, p, e, q) ==
    /\ w \in Links
    /\ \A x \in Nodes, f \in Dirs :
          w.child[x][f] = IF x = q \/ (x = p /\ f = e) THEN Null ELSE u.child[x][f]
    /\ \A x \in Nodes : w.parent[x] = IF x = q THEN Null ELSE u.parent[x]
    /\ \A x \in Nodes : w.red[x] <=> x # q /\ u.red[x]

(* Without a leaf the others are a search tree. *)
LEMMA CutTree ==
    ASSUME NEW u, NEW N, NEW lo, NEW hi, Tree(u, N, lo, hi),
           NEW p, NEW e, e \in Dirs, Slot(N, p, e), NEW q, q \in N, u.child[p][e] = q,
           \A f \in Dirs : u.child[q][f] = Null,
           NEW w, IsCut(w, u, p, e, q)
    PROVE  Tree(w, N \ {q}, lo, hi)
<1> DEFINE M == N \ {q}
<1>1. /\ N \subseteq Keys /\ N \subseteq Nodes /\ Null \notin N /\ FalseRoot \notin N /\ q \in Nodes /\ q # Null
      /\ FalseRoot \in Nodes /\ q # FalseRoot /\ p \in Nodes /\ M \subseteq Keys /\ FalseRoot # Null
  BY Sets DEF Tree, Slot
<1>2. /\ \A m \in Nodes, d \in Dirs : Slot(N, m, d) => u.child[m][d] \in N \cup {Null}
      /\ \A m \in Nodes, d \in Dirs : ~Slot(N, m, d) => u.child[m][d] = Null
      /\ \A m \in N, d \in Dirs : u.child[m][d] # Null => u.parent[u.child[m][d]] = m
      /\ \A n \in N : \/ n = u.child[FalseRoot][1] /\ u.parent[n] \in {Null, FalseRoot}
                      \/ u.parent[n] \in N /\ \E d \in Dirs : u.child[u.parent[n]][d] = n
      /\ \A k \in Keys \ N : u.parent[k] = Null
  BY DEF Tree, Linked
<1>3. \A x \in Nodes, f \in Dirs : Slot(N, x, f) /\ u.child[x][f] = q => x = p /\ f = e
  BY <1>1, OnlyThere
<1>4. p # q
  BY <1>1
<1>5. /\ w \in Links
      /\ \A x \in Nodes, f \in Dirs :
            w.child[x][f] = IF x = q \/ (x = p /\ f = e) THEN Null ELSE u.child[x][f]
      /\ \A x \in Nodes : w.parent[x] = IF x = q THEN Null ELSE u.parent[x]
  BY DEF IsCut
<1>6. \A x \in Nodes, f \in Dirs : /\ Slot(M, x, f) <=> Slot(N, x, f) /\ x # q
                                   /\ Slot(N, x, f) => x \in N \/ x = FalseRoot
  BY <1>1 DEF Slot
<1> HIDE DEF M
<1>7. \A x : x \in M <=> x \in N /\ x # q
  BY DEF M
<1>8. Linked(w, M)
  <2>1. ASSUME NEW m \in Nodes, NEW d \in Dirs PROVE Slot(M, m, d) => w.child[m][d] \in M \cup {Null}
    <3> SUFFICES ASSUME Slot(M, m, d), w.child[m][d] # Null PROVE w.child[m][d] \in M
      OBVIOUS
    <3>1. Slot(N, m, d) /\ m # q /\ ~(m = p /\ d = e) /\ w.child[m][d] = u.child[m][d]
      BY <1>5, <1>6
    <3>2. u.child[m][d] \in N /\ u.child[m][d] # q
      BY <1>2, <1>3, <3>1
    <3> QED BY <1>7, <3>1, <3>2
  <2>2. ASSUME NEW m \in Nodes, NEW d \in Dirs PROVE ~Slot(M, m, d) => w.child[m][d] = Null
    BY <1>2, <1>5, <1>6
  <2>3. ASSUME NEW m \in M, NEW d \in Dirs, w.child[m][d] # Null PROVE w.parent[w.child[m][d]] = m
    <3>1. m \in N /\ m # q /\ m \in Nodes
      BY <1>1, <1>7
    <3>2. w.child[m][d] = u.child[m][d] /\ ~(m = p /\ d = e)
      BY <1>5, <2>3, <3>1
    <3>3. Slot(N, m, d)
      BY <3>1 DEF Slot
    <3>4. u.child[m][d] \in N /\ u.child[m][d] # q
      BY <1>2, <1>3, <2>3, <3>1, <3>2, <3>3
    <3> QED BY <1>1, <1>2, <1>5, <2>3, <3>1, <3>2, <3>4
  <2>4. ASSUME NEW n \in M
        PROVE  \/ n = w.child[FalseRoot][1] /\ w.parent[n] \in {Null, FalseRoot}
               \/ w.parent[n] \in M /\ \E d \in Dirs : w.child[w.parent[n]][d] = n
    <3>1. n \in N /\ n # q /\ n \in Nodes /\ n # Null /\ w.parent[n] = u.parent[n]
      BY <1>1, <1>5, <1>7
    <3>2. CASE n = u.child[FalseRoot][1] /\ u.parent[n] \in {Null, FalseRoot}
      <4>1. ~(FalseRoot = p /\ 1 = e)
        BY <3>1, <3>2
      <4>2. 1 \in Dirs
        BY DEF Dirs
      <4>3. w.child[FalseRoot][1] = u.child[FalseRoot][1]
        BY <1>1, <1>5, <4>1, <4>2
      <4> QED BY <3>1, <3>2, <4>3
    <3>3. CASE u.parent[n] \in N /\ \E d \in Dirs : u.child[u.parent[n]][d] = n
      <4>1. PICK d \in Dirs : u.child[u.parent[n]][d] = n
        BY <3>3
      <4>2. u.parent[n] # q
        BY <3>1, <4>1
      <4>3. ~(u.parent[n] = p /\ d = e)
        BY <3>1, <4>1
      <4>4. w.child[u.parent[n]][d] = n
        BY <1>1, <1>5, <3>3, <4>1, <4>2, <4>3
      <4> QED BY <1>7, <3>1, <3>3, <4>2, <4>4
    <3> QED BY <1>2, <3>1, <3>2, <3>3
  <2>5. ASSUME NEW k \in Keys \ M PROVE w.parent[k] = Null
    <3>1. k \in Nodes
      BY Sets
    <3>2. k = q \/ k \in Keys \ N
      BY <1>7
    <3> QED BY <1>2, <1>5, <3>1, <3>2
  <2> QED BY <2>1, <2>2, <2>3, <2>4, <2>5 DEF Linked
<1>9. Sorted(w, M, lo, hi)
  <2>1. /\ \A n \in N : lo[n] < n /\ n < hi[n]
        /\ \A m \in Nodes, d \in Dirs : Slot(N, m, d) /\ u.child[m][d] # Null =>
              lo[u.child[m][d]] = Lower(lo, m, d) /\ hi[u.child[m][d]] = Upper(hi, m, d)
        /\ \A m \in Nodes, d \in Dirs : Slot(N, m, d) /\ u.child[m][d] = Null =>
              \A k \in N : ~(Lower(lo, m, d) < k /\ k < Upper(hi, m, d))
    BY DEF Tree, Sorted
  <2>2. ASSUME NEW m \in Nodes, NEW d \in Dirs, Slot(M, m, d), w.child[m][d] # Null
        PROVE  lo[w.child[m][d]] = Lower(lo, m, d) /\ hi[w.child[m][d]] = Upper(hi, m, d)
    BY <1>5, <1>6, <2>1, <2>2
  <2>3. ASSUME NEW m \in Nodes, NEW d \in Dirs, Slot(M, m, d), w.child[m][d] = Null, NEW k \in M
        PROVE  ~(Lower(lo, m, d) < k /\ k < Upper(hi, m, d))
    <3>1. k \in N /\ k # q /\ m # q /\ Slot(N, m, d)
      BY <1>6, <1>7, <2>3
    <3>2. CASE m = p /\ d = e
      <4>1. Lower(lo, m, d) = lo[q] /\ Upper(hi, m, d) = hi[q]
        BY <1>1, <2>1, <3>1, <3>2
      <4>2. Slot(N, q, 0) /\ Slot(N, q, 1) /\ 0 \in Dirs /\ 1 \in Dirs
        BY DEF Slot, Dirs
      <4>3. ~(Lower(lo, q, 0) < k /\ k < Upper(hi, q, 0)) /\ ~(Lower(lo, q, 1) < k /\ k < Upper(hi, q, 1))
        BY <1>1, <2>1, <3>1, <4>2
      <4>4. ~(lo[q] < k /\ k < q) /\ ~(q < k /\ k < hi[q])
        BY <1>1, <4>3 DEF Lower, Upper
      <4>5. k \in Int /\ q \in Int
        BY <1>1, <3>1, Sets
      <4> QED BY <3>1, <4>1, <4>4, <4>5
    <3>3. CASE ~(m = p /\ d = e)
      BY <1>5, <2>1, <2>3, <3>1, <3>3
    <3> QED BY <3>2, <3>3
  <2> QED BY <1>7, <2>1, <2>2, <2>3 DEF Sorted
<1> QED BY <1>1, <1>5, <1>8, <1>9 DEF Tree, M

(* Without a red leaf the others are a red-black tree. *)
LEMMA CutShape ==
    ASSUME NEW u, NEW N, NEW lo, NEW hi, Shape(u, N, lo, hi),
           NEW p, NEW e, e \in Dirs, Slot(N, p, e), NEW q, q \in N, u.child[p][e] = q,
           \A f \in Dirs : u.child[q][f] = Null, u.red[q],
           NEW w, IsCut(w, u, p, e, q)
    PROVE  Shape(w, N \ {q}, lo, hi)
<1> DEFINE M == N \ {q}
<1>1. Tree(u, N, lo, hi) /\ Cool(u, N) /\ N \subseteq Keys
  BY DEF Shape, Tree
<1>2. PICK bh \in Heights : Even(u, N, bh)
  BY DEF Shape
<1>3. Tree(w, M, lo, hi)
  BY <1>1, CutTree
<1>4. \A x \in N : x \in Nodes /\ x \in Keys /\ x # Null
  BY <1>1, Sets
<1>5. 0 \in Dirs /\ 1 \in Dirs /\ FalseRoot \in Nodes
  BY Sets DEF Dirs
<1>6. /\ \A x \in Nodes, f \in Dirs :
            w.child[x][f] = IF x = q \/ (x = p /\ f = e) THEN Null ELSE u.child[x][f]
      /\ \A x \in Nodes : w.red[x] <=> x # q /\ u.red[x]
  BY DEF IsCut
<1>7. bh[Null] = 0 /\ \A n \in N : bh[u.child[n][0]] = bh[u.child[n][1]]
                                   /\ bh[n] = bh[u.child[n][0]] + IF u.red[n] THEN 0 ELSE 1
  BY <1>2 DEF Even
<1>8. bh[q] = 0
  BY <1>5, <1>7
<1>9. ASSUME NEW x \in M, NEW f \in Dirs PROVE bh[w.child[x][f]] = bh[u.child[x][f]]
  <2>1. x \in Nodes /\ x # q
    BY <1>4
  <2>2. CASE x = p /\ f = e
    <3>1. w.child[x][f] = Null /\ u.child[x][f] = q
      BY <1>6, <2>1, <2>2
    <3> QED BY <1>7, <1>8, <3>1
  <2>3. CASE ~(x = p /\ f = e)
    <3>1. w.child[x][f] = u.child[x][f]
      BY <1>6, <2>1, <2>3
    <3> QED BY <3>1
  <2> QED BY <2>2, <2>3
<1>10. Even(w, M, bh)
  <2>1. ASSUME NEW n \in M
        PROVE  bh[w.child[n][0]] = bh[w.child[n][1]] /\ bh[n] = bh[w.child[n][0]] + IF w.red[n] THEN 0 ELSE 1
    <3>1. n \in N /\ n # q /\ n \in Nodes
      BY <1>4
    <3>2. w.red[n] <=> u.red[n]
      BY <1>6, <3>1
    <3>3. bh[w.child[n][0]] = bh[u.child[n][0]] /\ bh[w.child[n][1]] = bh[u.child[n][1]]
      BY <1>5, <1>9
    <3> QED BY <1>7, <3>1, <3>2, <3>3
  <2> HIDE DEF M
  <2> QED BY <1>7, <2>1 DEF Even
<1>11. Cool(w, M)
  <2>1. ~w.red[FalseRoot]
    BY <1>1, <1>5, <1>6 DEF Cool
  <2>2. ASSUME NEW n \in M, NEW f \in Dirs, w.red[n] PROVE ~Red(w, w.child[n][f])
    <3>1. n \in N /\ n # q /\ n \in Nodes /\ u.red[n]
      BY <1>4, <1>6, <2>2
    <3>2. ~Red(u, u.child[n][f])
      BY <1>1, <3>1 DEF Cool
    <3>3. w.child[n][f] = Null \/ w.child[n][f] = u.child[n][f]
      BY <1>6, <3>1
    <3>4. w.child[n][f] # Null => w.child[n][f] \in Nodes
      <4>1. w.child[n][f] \in M \cup {Null}
        <5>1. Slot(M, n, f)
          BY DEF Slot
        <5> HIDE DEF M
        <5> QED BY <1>3, <3>1, <5>1 DEF Tree, Linked
      <4> QED BY <1>4, <4>1
    <3> QED BY <1>6, <3>2, <3>3, <3>4 DEF Red
  <2> HIDE DEF M
  <2> QED BY <2>1, <2>2 DEF Cool
<1> QED BY <1>2, <1>3, <1>10, <1>11 DEF Shape

(* f's name is taken over by q, which is no node. *)
New(n, f, q) == IF n = f THEN q ELSE n
Old(n, f, q) == IF n = q THEN f ELSE n

(* w is u with the node f under the name q. *)
IsRenamed(w, u, f, q) ==
    /\ w \in Links
    /\ \A x \in Nodes, d \in Dirs :
          w.child[x][d] = IF x = f THEN Null ELSE New(u.child[Old(x, f, q)][d], f, q)
    /\ \A x \in Nodes : w.parent[x] = IF x = f THEN Null ELSE New(u.parent[Old(x, f, q)], f, q)
    /\ \A x \in Nodes : w.red[x] <=> x # f /\ u.red[Old(x, f, q)]

(* The bounds under the new names. *)
Respan(lo, f, q) == [n \in Keys |-> New(lo[Old(n, f, q)], f, q)]

(* The nodes N and, under their new names, M. *)
Names(N, M, f, q) ==
    /\ q # f /\ M \subseteq Keys /\ M \subseteq Nodes /\ f \notin M
    /\ q # FalseRoot /\ f # FalseRoot /\ q # Null /\ f # Null
    /\ \A x \in M : Old(x, f, q) \in N /\ New(Old(x, f, q), f, q) = x /\ x # f
    /\ \A y \in N : New(y, f, q) \in M /\ Old(New(y, f, q), f, q) = y /\ y # q
    /\ \A y \in N \cup {Null} : New(y, f, q) \in M \cup {Null} /\ (New(y, f, q) = Null <=> y = Null)
    /\ Old(FalseRoot, f, q) = FalseRoot /\ New(FalseRoot, f, q) = FalseRoot
    /\ \A x \in Keys : x # f => Old(x, f, q) \in Keys /\ (x \in M <=> Old(x, f, q) \in N)
    /\ \A x \in Nodes : x # f => Old(x, f, q) \in Nodes

(* What renaming does to the set of nodes. *)
LEMMA NewOld ==
    ASSUME NEW N, N \subseteq Keys, NEW f \in N, NEW q \in Keys, q \notin N,
           NEW M, M = (N \ {f}) \cup {q}
    PROVE  Names(N, M, f, q)
BY Sets DEF Names, New, Old

(* Renaming keeps the links. *)
LEMMA RenameLinked ==
    ASSUME NEW u, NEW N, NEW lo, NEW hi, Tree(u, N, lo, hi), NEW f \in N, NEW q \in Keys, q \notin N,
           NEW M, M = (N \ {f}) \cup {q}, NEW w, IsRenamed(w, u, f, q)
    PROVE  Linked(w, M)
<1>1. N \subseteq Keys
  BY DEF Tree
<1>0. Names(N, M, f, q)
  BY <1>1, NewOld
<1>2. /\ q # f /\ M \subseteq Keys /\ M \subseteq Nodes /\ f \notin M /\ q # FalseRoot /\ f # FalseRoot /\ q # Null /\ f # Null
      /\ \A x \in M : Old(x, f, q) \in N /\ New(Old(x, f, q), f, q) = x /\ x # f
      /\ \A y \in N : New(y, f, q) \in M /\ Old(New(y, f, q), f, q) = y /\ y # q
      /\ \A y \in N \cup {Null} : New(y, f, q) \in M \cup {Null} /\ (New(y, f, q) = Null <=> y = Null)
      /\ Old(FalseRoot, f, q) = FalseRoot /\ New(FalseRoot, f, q) = FalseRoot
      /\ \A x \in Keys : x # f => Old(x, f, q) \in Keys /\ (x \in M <=> Old(x, f, q) \in N)
      /\ \A x \in Nodes : x # f => Old(x, f, q) \in Nodes
  BY <1>0 DEF Names
<1>3. /\ \A m \in Nodes, d \in Dirs : Slot(N, m, d) => u.child[m][d] \in N \cup {Null}
      /\ \A m \in Nodes, d \in Dirs : ~Slot(N, m, d) => u.child[m][d] = Null
      /\ \A m \in N, d \in Dirs : u.child[m][d] # Null => u.parent[u.child[m][d]] = m
      /\ \A n \in N : \/ n = u.child[FalseRoot][1] /\ u.parent[n] \in {Null, FalseRoot}
                      \/ u.parent[n] \in N /\ \E d \in Dirs : u.child[u.parent[n]][d] = n
      /\ \A k \in Keys \ N : u.parent[k] = Null
  BY DEF Tree, Linked
<1>4. /\ \A x \in Nodes, d \in Dirs :
            w.child[x][d] = IF x = f THEN Null ELSE New(u.child[Old(x, f, q)][d], f, q)
      /\ \A x \in Nodes : w.parent[x] = IF x = f THEN Null ELSE New(u.parent[Old(x, f, q)], f, q)
  BY DEF IsRenamed
<1>5. \A x \in Keys : x \in Nodes
  BY Sets
<1>6. N \subseteq Nodes /\ FalseRoot \notin N /\ Null \notin N /\ FalseRoot \in Nodes /\ 1 \in Dirs
  BY <1>1, Sets DEF Dirs
<1>7. New(Null, f, q) = Null
  BY <1>2
<1>8. ASSUME NEW x \in Nodes, NEW d \in Dirs, x # f
      PROVE  Slot(M, x, d) <=> Slot(N, Old(x, f, q), d)
  <2>1. CASE x = FalseRoot
    BY <1>2, <1>6, <2>1 DEF Slot
  <2>2. CASE x \in Keys
    <3>1. x # FalseRoot /\ Old(x, f, q) \in Keys
      BY <1>2, <1>8, <2>2, Sets
    <3>2. Old(x, f, q) # FalseRoot
      BY <3>1, Sets
    <3> QED BY <1>2, <1>8, <2>2, <3>1, <3>2 DEF Slot
  <2> QED BY <2>1, <2>2 DEF Nodes
<1>9. \A d \in Dirs : ~Slot(M, f, d)
  BY <1>2 DEF Slot
<1>10. ASSUME NEW m \in Nodes, NEW d \in Dirs
       PROVE  /\ Slot(M, m, d) => w.child[m][d] \in M \cup {Null}
              /\ ~Slot(M, m, d) => w.child[m][d] = Null
  <2>1. CASE m = f
    BY <1>4, <1>9, <2>1
  <2>2. CASE m # f
    <3>1. w.child[m][d] = New(u.child[Old(m, f, q)][d], f, q) /\ Old(m, f, q) \in Nodes
      BY <1>2, <1>4, <2>2
    <3>2. Slot(M, m, d) => u.child[Old(m, f, q)][d] \in N \cup {Null}
      BY <1>3, <1>8, <2>2, <3>1
    <3>3. ~Slot(M, m, d) => u.child[Old(m, f, q)][d] = Null
      BY <1>3, <1>8, <2>2, <3>1
    <3> QED BY <1>2, <1>7, <3>1, <3>2, <3>3
  <2> QED BY <2>1, <2>2
<1>11. ASSUME NEW m \in M, NEW d \in Dirs, w.child[m][d] # Null PROVE w.parent[w.child[m][d]] = m
  <2> DEFINE y == u.child[Old(m, f, q)][d]
  <2>1. m \in Nodes /\ m # f /\ Old(m, f, q) \in N /\ Old(m, f, q) \in Nodes /\ Slot(N, Old(m, f, q), d)
    BY <1>2, <1>6 DEF Slot
  <2>2. w.child[m][d] = New(y, f, q)
    BY <1>4, <2>1
  <2>3. y \in N \cup {Null}
    BY <1>3, <2>1
  <2>4. y # Null
    BY <1>7, <1>11, <2>2
  <2>5. y \in N /\ u.parent[y] = Old(m, f, q)
    BY <1>3, <2>1, <2>3, <2>4
  <2> HIDE DEF y
  <2>6. New(y, f, q) \in M /\ New(y, f, q) \in Nodes /\ New(y, f, q) # f /\ Old(New(y, f, q), f, q) = y
    BY <1>2, <2>5
  <2>7. w.parent[New(y, f, q)] = New(u.parent[y], f, q)
    BY <1>4, <2>6
  <2> QED BY <1>2, <2>2, <2>5, <2>7
<1>12. ASSUME NEW n \in M
       PROVE  \/ n = w.child[FalseRoot][1] /\ w.parent[n] \in {Null, FalseRoot}
              \/ w.parent[n] \in M /\ \E d \in Dirs : w.child[w.parent[n]][d] = n
  <2> DEFINE y == Old(n, f, q)
  <2>1. n \in Nodes /\ n # f /\ y \in N /\ New(y, f, q) = n
    BY <1>2
  <2>2. w.parent[n] = New(u.parent[y], f, q)
    BY <1>4, <2>1
  <2> HIDE DEF y
  <2>3. CASE y = u.child[FalseRoot][1] /\ u.parent[y] \in {Null, FalseRoot}
    <3>1. w.child[FalseRoot][1] = New(u.child[FalseRoot][1], f, q)
      BY <1>2, <1>4, <1>6
    <3>2. w.parent[n] \in {Null, FalseRoot}
      BY <1>2, <1>7, <2>2, <2>3
    <3> QED BY <2>1, <2>3, <3>1, <3>2
  <2>4. CASE u.parent[y] \in N /\ \E d \in Dirs : u.child[u.parent[y]][d] = y
    <3>1. PICK d \in Dirs : u.child[u.parent[y]][d] = y
      BY <2>4
    <3>2. w.parent[n] \in M /\ w.parent[n] \in Nodes /\ w.parent[n] # f /\ Old(w.parent[n], f, q) = u.parent[y]
      BY <1>2, <2>2, <2>4
    <3>3. w.child[w.parent[n]][d] = New(u.child[u.parent[y]][d], f, q)
      BY <1>4, <3>2
    <3> QED BY <2>1, <3>1, <3>2, <3>3
  <2> QED BY <1>3, <2>1, <2>3, <2>4
<1>13. ASSUME NEW k \in Keys \ M PROVE w.parent[k] = Null
  <2>1. CASE k = f
    BY <1>4, <1>5, <2>1
  <2>2. CASE k # f
    <3>1. Old(k, f, q) \in Keys \ N
      BY <1>2, <2>2
    <3>2. u.parent[Old(k, f, q)] = Null
      BY <1>3, <3>1
    <3> QED BY <1>4, <1>5, <1>7, <2>2, <3>2
  <2> QED BY <2>1, <2>2
<1> QED BY Zenon, <1>10, <1>11, <1>12, <1>13 DEF Linked

(* The nodes, and the ends of the intervals that are none. *)
Ends(N) == N \cup {0, MaxKey + 1}

(* Renaming keeps the order of nodes and ends. *)
Ordered(N, f, q) ==
    /\ \A a \in Ends(N) : a \in Int /\ New(a, f, q) \in Int
    /\ \A a, b \in Ends(N) : a < b <=> New(a, f, q) < New(b, f, q)

(* No node lies between q and f: taking the name q, f keeps its place in the order. *)
LEMMA NewOrder ==
    ASSUME NEW N, N \subseteq Keys, NEW f \in N, NEW q \in Keys, q \notin N,
           q < f, \A k \in N : ~(q < k /\ k < f)
    PROVE  Ordered(N, f, q)
<1>1. q \in Int /\ f \in Int /\ 0 < q /\ q < MaxKey + 1 /\ MaxKey \in Int /\ 0 < f /\ f < MaxKey + 1
  BY Sets
<1>2. \A a \in Ends(N) : a \in Int /\ (a < q \/ f <= a)
  <2>1. ASSUME NEW a \in N PROVE a \in Int /\ (a < q \/ f <= a)
    <3>1. a \in Int /\ a # q /\ ~(q < a /\ a < f)
      BY Sets
    <3> QED BY <1>1, <3>1
  <2>2. 0 < q /\ f <= MaxKey + 1 /\ 0 \in Int /\ MaxKey + 1 \in Int
    BY <1>1
  <2> QED BY <2>1, <2>2 DEF Ends
<1>3. ASSUME NEW a \in Ends(N), NEW b \in Ends(N)
      PROVE  New(a, f, q) \in Int /\ (a < b <=> New(a, f, q) < New(b, f, q))
  <2>1. a \in Int /\ b \in Int /\ (a < q \/ f <= a) /\ (b < q \/ f <= b)
    BY <1>2
  <2> QED BY <1>1, <2>1 DEF New
<1> QED BY <1>2, <1>3 DEF Ordered

(* Renaming the bounds of an interval as well *)
Respanned(N, M, lo, lo2, f, q) ==
    /\ \A y \in N : lo2[New(y, f, q)] = New(lo[y], f, q)
    /\ \A x \in M : lo2[x] = New(lo[Old(x, f, q)], f, q)
    /\ lo2 \in [Keys -> Int]

(* The bounds of a renamed node. *)
LEMMA RespanFacts ==
    ASSUME NEW N, NEW M, NEW f \in N, N \subseteq Keys, NEW q \in Keys, Names(N, M, f, q),
           NEW lo, lo \in [Keys -> Int], NEW lo2, lo2 = Respan(lo, f, q)
    PROVE  Respanned(N, M, lo, lo2, f, q)
<1>1. /\ M \subseteq Keys /\ f \notin M
      /\ \A x \in M : Old(x, f, q) \in N /\ x # f
      /\ \A y \in N : New(y, f, q) \in M /\ Old(New(y, f, q), f, q) = y
  BY DEF Names
<1>2. ASSUME NEW x \in M PROVE lo2[x] = New(lo[Old(x, f, q)], f, q)
  BY <1>1 DEF Respan
<1>3. ASSUME NEW y \in N PROVE lo2[New(y, f, q)] = New(lo[y], f, q)
  BY <1>1, <1>2
<1>4. lo2 \in [Keys -> Int]
  <2>1. ASSUME NEW n \in Keys PROVE New(lo[Old(n, f, q)], f, q) \in Int
    <3>1. Old(n, f, q) \in Keys
      BY DEF Old
    <3>2. lo[Old(n, f, q)] \in Int /\ q \in Int
      BY <3>1, Sets
    <3> QED BY <3>2 DEF New
  <2> QED BY <2>1 DEF Respan
<1> QED BY <1>2, <1>3, <1>4 DEF Respanned

(* Renaming keeps the order. *)
LEMMA RenameSorted ==
    ASSUME NEW u, NEW N, NEW lo, NEW hi, Tree(u, N, lo, hi), NEW f \in N, NEW q \in Keys, q \notin N,
           q < f, \A k \in N : ~(q < k /\ k < f),
           NEW M, M = (N \ {f}) \cup {q}, NEW w, IsRenamed(w, u, f, q),
           NEW lo2, lo2 = Respan(lo, f, q), NEW hi2, hi2 = Respan(hi, f, q)
    PROVE  Sorted(w, M, lo2, hi2) /\ lo2 \in [Keys -> Int] /\ hi2 \in [Keys -> Int]
<1>1. N \subseteq Keys /\ lo \in [Keys -> Int] /\ hi \in [Keys -> Int]
  BY DEF Tree
<1>2. Names(N, M, f, q)
  BY <1>1, NewOld
<1>3. Ordered(N, f, q)
  BY <1>1, NewOrder
<1>4. Respanned(N, M, lo, lo2, f, q) /\ Respanned(N, M, hi, hi2, f, q)
  BY <1>1, <1>2, RespanFacts
<1>5. /\ M \subseteq Keys /\ f \notin M /\ q # FalseRoot /\ f # FalseRoot /\ q # Null /\ f # Null /\ M \subseteq Nodes
      /\ \A x \in M : Old(x, f, q) \in N /\ New(Old(x, f, q), f, q) = x /\ x # f
      /\ \A y \in N : New(y, f, q) \in M /\ Old(New(y, f, q), f, q) = y
      /\ \A y \in N \cup {Null} : New(y, f, q) = Null <=> y = Null
      /\ Old(FalseRoot, f, q) = FalseRoot
  BY <1>2 DEF Names
<1>6. /\ \A x \in M : lo2[x] = New(lo[Old(x, f, q)], f, q) /\ hi2[x] = New(hi[Old(x, f, q)], f, q)
      /\ \A y \in N : lo2[New(y, f, q)] = New(lo[y], f, q) /\ hi2[New(y, f, q)] = New(hi[y], f, q)
      /\ lo2 \in [Keys -> Int] /\ hi2 \in [Keys -> Int]
  BY <1>4 DEF Respanned
<1>7. /\ \A a, b \in Ends(N) : a < b <=> New(a, f, q) < New(b, f, q)
      /\ N \subseteq Ends(N)
  BY <1>3 DEF Ordered, Ends
<1>8. \A y \in N : lo[y] \in Ends(N) /\ hi[y] \in Ends(N)
  BY BoundNodes DEF Ends
<1>9. /\ \A n \in N : lo[n] < n /\ n < hi[n]
      /\ \A m \in Nodes, d \in Dirs : Slot(N, m, d) /\ u.child[m][d] # Null =>
            lo[u.child[m][d]] = Lower(lo, m, d) /\ hi[u.child[m][d]] = Upper(hi, m, d)
      /\ \A m \in Nodes, d \in Dirs : Slot(N, m, d) /\ u.child[m][d] = Null =>
            \A k \in N : ~(Lower(lo, m, d) < k /\ k < Upper(hi, m, d))
      /\ \A m \in Nodes, d \in Dirs : Slot(N, m, d) => u.child[m][d] \in N \cup {Null}
  BY DEF Tree, Sorted, Linked
<1>10. /\ \A x \in Nodes, d \in Dirs : x # f => w.child[x][d] = New(u.child[Old(x, f, q)][d], f, q)
  BY DEF IsRenamed
<1>11. /\ FalseRoot \notin N /\ FalseRoot \notin M /\ FalseRoot \in Nodes /\ N \subseteq Nodes
  BY <1>1, <1>5, Sets
<1>12. New(0, f, q) = 0 /\ New(MaxKey + 1, f, q) = MaxKey + 1
  <2>1. 0 # f /\ MaxKey + 1 # f
    <3>1. f \in Int /\ 0 < f /\ f < MaxKey + 1 /\ MaxKey \in Int
      BY <1>1, Sets
    <3> QED BY <3>1
  <2> QED BY <2>1 DEF New
<1>13. ASSUME NEW m \in Nodes, NEW d \in Dirs, Slot(M, m, d)
       PROVE  /\ m # f /\ Old(m, f, q) \in Nodes /\ Slot(N, Old(m, f, q), d)
              /\ Lower(lo2, m, d) = New(Lower(lo, Old(m, f, q), d), f, q)
              /\ Upper(hi2, m, d) = New(Upper(hi, Old(m, f, q), d), f, q)
              /\ Lower(lo, Old(m, f, q), d) \in Ends(N) /\ Upper(hi, Old(m, f, q), d) \in Ends(N)
  <2>1. CASE m = FalseRoot
    <3>1. 0 \in Ends(N) /\ MaxKey + 1 \in Ends(N)
      BY DEF Ends
    <3>2. Slot(N, Old(m, f, q), d) /\ m # f /\ Old(m, f, q) = FalseRoot
      BY <1>5, <1>11, <1>13, <2>1 DEF Slot
    <3>3. Lower(lo2, m, d) = 0 /\ Lower(lo, Old(m, f, q), d) = 0
          /\ Upper(hi2, m, d) = MaxKey + 1 /\ Upper(hi, Old(m, f, q), d) = MaxKey + 1
      BY <2>1, <3>2 DEF Lower, Upper
    <3> QED BY <1>11, <1>12, <3>1, <3>2, <3>3
  <2>2. CASE m \in M
    <3>1. m # f /\ Old(m, f, q) \in N /\ New(Old(m, f, q), f, q) = m
      BY <1>5, <2>2
    <3>2. m # FalseRoot /\ Old(m, f, q) # FalseRoot /\ Old(m, f, q) \in Nodes
      BY <1>11, <2>2, <3>1
    <3>3. Lower(lo2, m, d) = (IF d = 0 THEN lo2[m] ELSE m) /\ Upper(hi2, m, d) = (IF d = 0 THEN m ELSE hi2[m])
      BY <3>2 DEF Lower, Upper
    <3>4. /\ Lower(lo, Old(m, f, q), d) = (IF d = 0 THEN lo[Old(m, f, q)] ELSE Old(m, f, q))
          /\ Upper(hi, Old(m, f, q), d) = (IF d = 0 THEN Old(m, f, q) ELSE hi[Old(m, f, q)])
      BY <3>2 DEF Lower, Upper
    <3>5. Slot(N, Old(m, f, q), d)
      BY <3>1 DEF Slot
    <3>6. lo2[m] = New(lo[Old(m, f, q)], f, q) /\ hi2[m] = New(hi[Old(m, f, q)], f, q)
      BY <1>6, <2>2
    <3>7. Old(m, f, q) \in Ends(N) /\ lo[Old(m, f, q)] \in Ends(N) /\ hi[Old(m, f, q)] \in Ends(N)
      BY <1>7, <1>8, <3>1
    <3> QED BY <3>1, <3>2, <3>3, <3>4, <3>5, <3>6, <3>7
  <2> QED BY <1>13, <2>1, <2>2 DEF Slot
<1>14. ASSUME NEW n \in M PROVE lo2[n] < n /\ n < hi2[n]
  <2> DEFINE y == Old(n, f, q)
  <2>1. y \in N /\ New(y, f, q) = n /\ lo2[n] = New(lo[y], f, q) /\ hi2[n] = New(hi[y], f, q)
    BY <1>5, <1>6
  <2> HIDE DEF y
  <2>2. lo[y] < y /\ y < hi[y] /\ y \in Ends(N) /\ lo[y] \in Ends(N) /\ hi[y] \in Ends(N)
    BY <1>7, <1>8, <1>9, <2>1
  <2>3. New(lo[y], f, q) < New(y, f, q) /\ New(y, f, q) < New(hi[y], f, q)
    BY <1>7, <2>2
  <2> QED BY <2>1, <2>3
<1>15. ASSUME NEW m \in Nodes, NEW d \in Dirs, Slot(M, m, d), w.child[m][d] # Null
       PROVE  lo2[w.child[m][d]] = Lower(lo2, m, d) /\ hi2[w.child[m][d]] = Upper(hi2, m, d)
  <2> DEFINE y == Old(m, f, q)
  <2> DEFINE c == u.child[y][d]
  <2>1. m # f /\ y \in Nodes /\ Slot(N, y, d) /\ Lower(lo2, m, d) = New(Lower(lo, y, d), f, q)
        /\ Upper(hi2, m, d) = New(Upper(hi, y, d), f, q)
    BY <1>13, <1>15
  <2>2. w.child[m][d] = New(c, f, q)
    BY <1>10, <2>1
  <2> HIDE DEF y
  <2>3. c \in N /\ lo[c] = Lower(lo, y, d) /\ hi[c] = Upper(hi, y, d)
    BY <1>5, <1>9, <1>15, <2>1, <2>2
  <2> HIDE DEF c
  <2>4. lo2[New(c, f, q)] = New(lo[c], f, q) /\ hi2[New(c, f, q)] = New(hi[c], f, q)
    BY <1>6, <2>3
  <2> QED BY <2>1, <2>2, <2>3, <2>4
<1>16. ASSUME NEW m \in Nodes, NEW d \in Dirs, Slot(M, m, d), w.child[m][d] = Null, NEW k \in M
       PROVE  ~(Lower(lo2, m, d) < k /\ k < Upper(hi2, m, d))
  <2> DEFINE y == Old(m, f, q)
  <2> DEFINE j == Old(k, f, q)
  <2>1. m # f /\ y \in Nodes /\ Slot(N, y, d) /\ Lower(lo2, m, d) = New(Lower(lo, y, d), f, q)
        /\ Upper(hi2, m, d) = New(Upper(hi, y, d), f, q)
        /\ Lower(lo, y, d) \in Ends(N) /\ Upper(hi, y, d) \in Ends(N)
    BY <1>13, <1>16
  <2>2. j \in N /\ New(j, f, q) = k
    BY <1>5
  <2>3. w.child[m][d] = New(u.child[y][d], f, q)
    BY <1>10, <2>1
  <2> HIDE DEF y, j
  <2>4. u.child[y][d] = Null
    BY <1>5, <1>9, <1>16, <2>1, <2>3
  <2>5. ~(Lower(lo, y, d) < j /\ j < Upper(hi, y, d))
    BY <1>9, <2>1, <2>2, <2>4
  <2>6. j \in Ends(N)
    BY <1>7, <2>2
  <2>7. (Lower(lo, y, d) < j <=> New(Lower(lo, y, d), f, q) < k) /\ (j < Upper(hi, y, d) <=> k < New(Upper(hi, y, d), f, q))
    BY <1>7, <2>1, <2>2, <2>6
  <2> QED BY <2>1, <2>5, <2>7
<1> QED BY Zenon, <1>6, <1>14, <1>15, <1>16 DEF Sorted

(* Renaming keeps the search tree. *)
LEMMA RenameTree ==
    ASSUME NEW u, NEW N, NEW lo, NEW hi, Tree(u, N, lo, hi), NEW f \in N, NEW q \in Keys, q \notin N,
           q < f, \A k \in N : ~(q < k /\ k < f),
           NEW M, M = (N \ {f}) \cup {q}, NEW w, IsRenamed(w, u, f, q),
           NEW lo2, lo2 = Respan(lo, f, q), NEW hi2, hi2 = Respan(hi, f, q)
    PROVE  Tree(w, M, lo2, hi2)
<1>1. Sorted(w, M, lo2, hi2) /\ lo2 \in [Keys -> Int] /\ hi2 \in [Keys -> Int]
  BY RenameSorted
<1>2. Linked(w, M)
  BY RenameLinked
<1>3. M \subseteq Keys /\ w \in Links
  BY DEF Tree, IsRenamed
<1> QED BY <1>1, <1>2, <1>3 DEF Tree

(* Renaming keeps the red-black tree. *)
LEMMA RenameShape ==
    ASSUME NEW u, NEW N, NEW lo, NEW hi, Shape(u, N, lo, hi), NEW f \in N, NEW q \in Keys, q \notin N,
           q < f, \A k \in N : ~(q < k /\ k < f),
           NEW M, M = (N \ {f}) \cup {q}, NEW w, IsRenamed(w, u, f, q)
    PROVE  \E lo2, hi2 : Shape(w, M, lo2, hi2)
<1>1. Tree(u, N, lo, hi) /\ Cool(u, N) /\ N \subseteq Keys
  BY DEF Shape, Tree
<1>2. PICK bh \in Heights : Even(u, N, bh)
  BY DEF Shape
<1>3. Tree(w, M, Respan(lo, f, q), Respan(hi, f, q))
  BY <1>1, RenameTree
<1>4. Names(N, M, f, q)
  BY <1>1, NewOld
<1>5. /\ M \subseteq Keys /\ f \notin M /\ q # FalseRoot /\ f # FalseRoot /\ q # Null /\ f # Null /\ M \subseteq Nodes
      /\ \A x \in M : Old(x, f, q) \in N /\ New(Old(x, f, q), f, q) = x /\ x # f
      /\ \A y \in N \cup {Null} : New(y, f, q) \in M \cup {Null} /\ (New(y, f, q) = Null <=> y = Null)
      /\ \A y \in N : New(y, f, q) \in M /\ Old(New(y, f, q), f, q) = y
      /\ Old(FalseRoot, f, q) = FalseRoot
  BY <1>4 DEF Names
<1>6. Old(Null, f, q) = Null /\ New(Null, f, q) = Null
  BY <1>5 DEF Old, New
<1>7. /\ \A x \in Nodes, d \in Dirs : x # f => w.child[x][d] = New(u.child[Old(x, f, q)][d], f, q)
      /\ \A x \in Nodes : x # f => (w.red[x] <=> u.red[Old(x, f, q)])
  BY DEF IsRenamed
<1>8. /\ \A x \in N, d \in Dirs : Slot(N, x, d) /\ u.child[x][d] \in N \cup {Null}
      /\ 0 \in Dirs /\ 1 \in Dirs
  <2>1. \A x \in N, d \in Dirs : Slot(N, x, d) /\ x \in Nodes
    BY <1>1, Sets DEF Slot
  <2> QED BY <1>1, <2>1 DEF Tree, Linked, Dirs
<1>9. \E bh2 \in Heights : Even(w, M, bh2)
  <2> DEFINE bh2 == [k \in Keys \cup {Null} |-> bh[Old(k, f, q)]]
  <2>1. bh2 \in Heights
    <3>1. \A k \in Keys \cup {Null} : Old(k, f, q) \in Keys \cup {Null}
      BY <1>1 DEF Old
    <3> QED BY <3>1 DEF Heights
  <2>2. \A x \in M \cup {Null} : bh2[x] = bh[Old(x, f, q)]
    BY <1>5
  <2>3. bh[Null] = 0 /\ \A n \in N : bh[u.child[n][0]] = bh[u.child[n][1]]
                                   /\ bh[n] = bh[u.child[n][0]] + IF u.red[n] THEN 0 ELSE 1
    BY <1>2 DEF Even
  <2> HIDE DEF bh2
  <2>4. ASSUME NEW n \in M, NEW d \in Dirs PROVE bh2[w.child[n][d]] = bh[u.child[Old(n, f, q)][d]]
    <3> DEFINE c == u.child[Old(n, f, q)][d]
    <3>1. n \in Nodes /\ n # f /\ Old(n, f, q) \in N
      BY <1>5
    <3>2. w.child[n][d] = New(c, f, q) /\ c \in N \cup {Null}
      BY <1>7, <1>8, <3>1
    <3> HIDE DEF c
    <3>3. New(c, f, q) \in M \cup {Null} /\ Old(New(c, f, q), f, q) = c
      BY <1>5, <1>6, <3>2
    <3>4. bh2[New(c, f, q)] = bh[c]
      BY <2>2, <3>3
    <3> QED BY <3>2, <3>4 DEF c
  <2>5. ASSUME NEW n \in M
        PROVE  bh2[w.child[n][0]] = bh2[w.child[n][1]] /\ bh2[n] = bh2[w.child[n][0]] + IF w.red[n] THEN 0 ELSE 1
    <3>1. n \in Nodes /\ n # f /\ Old(n, f, q) \in N
      BY <1>5
    <3>2. w.red[n] <=> u.red[Old(n, f, q)]
      BY <1>7, <3>1
    <3>3. bh2[w.child[n][0]] = bh[u.child[Old(n, f, q)][0]] /\ bh2[w.child[n][1]] = bh[u.child[Old(n, f, q)][1]]
      BY <1>8, <2>4
    <3>4. bh2[n] = bh[Old(n, f, q)]
      BY <2>2
    <3> QED BY <2>3, <3>1, <3>2, <3>3, <3>4
  <2>6. bh2[Null] = 0
    BY <1>6, <2>2, <2>3
  <2>7. Even(w, M, bh2)
    BY <2>5, <2>6 DEF Even
  <2> QED BY <2>1, <2>7
<1>10. Cool(w, M)
  <2>1. ~w.red[FalseRoot]
    <3>1. ~u.red[FalseRoot] /\ FalseRoot \in Nodes
      BY <1>1, Sets DEF Cool
    <3> QED BY <1>5, <1>7, <3>1
  <2>2. ASSUME NEW n \in M, NEW d \in Dirs, w.red[n] PROVE ~Red(w, w.child[n][d])
    <3> DEFINE c == u.child[Old(n, f, q)][d]
    <3>1. n \in Nodes /\ n # f /\ Old(n, f, q) \in N
      BY <1>5
    <3>2. w.child[n][d] = New(c, f, q) /\ c \in N \cup {Null} /\ u.red[Old(n, f, q)]
      BY <1>7, <1>8, <2>2, <3>1
    <3>3. ~Red(u, c)
      BY <1>1, <3>1, <3>2 DEF Cool
    <3> HIDE DEF c
    <3>4. CASE c = Null
      BY <1>6, <3>2, <3>4 DEF Red
    <3>5. CASE c \in N
      <4>1. New(c, f, q) \in Nodes /\ New(c, f, q) # f /\ Old(New(c, f, q), f, q) = c /\ c # Null
        BY <1>5, <3>5, <1>1, Sets
      <4>2. w.red[New(c, f, q)] <=> u.red[c]
        BY <1>7, <4>1
      <4> QED BY <3>2, <3>3, <4>1, <4>2 DEF Red
    <3> QED BY <3>2, <3>4, <3>5
  <2> QED BY <2>1, <2>2 DEF Cool
<1> QED BY <1>3, <1>9, <1>10 DEF Shape

(* What remove's move of a key to another node does, in names. *)
LEMMA RenamedFacts ==
    ASSUME NEW u, u \in Links, NEW f, f \in Keys, NEW q, q \in Keys, q # f,
           NEW w, w = Renamed(u, f, q)
    PROVE  IsRenamed(w, u, f, q)
<1>1. f \in Nodes /\ q \in Nodes /\ f \in Refs /\ q \in Refs /\ Null \in Refs
  BY Sets DEF Refs
<1>2. \A x \in Nodes : Old(x, f, q) \in Nodes
  BY <1>1 DEF Old
<1>3. \A x \in Refs : New(x, f, q) \in Refs
  BY <1>1 DEF New
<1>4. /\ w.red = [n \in Nodes |-> IF n = f THEN FALSE ELSE u.red[Old(n, f, q)]]
      /\ w.child = [n \in Nodes |-> [d \in Dirs |-> IF n = f THEN Null ELSE New(u.child[Old(n, f, q)][d], f, q)]]
      /\ w.parent = [n \in Nodes |-> IF n = f THEN Null ELSE New(u.parent[Old(n, f, q)], f, q)]
      /\ w = [red |-> w.red, child |-> w.child, parent |-> w.parent]
  BY DEF Renamed, Old, New
<1>5. u.red \in [Nodes -> BOOLEAN] /\ u.child \in [Nodes -> [Dirs -> Refs]] /\ u.parent \in [Nodes -> Refs]
  BY DEF Links
<1>6. w.red \in [Nodes -> BOOLEAN]
  <2>1. ASSUME NEW n \in Nodes PROVE (IF n = f THEN FALSE ELSE u.red[Old(n, f, q)]) \in BOOLEAN
    <3>1. u.red[Old(n, f, q)] \in BOOLEAN
      BY <1>2, <1>5
    <3> QED BY Zenon, <3>1
  <2> QED BY Zenon, <1>4, <2>1
<1>7. w.child \in [Nodes -> [Dirs -> Refs]]
  <2>1. ASSUME NEW n \in Nodes, NEW d \in Dirs
        PROVE  (IF n = f THEN Null ELSE New(u.child[Old(n, f, q)][d], f, q)) \in Refs
    <3>1. u.child[Old(n, f, q)][d] \in Refs
      BY <1>2, <1>5
    <3> QED BY <1>1, <1>3, <3>1
  <2> QED BY <1>4, <2>1
<1>8. w.parent \in [Nodes -> Refs]
  <2>1. ASSUME NEW n \in Nodes
        PROVE  (IF n = f THEN Null ELSE New(u.parent[Old(n, f, q)], f, q)) \in Refs
    <3>1. u.parent[Old(n, f, q)] \in Refs
      BY <1>2, <1>5
    <3> QED BY <1>1, <1>3, <3>1
  <2> QED BY <1>4, <2>1
<1>9. w \in Links
  BY Zenon, <1>4, <1>6, <1>7, <1>8 DEF Links
<1>10. \A x \in Nodes : w.red[x] <=> x # f /\ u.red[Old(x, f, q)]
  BY <1>4
<1>11. \A x \in Nodes, d \in Dirs :
          w.child[x][d] = IF x = f THEN Null ELSE New(u.child[Old(x, f, q)][d], f, q)
  BY <1>4
<1>12. \A x \in Nodes : w.parent[x] = IF x = f THEN Null ELSE New(u.parent[Old(x, f, q)], f, q)
  BY <1>4
<1> QED BY <1>9, <1>10, <1>11, <1>12 DEF IsRenamed

(* The end of remove's walk when it met the key: q is a leaf, f holds the  *)
(* key and is q or the next node after q.                                  *)
Ending(N, lo, hi, q, p, f) ==
    /\ q \in N /\ f \in N /\ f = at.key /\ p \in N \cup {FalseRoot}
    /\ \A d \in Dirs : t.child[q][d] = Null
    /\ Under(t, N, q, p)
    /\ p = FalseRoot => N = {q}
    /\ p # FalseRoot => t.red[q]
    /\ q # f => q < f /\ f = hi[q]
    /\ \A k \in N : ~(q < k /\ k < hi[q])

(* What remove knows when its walk is over and it met the key. *)
LEMMA EndingFacts ==
    ASSUME NEW N, NEW lo, NEW hi, Shape(t, N, lo, hi), Deleting(t, N, lo, hi, at),
           NEW q, q = at.q, t.child[q][at.dir] = Null, NEW f, f = at.f, f # Null,
           NEW p, p = at.p
    PROVE  Ending(N, lo, hi, q, p, f)
<1> DEFINE d == at.dir
<1>1. Tree(t, N, lo, hi) /\ Cool(t, N) /\ N \subseteq Keys /\ lo \in [Keys -> Int] /\ hi \in [Keys -> Int]
  BY DEF Shape, Tree
<1>2. PICK bh \in Heights : Even(t, N, bh)
  BY DEF Shape
<1>3. /\ f \in N /\ q \in N /\ lo[f] <= lo[q]
      /\ Lower(lo, q, d) < at.key /\ at.key <= Upper(hi, q, d)
      /\ f = IF at.key < Upper(hi, q, d) THEN Null ELSE at.key
  BY DEF Deleting, Found
<1>4. /\ q # FalseRoot /\ q \in Keys /\ f \in Keys /\ q \in Int /\ f \in Int /\ q # Null
  BY <1>1, <1>3, Sets
<1>5. /\ p \in N \cup {FalseRoot} /\ Under(t, N, q, p) /\ d = Less(q, at.key)
      /\ \/ t.red[q]
         \/ Red(t, t.child[q][d])
         \/ p = FalseRoot /\ ~Red(t, t.child[q][1 - d])
  BY <1>4 DEF Deleting
<1>6. f = at.key /\ ~(f < Upper(hi, q, d)) /\ f <= Upper(hi, q, d)
  BY <1>3
<1>7. d \in Dirs /\ (d = 1 => q < f) /\ (d = 0 => f <= q)
  BY <1>4, <1>5, <1>6, LessDirs
<1>8. /\ \A x \in N, g \in Dirs : Slot(N, x, g) /\ t.child[x][g] \in N \cup {Null}
      /\ \A x \in N : x \in Keys /\ x # Null /\ bh[x] \in Nat
      /\ 0 \in Dirs /\ 1 \in Dirs
  BY <1>1, Children
<1>9. hi[q] \in Int
  BY <1>1, <1>4
<1>10. q # f => q < f /\ f = hi[q]
  <2>1. CASE d = 0
    <3>1. Upper(hi, q, d) = q
      BY <1>4, <2>1 DEF Upper
    <3> QED BY <1>4, <1>6, <3>1, <1>7, <2>1
  <2>2. CASE d = 1
    <3>1. Upper(hi, q, d) = hi[q]
      BY <1>4, <2>2 DEF Upper
    <3> QED BY <1>4, <1>6, <1>7, <1>9, <2>2, <3>1
  <2> QED BY <1>7, <2>1, <2>2 DEF Dirs
<1>11. /\ bh[Null] = 0 /\ \A n \in N : bh[t.child[n][0]] = bh[t.child[n][1]]
       /\ \A n \in N : bh[n] = bh[t.child[n][0]] + IF t.red[n] THEN 0 ELSE 1
  BY <1>2 DEF Even
<1>12. ASSUME NEW e \in Dirs, t.child[q][e] # Null PROVE FALSE
  <2> DEFINE c == t.child[q][e]
  <2>1. c \in N /\ e # d
    BY <1>3, <1>8, <1>12
  <2>2. bh[c] = 0
    <3>1. bh[t.child[q][d]] = 0
      BY <1>11
    <3>2. bh[t.child[q][0]] = bh[t.child[q][1]]
      BY <1>3, <1>11
    <3> QED BY <1>7, <3>1, <3>2 DEF Dirs
  <2> HIDE DEF c
  <2>3. t.red[c]
    <3>1. t.child[c][0] \in N \cup {Null}
      BY <1>8, <2>1
    <3>2. bh[t.child[c][0]] \in Nat
      BY <1>8, <1>11, <3>1
    <3>3. bh[c] = bh[t.child[c][0]] + IF t.red[c] THEN 0 ELSE 1
      BY <1>11, <2>1
    <3> QED BY <2>2, <3>2, <3>3
  <2>4. Red(t, t.child[q][e])
    BY <2>3, <1>12 DEF Red, c
  <2>5. ~t.red[q]
    BY <1>1, <1>3, <2>4 DEF Cool
  <2>6. ~Red(t, t.child[q][d])
    BY DEF Red
  <2>7. e = 1 - d
    BY <1>7, <2>1 DEF Dirs
  <2> QED BY <1>5, <2>4, <2>5, <2>6, <2>7
<1>13. p # FalseRoot => t.red[q]
  <2>1. ~Red(t, t.child[q][d])
    BY DEF Red
  <2> QED BY <1>5, <2>1
<1>14. /\ \A m \in Nodes, g \in Dirs : Slot(N, m, g) /\ t.child[m][g] = Null =>
             \A k \in N : ~(Lower(lo, m, g) < k /\ k < Upper(hi, m, g))
       /\ \A m \in Nodes, g \in Dirs : Slot(N, m, g) /\ t.child[m][g] # Null =>
             lo[t.child[m][g]] = Lower(lo, m, g) /\ hi[t.child[m][g]] = Upper(hi, m, g)
  BY <1>1 DEF Tree, Sorted
<1>15. \A k \in N : ~(q < k /\ k < hi[q]) /\ ~(lo[q] < k /\ k < q)
  <2>1. Lower(lo, q, 1) = q /\ Upper(hi, q, 1) = hi[q] /\ Lower(lo, q, 0) = lo[q] /\ Upper(hi, q, 0) = q
    BY <1>4 DEF Lower, Upper
  <2>2. t.child[q][0] = Null /\ t.child[q][1] = Null /\ Slot(N, q, 0) /\ Slot(N, q, 1) /\ q \in Nodes
    BY <1>3, <1>4, <1>8, <1>12, Sets
  <2> QED BY <1>8, <1>14, <2>1, <2>2
<1>16. p = FalseRoot => N = {q}
  <2> SUFFICES ASSUME p = FalseRoot, NEW k \in N, k # q PROVE FALSE
    BY <1>3
  <2>1. PICK g \in Dirs : Slot(N, p, g) /\ t.child[p][g] = q
    BY <1>5 DEF Under
  <2>2. lo[q] = 0 /\ hi[q] = MaxKey + 1
    <3>1. Lower(lo, p, g) = 0 /\ Upper(hi, p, g) = MaxKey + 1 /\ p \in Nodes
      BY Sets DEF Lower, Upper
    <3> QED BY <1>4, <1>14, <2>1, <3>1
  <2>3. k \in Int /\ 0 < k /\ k < MaxKey + 1
    BY <1>1, Sets
  <2> QED BY <1>4, <1>15, <2>2, <2>3
<1> QED BY <1>3, <1>5, <1>6, <1>10, <1>12, <1>13, <1>15, <1>16 DEF Ending

(* q, a leaf, hangs no longer at (p, e). *)
IsLoose(w, u, p, e, q) ==
    /\ w \in Links /\ w.red = u.red
    /\ \A x \in Nodes, g \in Dirs : w.child[x][g] = IF x = p /\ g = e THEN Null ELSE u.child[x][g]
    /\ \A x \in Nodes : w.parent[x] = u.parent[x]

(* remove's last link takes the leaf q out. *)
LEMMA UnlinkedFacts ==
    ASSUME NEW u, NEW N, NEW lo, NEW hi, Tree(u, N, lo, hi), NEW p, p \in N, NEW e, e \in Dirs,
           NEW q, q \in N, u.child[p][e] = q, \A g \in Dirs : u.child[q][g] = Null,
           NEW w, w = Unlinked(u, p, q)
    PROVE  IsLoose(w, u, p, e, q)
<1> DEFINE v == [u EXCEPT !.child[p][e] = Null]
<1>1. /\ N \subseteq Keys /\ u \in Links /\ p \in Nodes /\ q \in Nodes /\ q # Null
      /\ 0 \in Dirs /\ 1 \in Dirs /\ Null \in Refs /\ Null \notin Nodes
      /\ \A g \in Dirs : Slot(N, p, g)
  BY Sets DEF Tree, Dirs, Slot, Refs
<1>2. \A g \in Dirs : u.child[p][g] = q => g = e
  BY <1>1, OnlyThere
<1>3. (IF u.child[p][1] = q THEN 1 ELSE 0) = e
  BY <1>1, <1>2 DEF Dirs
<1>4. u.child[q][IF u.child[q][0] = Null THEN 1 ELSE 0] = Null
  BY <1>1
<1>5. w = Hung(v, p, 0, v.child[p][0])
  BY <1>3, <1>4 DEF Unlinked
<1>6. /\ v \in Links /\ v.red = u.red /\ v.parent = u.parent
      /\ \A x \in Nodes, g \in Dirs : v.child[x][g] = IF x = p /\ g = e THEN Null ELSE u.child[x][g]
  BY Zenon, <1>1 DEF Links
<1> HIDE DEF v
<1>7. v.child[p][0] \in Refs
  BY <1>1, <1>6 DEF Links
<1>8. IsHung(w, v, p, 0, v.child[p][0])
  BY <1>1, <1>5, <1>6, <1>7, HungFacts
<1>9. /\ w \in Links /\ w.red = v.red
      /\ \A x \in Nodes, g \in Dirs : w.child[x][g] = IF x = p /\ g = 0 THEN v.child[p][0] ELSE v.child[x][g]
      /\ \A x \in Nodes : w.parent[x] = IF x = v.child[p][0] THEN p ELSE v.parent[x]
  BY <1>8 DEF IsHung
<1>10. \A m \in N, g \in Dirs : u.child[m][g] # Null => u.parent[u.child[m][g]] = m
  BY DEF Tree, Linked
<1>11. ASSUME NEW x \in Nodes PROVE w.parent[x] = u.parent[x]
  <2>1. CASE x = v.child[p][0]
    <3>1. x # Null
      BY <1>1
    <3>2. x = u.child[p][0]
      BY <1>1, <1>6, <2>1, <3>1
    <3> QED BY <1>1, <1>9, <1>10, <2>1, <3>1, <3>2
  <2>2. CASE x # v.child[p][0]
    BY <1>6, <1>9, <2>2
  <2> QED BY <2>1, <2>2
<1>12. \A x \in Nodes, g \in Dirs : w.child[x][g] = IF x = p /\ g = e THEN Null ELSE u.child[x][g]
  <2>1. \A x \in Nodes, g \in Dirs : w.child[x][g] = v.child[x][g]
    BY <1>9
  <2> QED BY <1>6, <2>1
<1> QED BY <1>6, <1>9, <1>11, <1>12 DEF IsLoose

(* A leaf that is linked no more may count as cut. *)
LEMMA CutExists ==
    ASSUME NEW u, u \in Links, NEW v, NEW p, NEW e, NEW q, q \in Nodes, IsLoose(v, u, p, e, q),
           \A g \in Dirs : u.child[q][g] = Null
    PROVE  \E w : IsCut(w, u, p, e, q) /\ w.child = v.child
                  /\ \A x \in Nodes : x # q => (w.red[x] <=> v.red[x]) /\ w.parent[x] = v.parent[x]
<1> DEFINE w == [red |-> [v.red EXCEPT ![q] = FALSE], child |-> v.child, parent |-> [v.parent EXCEPT ![q] = Null]]
<1>1. /\ v \in Links /\ v.red = u.red
      /\ \A x \in Nodes, g \in Dirs : v.child[x][g] = IF x = p /\ g = e THEN Null ELSE u.child[x][g]
      /\ \A x \in Nodes : v.parent[x] = u.parent[x]
  BY DEF IsLoose
<1>2. v.red \in [Nodes -> BOOLEAN] /\ v.parent \in [Nodes -> Refs] /\ v.child \in [Nodes -> [Dirs -> Refs]] /\ Null \in Refs
  BY <1>1 DEF Links, Refs
<1>3. w \in Links
  <2>1. [v.red EXCEPT ![q] = FALSE] \in [Nodes -> BOOLEAN]
    BY <1>2
  <2>2. [v.parent EXCEPT ![q] = Null] \in [Nodes -> Refs]
    BY <1>2
  <2> QED BY <1>2, <2>1, <2>2 DEF Links
<1>4. w.child = v.child
  OBVIOUS
<1>5. \A x \in Nodes : w.red[x] <=> x # q /\ u.red[x]
  BY <1>1, <1>2
<1>6. \A x \in Nodes : w.parent[x] = IF x = q THEN Null ELSE u.parent[x]
  BY <1>1, <1>2
<1>7. \A x \in Nodes : x # q => (w.red[x] <=> v.red[x]) /\ w.parent[x] = v.parent[x]
  BY <1>1, <1>2
<1> HIDE DEF w
<1>8. \A x \in Nodes, f \in Dirs :
            w.child[x][f] = IF x = q \/ (x = p /\ f = e) THEN Null ELSE u.child[x][f]
  BY <1>1, <1>4
<1>9. IsCut(w, u, p, e, q)
  BY <1>3, <1>5, <1>6, <1>8 DEF IsCut
<1> QED BY <1>4, <1>7, <1>9

(* What is renamed has no use for what q held before. *)
LEMMA RenamedCut ==
    ASSUME NEW v, NEW u, NEW f, f \in Keys, NEW q, q \in Keys, q # f,
           u.child = v.child, \A x \in Nodes : x # q => (u.red[x] <=> v.red[x]) /\ u.parent[x] = v.parent[x],
           NEW w, IsRenamed(w, v, f, q)
    PROVE  IsRenamed(w, u, f, q)
<1>1. \A x \in Nodes : x # f => Old(x, f, q) \in Nodes /\ Old(x, f, q) # q
  BY Sets DEF Old
<1>2. /\ w \in Links
      /\ \A x \in Nodes, d \in Dirs :
            w.child[x][d] = IF x = f THEN Null ELSE New(v.child[Old(x, f, q)][d], f, q)
      /\ \A x \in Nodes : w.parent[x] = IF x = f THEN Null ELSE New(v.parent[Old(x, f, q)], f, q)
      /\ \A x \in Nodes : w.red[x] <=> x # f /\ v.red[Old(x, f, q)]
  BY DEF IsRenamed
<1>3. \A x \in Nodes, d \in Dirs :
            w.child[x][d] = IF x = f THEN Null ELSE New(u.child[Old(x, f, q)][d], f, q)
  BY <1>2
<1>4. \A x \in Nodes : w.parent[x] = IF x = f THEN Null ELSE New(u.parent[Old(x, f, q)], f, q)
  BY <1>1, <1>2
<1>5. \A x \in Nodes : w.red[x] <=> x # f /\ u.red[Old(x, f, q)]
  BY <1>1, <1>2
<1> QED BY <1>2, <1>3, <1>4, <1>5 DEF IsRenamed

(* If q itself holds the key, nothing takes its name. *)
LEMMA RenamedSame ==
    ASSUME NEW u, u \in Links, NEW v, NEW p, NEW e, NEW q, q \in Keys, IsLoose(v, u, p, e, q),
           NEW w, w = Renamed(v, q, q)
    PROVE  IsCut(w, u, p, e, q)
<1>1. /\ v \in Links /\ v.red = u.red
      /\ \A x \in Nodes, g \in Dirs : v.child[x][g] = IF x = p /\ g = e THEN Null ELSE u.child[x][g]
      /\ \A x \in Nodes : v.parent[x] = u.parent[x]
  BY DEF IsLoose
<1>2. v.red \in [Nodes -> BOOLEAN] /\ v.parent \in [Nodes -> Refs] /\ v.child \in [Nodes -> [Dirs -> Refs]] /\ Null \in Refs
  BY <1>1 DEF Links, Refs
<1>3. /\ w.red = [n \in Nodes |-> IF n = q THEN FALSE ELSE v.red[n]]
      /\ w.child = [n \in Nodes |-> [d \in Dirs |-> IF n = q THEN Null ELSE v.child[n][d]]]
      /\ w.parent = [n \in Nodes |-> IF n = q THEN Null ELSE v.parent[n]]
      /\ w = [red |-> w.red, child |-> w.child, parent |-> w.parent]
  BY DEF Renamed
<1>4. w \in Links
  <2>1. w.red \in [Nodes -> BOOLEAN]
    <3>1. ASSUME NEW n \in Nodes PROVE (IF n = q THEN FALSE ELSE v.red[n]) \in BOOLEAN
      <4>1. v.red[n] \in BOOLEAN
        BY <1>2
      <4> QED BY Zenon, <4>1
    <3> QED BY Zenon, <1>3, <3>1
  <2>2. w.child \in [Nodes -> [Dirs -> Refs]] /\ w.parent \in [Nodes -> Refs]
    BY <1>2, <1>3
  <2> QED BY Zenon, <1>3, <2>1, <2>2 DEF Links
<1>5. \A x \in Nodes, f \in Dirs :
            w.child[x][f] = IF x = q \/ (x = p /\ f = e) THEN Null ELSE u.child[x][f]
  BY <1>1, <1>3
<1>6. \A x \in Nodes : w.parent[x] = IF x = q THEN Null ELSE u.parent[x]
  BY <1>1, <1>3
<1>7. \A x \in Nodes : w.red[x] <=> x # q /\ u.red[x]
  BY <1>1, <1>3
<1> QED BY <1>4, <1>5, <1>6, <1>7 DEF IsCut

(* What remove leaves is a tree of the other nodes. *)
LEMMA RemovedShape ==
    ASSUME NEW N, NEW lo, NEW hi, Shape(t, N, lo, hi),
           NEW q, NEW p, NEW f, Ending(N, lo, hi, q, p, f), p # FalseRoot,
           NEW w, w = Renamed(Unlinked(t, p, q), f, q)
    PROVE  N \ {f} # {} /\ \E lo2, hi2 : Shape(w, N \ {f}, lo2, hi2)
<1>1. Tree(t, N, lo, hi) /\ N \subseteq Keys /\ t \in Links
  BY DEF Shape, Tree
<1>2. /\ q \in N /\ f \in N /\ p \in N
      /\ \A d \in Dirs : t.child[q][d] = Null
      /\ t.red[q] /\ Under(t, N, q, p)
      /\ q # f => q < f /\ f = hi[q]
      /\ \A k \in N : ~(q < k /\ k < hi[q])
  BY DEF Ending
<1>3. PICK e \in Dirs : Slot(N, p, e) /\ t.child[p][e] = q
  BY <1>2 DEF Under
<1>4. q \in Keys /\ f \in Keys /\ q \in Nodes /\ q # Null
  BY <1>1, <1>2, Sets
<1>5. p # q
  BY <1>2, <1>3, <1>4
<1> DEFINE v == Unlinked(t, p, q)
<1>6. IsLoose(v, t, p, e, q)
  BY <1>1, <1>2, <1>3, UnlinkedFacts
<1>7. w = Renamed(v, f, q)
  OBVIOUS
<1> HIDE DEF v
<1>8. CASE q = f
  <2>1. IsCut(w, t, p, e, q)
    BY <1>1, <1>4, <1>6, <1>7, <1>8, RenamedSame
  <2>2. Shape(w, N \ {q}, lo, hi)
    BY <1>2, <1>3, <2>1, CutShape
  <2> QED BY <1>2, <1>5, <1>8, <2>2
<1>9. CASE q # f
  <2>1. PICK u : IsCut(u, t, p, e, q) /\ u.child = v.child
                 /\ \A x \in Nodes : x # q => (u.red[x] <=> v.red[x]) /\ u.parent[x] = v.parent[x]
    BY <1>1, <1>2, <1>4, <1>6, CutExists
  <2>2. Shape(u, N \ {q}, lo, hi)
    BY <1>2, <1>3, <2>1, CutShape
  <2>3. IsRenamed(w, v, f, q)
    <3>1. v \in Links
      BY <1>6 DEF IsLoose
    <3> QED BY <1>4, <1>7, <1>9, <3>1, RenamedFacts
  <2>4. IsRenamed(w, u, f, q)
    BY <1>4, <1>9, <2>1, <2>3, RenamedCut
  <2> DEFINE N1 == N \ {q}
  <2> DEFINE M == (N1 \ {f}) \cup {q}
  <2>5. f \in N1 /\ q \notin N1 /\ q < f /\ \A k \in N1 : ~(q < k /\ k < f)
    BY <1>2, <1>9
  <2>6. M = N \ {f}
    BY <1>2, <1>9
  <2>7. Shape(u, N1, lo, hi)
    BY <2>2
  <2> HIDE DEF N1
  <2>8. \E lo2, hi2 : Shape(w, M, lo2, hi2)
    BY <1>4, <2>4, <2>5, <2>7, RenameShape
  <2>9. N \ {f} # {}
    BY <1>2, <1>9
  <2> QED BY <2>6, <2>8, <2>9
<1> QED BY <1>8, <1>9

(* The last node of the tree: no root is left. *)
LEMMA EmptiedTop ==
    ASSUME NEW N, NEW lo, NEW hi, Shape(t, N, lo, hi),
           NEW q, NEW p, NEW f, Ending(N, lo, hi, q, p, f), p = FalseRoot,
           NEW w, w = Renamed(Unlinked(t, p, q), f, q)
    PROVE  w.child[FalseRoot][1] = Null
<1>1. N \subseteq Keys /\ t \in Links
  BY DEF Shape, Tree
<1>2. q \in N /\ f \in N /\ N = {q} /\ Under(t, N, q, FalseRoot) /\ \A d \in Dirs : t.child[q][d] = Null
  BY DEF Ending
<1>3. q = f /\ q \in Keys /\ q # Null /\ q # FalseRoot /\ FalseRoot \in Nodes /\ FalseRoot # Null /\ 0 \in Dirs /\ 1 \in Dirs
  BY <1>1, <1>2, Sets DEF Dirs
<1>4. t.child[FalseRoot][1] = q
  BY <1>2, <1>3 DEF Under, Slot
<1> DEFINE v == [t EXCEPT !.child[FalseRoot][1] = Null]
<1>5. t.child[q][IF t.child[q][0] = Null THEN 1 ELSE 0] = Null
  BY <1>2, <1>3
<1>6. Unlinked(t, p, q) = Hung(v, FalseRoot, 0, v.child[FalseRoot][0])
  BY <1>4, <1>5 DEF Unlinked
<1>7. v.child[FalseRoot][1] = Null /\ v.child \in [Nodes -> [Dirs -> Refs]]
  BY <1>1, <1>3, Sets DEF Links, Refs
<1> HIDE DEF v
<1>8. Hung(v, FalseRoot, 0, v.child[FalseRoot][0]).child[FalseRoot][1] = Null
  BY <1>3, <1>7 DEF Hung
<1> QED BY <1>3, <1>6, <1>8 DEF Renamed

(* beg points to the lowest key. *)
IsLeast(N, b) == IF N = {} THEN b = Null ELSE b \in N /\ \A k \in N : b <= k

(* A key that remove's walk did not meet is not in the tree. *)
LEMMA Missed ==
    ASSUME NEW N, NEW lo, NEW hi, Shape(t, N, lo, hi), Deleting(t, N, lo, hi, at),
           t.child[at.q][at.dir] = Null, at.f = Null
    PROVE  at.key \notin N
<1>1. Tree(t, N, lo, hi) /\ N \subseteq Keys
  BY DEF Shape, Tree
<1>2. at.q \in N \cup {FalseRoot} /\ (at.q = FalseRoot => at.dir = 1) /\ at \in Locals
  BY DEF Deleting
<1>3. /\ Lower(lo, at.q, at.dir) < at.key
      /\ at.f = IF at.key < Upper(hi, at.q, at.dir) THEN Null ELSE at.key
  BY DEF Deleting, Found
<1>4. at.key \in Keys /\ at.key # Null /\ at.dir \in Dirs
  BY <1>2, Sets DEF Locals
<1>5. at.key < Upper(hi, at.q, at.dir)
  BY <1>3, <1>4
<1>6. Slot(N, at.q, at.dir) /\ at.q \in Nodes
  BY <1>1, <1>2, Sets DEF Slot
<1>7. \A m \in Nodes, d \in Dirs : Slot(N, m, d) /\ t.child[m][d] = Null =>
          \A k \in N : ~(Lower(lo, m, d) < k /\ k < Upper(hi, m, d))
  BY <1>1 DEF Tree, Sorted
<1> QED BY <1>3, <1>4, <1>5, <1>6, <1>7

(* The walk of remove ends at a node of the tree. *)
LEMMA EndsInTree ==
    ASSUME NEW N, NEW lo, NEW hi, Shape(t, N, lo, hi), Deleting(t, N, lo, hi, at),
           t.child[at.q][at.dir] = Null
    PROVE  at.q \in N /\ t.child[FalseRoot][1] \in N
<1>1. Tree(t, N, lo, hi)
  BY DEF Shape
<1>2. at.q \in N \cup {FalseRoot} /\ (at.q = FalseRoot => at.dir = 1) /\ N # {}
  BY DEF Deleting
<1> QED BY <1>1, <1>2, TopExists

(* A leaf on the left of p: p is next. *)
LEMMA NextOfLeaf ==
    ASSUME NEW N, NEW lo, NEW hi, Shape(t, N, lo, hi),
           NEW q, NEW p, NEW f, Ending(N, lo, hi, q, p, f), p # FalseRoot, \A k \in N : q <= k
    PROVE  p = hi[q] /\ p \in N /\ q # p /\ \A k \in N : k # q => p <= k
<1>1. Tree(t, N, lo, hi) /\ N \subseteq Keys
  BY DEF Shape, Tree
<1>2. /\ q \in N /\ p \in N /\ Under(t, N, q, p)
      /\ \A k \in N : ~(q < k /\ k < hi[q])
  BY DEF Ending
<1>3. PICK e \in Dirs : t.child[p][e] = q
  BY <1>2 DEF Under
<1>4. q # Null /\ (e = 0 \/ e = 1) /\ (\A k \in N : k \in Int) /\ p \in Int /\ q \in Int
  BY <1>1, <1>2, Sets DEF Dirs
<1>5. IsNested(N, lo, hi, p, e, q)
  BY <1>1, <1>2, <1>3, <1>4, NestedFacts
<1>6. q <= p
  BY <1>2
<1>7. e = 0 /\ hi[q] = p /\ q < p
  BY <1>4, <1>5, <1>6 DEF IsNested
<1>8. ASSUME NEW k \in N, k # q PROVE p <= k
  <2>1. q <= k /\ k \in Int /\ ~(q < k /\ k < p)
    BY <1>2, <1>4, <1>7
  <2> QED BY <1>4, <1>8, <2>1
<1> QED BY <1>2, <1>4, <1>7, <1>8

(* remove moves beg to the lowest key that is left. *)
LEMMA RemovedLeast ==
    ASSUME NEW N, NEW lo, NEW hi, Shape(t, N, lo, hi),
           NEW q, NEW p, NEW f, Ending(N, lo, hi, q, p, f), p # FalseRoot, IsLeast(N, beg)
    PROVE  IsLeast(N \ {f}, BegAfter(p, q, f))
<1>1. N \subseteq Keys
  BY DEF Shape, Tree
<1>2. q \in N /\ f \in N /\ p \in N /\ (q # f => q < f /\ f = hi[q])
  BY DEF Ending
<1>3. beg \in N /\ \A k \in N : beg <= k
  BY <1>2 DEF IsLeast
<1>4. \A k \in N : k \in Int
  BY <1>1, Sets
<1>5. beg = q => p = hi[q] /\ q # p /\ \A k \in N : k # q => p <= k
  BY <1>3, NextOfLeaf
<1>6. ASSUME NEW b, b \in N, b # f, \A k \in N : k # f => b <= k PROVE IsLeast(N \ {f}, b)
  BY <1>6 DEF IsLeast
<1>7. CASE q = f
  <2>1. CASE beg = q
    <3>1. BegAfter(p, q, f) = p
      BY <1>5, <1>7, <2>1 DEF BegAfter
    <3> QED BY <1>2, <1>5, <1>6, <1>7, <2>1, <3>1
  <2>2. CASE beg # q
    <3>1. BegAfter(p, q, f) = beg
      BY <1>7, <2>2 DEF BegAfter
    <3> QED BY <1>3, <1>6, <1>7, <2>2, <3>1
  <2> QED BY <2>1, <2>2
<1>8. CASE q # f
  <2>1. q < f /\ f = hi[q] /\ q \in Int /\ f \in Int /\ beg \in Int /\ beg <= q
    BY <1>2, <1>3, <1>4, <1>8
  <2>2. beg # f
    BY <2>1
  <2>3. CASE beg = q
    <3>1. BegAfter(p, q, f) = q
      BY <1>5, <2>1, <2>3 DEF BegAfter
    <3> QED BY <1>2, <1>3, <1>6, <1>8, <2>3, <3>1
  <2>4. CASE beg # q
    <3>1. BegAfter(p, q, f) = beg
      BY <2>2, <2>4 DEF BegAfter
    <3> QED BY <1>3, <1>6, <2>2, <3>1
  <2> QED BY <2>3, <2>4
<1> QED BY <1>7, <1>8

(* The links with the false root that insert and remove put above r. *)
Started(u, r) == [u EXCEPT !.child[FalseRoot] = [d \in Dirs |-> IF d = 1 THEN r ELSE Null]]

(* len counts the nodes N, and they hold the keys the client left there. *)
Counted(N) ==
    /\ len = Cardinality(N)
    /\ pc # "remove" => N = contents
    /\ pc = "remove" => at.key \in N /\ N # {at.key} /\ contents = N \ {at.key}

(* What holds of the nodes N with the bounds lo and hi, by where the     *)
(* operation is.                                                         *)
Kept(N, lo, hi) ==
    /\ pc = "idle" => Ready(Started(t, root), N, lo, hi) /\ at = NoLocals
    /\ pc = "insert" => Shape(t, N, lo, hi) /\ Inserting(t, N, lo, hi, at)
    /\ pc = "remove" => Shape(t, N, lo, hi) /\ Deleting(t, N, lo, hi, at)
    /\ IsLeast(N, beg)
    /\ ~RemoveAbsent => Counted(N)

(* The types of the variables. *)
Typed ==
    /\ t \in Links /\ at \in Locals
    /\ root \in Keys \cup {Null} /\ len \in 0..Width - 1 /\ contents \in SUBSET Keys

(* The inductive invariant: the links are those of a red-black tree of   *)
(* some nodes, but for what the operation under way may leave to be      *)
(* repaired. Nothing says so after a crash, and without calls for absent *)
(* keys there is none.                                                   *)
RBInv ==
    /\ pc \in {"idle", "insert", "remove", "crashed"}
    /\ pc = "crashed" => RemoveAbsent
    /\ pc # "crashed" => Typed /\ \E N, lo, hi : Kept(N, lo, hi)

(* len counts modulo Width. *)
LEMMA Counting ==
    ASSUME NEW n \in 0..Width - 1
    PROVE  /\ (n + 1) % Width \in 0..Width - 1 /\ (n - 1) % Width \in 0..Width - 1
           /\ n + 1 < Width => (n + 1) % Width = n + 1
           /\ 0 < n => (n - 1) % Width = n - 1
<1>1. Width \in Nat /\ 0 < Width
  BY RBTreeAssumption
<1>2. (n + 1) % Width \in 0..Width - 1 /\ (n - 1) % Width \in 0..Width - 1
  BY <1>1
<1>3. ASSUME NEW m \in 0..Width - 1 PROVE m % Width = m
  BY <1>1, <1>3
<1>4. n + 1 < Width => (n + 1) % Width = n + 1
  BY <1>1, <1>3
<1>5. 0 < n => (n - 1) % Width = n - 1
  BY <1>1, <1>3
<1> QED BY <1>2, <1>4, <1>5

(* A tree has at most as many nodes as there are keys. *)
LEMMA Sizes ==
    ASSUME NEW N, N \subseteq Keys
    PROVE  /\ IsFiniteSet(N) /\ Cardinality(N) \in Nat /\ Cardinality(N) <= MaxKey
           /\ \A k \in Keys : k \notin N => Cardinality(N \cup {k}) = Cardinality(N) + 1
           /\ \A k \in N : Cardinality(N \ {k}) = Cardinality(N) - 1
           /\ Cardinality(N) = 0 <=> N = {}
           /\ \A k \in N : Cardinality(N) = 1 => N = {k}
<1>1. MaxKey \in Nat
  BY RBTreeAssumption
<1>2. IsFiniteSet(Keys) /\ Cardinality(Keys) = MaxKey
  <2>1. IsFiniteSet(1..MaxKey) /\ Cardinality(1..MaxKey) = IF 1 > MaxKey THEN 0 ELSE MaxKey - 1 + 1
    BY <1>1, FS_Interval
  <2> QED BY <1>1, <2>1, RBTreeAssumption DEF Keys
<1>3. IsFiniteSet(N) /\ Cardinality(N) <= Cardinality(Keys)
  BY <1>2, FS_Subset
<1>4. Cardinality(N) \in Nat
  BY <1>3, FS_CardinalityType
<1>5. \A k \in Keys : k \notin N => Cardinality(N \cup {k}) = Cardinality(N) + 1
  BY <1>3, FS_AddElement
<1>6. \A k \in N : Cardinality(N \ {k}) = Cardinality(N) - 1
  BY <1>3, FS_RemoveElement
<1>7. Cardinality(N) = 0 <=> N = {}
  BY <1>3, FS_EmptySet
<1>8. ASSUME NEW k \in N, Cardinality(N) = 1 PROVE N = {k}
  <2>1. IsFiniteSet(N \ {k}) /\ Cardinality(N \ {k}) = 0
    BY <1>3, <1>6, <1>8, FS_RemoveElement
  <2>2. N \ {k} = {}
    BY <2>1, FS_EmptySet
  <2> QED BY <1>8, <2>2
<1> QED BY <1>2, <1>3, <1>4, <1>5, <1>6, <1>7, <1>8

(* No node is linked. *)
LEMMA BlankLinks == Blank \in Links
<1>1. Null \in Refs
  BY DEF Refs
<1> QED BY <1>1 DEF Blank, Links

(* What the false root of an operation changes. *)
LEMMA StartedLinks ==
    ASSUME NEW u, u \in Links, NEW r, r \in Refs, NEW w, w = Started(u, r)
    PROVE  /\ w \in Links /\ w.red = u.red /\ w.parent = u.parent
           /\ \A x \in Nodes, d \in Dirs :
                 w.child[x][d] = IF x = FalseRoot THEN (IF d = 1 THEN r ELSE Null) ELSE u.child[x][d]
<1>1. u.child \in [Nodes -> [Dirs -> Refs]] /\ FalseRoot \in Nodes /\ Null \in Refs
  BY Sets DEF Links, Refs
<1>2. [d \in Dirs |-> IF d = 1 THEN r ELSE Null] \in [Dirs -> Refs]
  BY <1>1
<1>3. w.child = [u.child EXCEPT ![FalseRoot] = [d \in Dirs |-> IF d = 1 THEN r ELSE Null]]
  BY DEF Started, Links
<1>4. w.child \in [Nodes -> [Dirs -> Refs]]
  BY <1>1, <1>2, <1>3
<1>5. w.red = u.red /\ w.parent = u.parent
  BY DEF Started, Links
<1>6. w \in Links
  BY Zenon, <1>4 DEF Started, Links
<1> QED BY <1>1, <1>3, <1>5, <1>6

(* A tree that has its root below the false root is started already. *)
LEMMA StartedSame ==
    ASSUME NEW u, NEW N, NEW lo, NEW hi, Tree(u, N, lo, hi)
    PROVE  Started(u, u.child[FalseRoot][1]) = u
<1>1. /\ u \in Links /\ FalseRoot \in Nodes /\ 0 \in Dirs /\ 1 \in Dirs /\ FalseRoot \notin N
      /\ Slot(N, FalseRoot, 0) <=> FalseRoot \in N
  BY Sets DEF Tree, Dirs, Slot
<1>2. u.child[FalseRoot][0] = Null
  BY <1>1 DEF Tree, Linked
<1>3. u.child \in [Nodes -> [Dirs -> Refs]]
  BY <1>1 DEF Links
<1>4. [d \in Dirs |-> IF d = 1 THEN u.child[FalseRoot][1] ELSE Null] = u.child[FalseRoot]
  <2>1. \A d \in Dirs : (IF d = 1 THEN u.child[FalseRoot][1] ELSE Null) = u.child[FalseRoot][d]
    BY <1>2 DEF Dirs
  <2>2. u.child[FalseRoot] \in [Dirs -> Refs]
    BY <1>1, <1>3
  <2> QED BY <2>1, <2>2
<1>5. [u.child EXCEPT ![FalseRoot] = u.child[FalseRoot]] = u.child
  BY <1>1, <1>3
<1>6. Started(u, u.child[FalseRoot][1]) = [u EXCEPT !.child = [u.child EXCEPT ![FalseRoot] = u.child[FalseRoot]]]
  BY <1>4 DEF Started, Links
<1> QED BY <1>1, <1>5, <1>6 DEF Links

(* Nothing linked is an empty tree. *)
LEMMA NoTree ==
    ASSUME NEW lo, NEW hi, lo \in [Keys -> Int], hi \in [Keys -> Int]
    PROVE  Ready(Started(Blank, Null), {}, lo, hi)
<1> DEFINE w == Started(Blank, Null)
<1>1. /\ w \in Links /\ w.red = Blank.red /\ w.parent = Blank.parent
      /\ \A x \in Nodes, d \in Dirs :
            w.child[x][d] = IF x = FalseRoot THEN (IF d = 1 THEN Null ELSE Null) ELSE Blank.child[x][d]
  <2>1. Null \in Refs
    BY DEF Refs
  <2> QED BY <2>1, BlankLinks, StartedLinks
<1> HIDE DEF w
<1>2. /\ \A x \in Nodes, d \in Dirs : w.child[x][d] = Null
      /\ \A x \in Nodes : w.parent[x] = Null /\ ~w.red[x]
  BY <1>1 DEF Blank
<1>3. Linked(w, {})
  BY <1>2, Sets DEF Linked
<1>4. Sorted(w, {}, lo, hi)
  BY <1>2 DEF Sorted
<1>5. Tree(w, {}, lo, hi)
  BY <1>1, <1>3, <1>4 DEF Tree
<1>6. \E bh \in Heights : Even(w, {}, bh)
  <2>1. [k \in Keys \cup {Null} |-> 0] \in Heights
    BY DEF Heights
  <2>2. Even(w, {}, [k \in Keys \cup {Null} |-> 0])
    BY DEF Even
  <2> QED BY <2>1, <2>2
<1>7. Cool(w, {})
  BY <1>2, Sets DEF Cool
<1>8. Shape(w, {}, lo, hi)
  BY <1>5, <1>6, <1>7 DEF Shape
<1> QED BY <1>8 DEF Ready, w

(* A single black node is a tree. *)
LEMMA OneNode ==
    ASSUME NEW key \in Keys, NEW lo, lo = [k \in Keys |-> 0], NEW hi, hi = [k \in Keys |-> MaxKey + 1]
    PROVE  Ready(Started(Blank, key), {key}, lo, hi)
<1> DEFINE w == Started(Blank, key)
<1>0. key \in Refs /\ key \in Nodes /\ key # FalseRoot /\ key # Null /\ FalseRoot \in Nodes /\ 0 < key /\ key < MaxKey + 1
      /\ key \in Int /\ MaxKey \in Int /\ 1 \in Dirs /\ 0 \in Dirs /\ FalseRoot # Null
  BY Sets DEF Dirs
<1>1. /\ w \in Links /\ w.red = Blank.red /\ w.parent = Blank.parent
      /\ \A x \in Nodes, d \in Dirs :
            w.child[x][d] = IF x = FalseRoot THEN (IF d = 1 THEN key ELSE Null) ELSE Blank.child[x][d]
  BY <1>0, BlankLinks, StartedLinks
<1> HIDE DEF w
<1>2. /\ \A x \in Nodes, d \in Dirs : w.child[x][d] = IF x = FalseRoot /\ d = 1 THEN key ELSE Null
      /\ \A x \in Nodes : w.parent[x] = Null /\ ~w.red[x]
  BY <1>1 DEF Blank
<1>3. Linked(w, {key})
  <2>1. \A x \in Keys : x \in Nodes
    BY Sets
  <2> QED BY <1>0, <1>2, <2>1 DEF Linked, Slot
<1>4. lo \in [Keys -> Int] /\ hi \in [Keys -> Int] /\ lo[key] = 0 /\ hi[key] = MaxKey + 1
  BY <1>0
<1>5. Sorted(w, {key}, lo, hi)
  <2>1. \A m \in Nodes, d \in Dirs : Slot({key}, m, d) /\ w.child[m][d] # Null => m = FalseRoot /\ w.child[m][d] = key
    BY <1>2
  <2>2. \A m \in Nodes, d \in Dirs : Slot({key}, m, d) /\ w.child[m][d] = Null => m = key
    BY <1>0, <1>2 DEF Slot
  <2>3. Lower(lo, FalseRoot, 1) = 0 /\ Upper(hi, FalseRoot, 1) = MaxKey + 1
    BY DEF Lower, Upper
  <2>4. \A d \in Dirs : Lower(lo, FalseRoot, d) = 0 /\ Upper(hi, FalseRoot, d) = MaxKey + 1
    BY DEF Lower, Upper
  <2>5. \A d \in Dirs : ~(Lower(lo, key, d) < key /\ key < Upper(hi, key, d))
    BY <1>0, <1>4 DEF Lower, Upper
  <2> QED BY Zenon, <1>0, <1>4, <2>1, <2>2, <2>4, <2>5 DEF Sorted
<1>6. Tree(w, {key}, lo, hi)
  BY <1>1, <1>3, <1>4, <1>5 DEF Tree
<1>7. \E bh \in Heights : Even(w, {key}, bh)
  <2> DEFINE bh == [k \in Keys \cup {Null} |-> IF k = Null THEN 0 ELSE 1]
  <2>1. bh \in Heights
    BY DEF Heights
  <2>2. bh[Null] = 0 /\ bh[key] = 1
    BY <1>0
  <2>3. w.child[key][0] = Null /\ w.child[key][1] = Null /\ ~w.red[key]
    BY <1>0, <1>2
  <2> HIDE DEF bh
  <2>4. Even(w, {key}, bh)
    BY <2>2, <2>3 DEF Even
  <2> QED BY <2>1, <2>4
<1>8. Cool(w, {key})
  BY <1>0, <1>2 DEF Cool
<1>9. Shape(w, {key}, lo, hi)
  BY <1>6, <1>7, <1>8 DEF Shape
<1>10. w.child[FalseRoot][1] = key /\ ~w.red[key] /\ w.parent[key] = Null
  BY <1>0, <1>2
<1> QED BY <1>9, <1>10 DEF Ready, w

(* No operation is under way. *)
LEMMA LocalsOfNone == NoLocals \in Locals
<1>1. 1 \in Keys /\ Null \in Refs /\ 0 \in Dirs
  BY RBTreeAssumption DEF Keys, Refs, Dirs
<1> QED BY <1>1 DEF NoLocals, Locals

(* An rbtree starts empty. *)
LEMMA RBInit == Init => RBInv
<1> SUFFICES ASSUME Init PROVE RBInv
  OBVIOUS
<1> DEFINE z == [k \in Keys |-> 0]
<1>1. z \in [Keys -> Int]
  OBVIOUS
<1>2. Ready(Started(t, root), {}, z, z)
  BY <1>1, NoTree DEF Init
<1>3. Typed
  <2>1. 0 \in 0..Width - 1
    BY RBTreeAssumption
  <2> QED BY <2>1, BlankLinks, LocalsOfNone DEF Init, Typed
<1>4. Cardinality({}) = 0
  BY FS_EmptySet
<1>5. Kept({}, z, z)
  BY <1>2, <1>4 DEF Init, Kept, IsLeast, Counted
<1> QED BY <1>3, <1>5 DEF Init, RBInv

(* The tree between operations, and its root. *)
LEMMA IdleRoot ==
    ASSUME NEW N, NEW lo, NEW hi, Ready(Started(t, root), N, lo, hi), Typed
    PROVE  /\ Shape(Started(t, root), N, lo, hi) /\ N \subseteq Keys
           /\ Started(t, root).child[FalseRoot][1] = root
           /\ root = Null => N = {}
           /\ root # Null => root \in N /\ ~t.red[root] /\ t.parent[root] = Null
<1> DEFINE w == Started(t, root)
<1>1. root \in Refs /\ t \in Links /\ FalseRoot \in Nodes /\ 1 \in Dirs
  BY Sets DEF Typed, Refs, Nodes, Dirs
<1>2. /\ w.red = t.red /\ w.parent = t.parent
      /\ \A x \in Nodes, d \in Dirs :
            w.child[x][d] = IF x = FalseRoot THEN (IF d = 1 THEN root ELSE Null) ELSE t.child[x][d]
  BY <1>1, StartedLinks
<1> HIDE DEF w
<1>3. w.child[FalseRoot][1] = root
  BY <1>1, <1>2
<1>4. Shape(w, N, lo, hi) /\ (N # {} => ~w.red[w.child[FalseRoot][1]] /\ w.parent[w.child[FalseRoot][1]] = Null)
  BY DEF Ready, w
<1>5. Tree(w, N, lo, hi) /\ N \subseteq Keys
  BY <1>4 DEF Shape, Tree
<1>6. (root = Null => N = {}) /\ (root # Null => root \in N)
  BY <1>3, <1>5, TopExists
<1> QED BY <1>2, <1>3, <1>4, <1>5, <1>6 DEF w

(* The first insert makes the root. *)
LEMMA InsertRootStep ==
    ASSUME RBInv, NEW key \in Keys, InsertRoot(key)
    PROVE  RBInv'
<1>1. pc = "idle" /\ root = Null /\ t' = Blank /\ root' = key /\ beg' = key
      /\ len' = (len + 1) % Width /\ contents' = contents \cup {key} /\ pc' = pc /\ at' = at
  BY DEF InsertRoot
<1>2. PICK N, lo, hi : Kept(N, lo, hi)
  BY <1>1 DEF RBInv
<1>3. Typed
  BY <1>1 DEF RBInv
<1>4. Ready(Started(t, root), N, lo, hi) /\ at = NoLocals /\ (~RemoveAbsent => Counted(N))
  BY <1>1, <1>2 DEF Kept
<1>5. N = {}
  BY <1>1, <1>3, <1>4, IdleRoot
<1> DEFINE lo2 == [k \in Keys |-> 0]
<1> DEFINE hi2 == [k \in Keys |-> MaxKey + 1]
<1>6. Ready(Started(t', root'), {key}, lo2, hi2)
  BY <1>1, OneNode
<1>7. IsLeast({key}, beg')
  BY <1>1, Sets DEF IsLeast
<1>8. len \in 0..Width - 1
  BY <1>3 DEF Typed
<1>9. ~RemoveAbsent => Counted({key})'
  <2> SUFFICES ASSUME ~RemoveAbsent PROVE Counted({key})'
    OBVIOUS
  <2>1. len = 0 /\ contents = {}
    BY <1>1, <1>4, <1>5, FS_EmptySet DEF Counted
  <2>2. len' = 1
    <3>1. Width \in Nat /\ Width > MaxKey + 1 /\ MaxKey \in Nat
      BY RBTreeAssumption
    <3> QED BY <1>1, <1>8, <2>1, <3>1, Counting
  <2>3. Cardinality({key}) = 1
    BY Zenon, FS_Singleton
  <2> QED BY <1>1, <2>1, <2>2, <2>3 DEF Counted
<1>10. Typed'
  <2>1. len' \in 0..Width - 1
    BY <1>1, <1>8, Counting
  <2> QED BY <1>1, <1>3, <2>1, BlankLinks DEF Typed
<1> HIDE DEF lo2, hi2
<1>11. Kept({key}, lo2, hi2)'
  BY <1>1, <1>4, <1>6, <1>7, <1>9 DEF Kept
<1> QED BY <1>1, <1>10, <1>11 DEF RBInv

(* insert, before its loop. *)
LEMMA InsertStartStep ==
    ASSUME RBInv, NEW key \in Keys, InsertStart(key)
    PROVE  RBInv'
<1>1. pc = "idle" /\ root # Null /\ pc' = "insert" /\ t' = Started(t, root)
      /\ at' = [NoLocals EXCEPT !.key = key, !.h = FalseRoot, !.q = root]
      /\ root' = root /\ beg' = beg /\ len' = len /\ contents' = contents
  BY DEF InsertStart, Started
<1>2. PICK N, lo, hi : Kept(N, lo, hi)
  BY <1>1 DEF RBInv
<1>3. Typed
  BY <1>1 DEF RBInv
<1>4. Ready(Started(t, root), N, lo, hi) /\ IsLeast(N, beg) /\ (~RemoveAbsent => Counted(N))
  BY <1>1, <1>2 DEF Kept
<1>5. Shape(t', N, lo, hi) /\ t'.child[FalseRoot][1] = root /\ root \in N /\ ~t.red[root] /\ N \subseteq Keys
  BY <1>1, <1>3, <1>4, IdleRoot
<1>6. root \in Refs /\ t \in Links /\ FalseRoot \in Refs /\ Null \in Refs /\ 0 \in Dirs
  BY <1>3, Sets DEF Typed, Refs, Nodes, Dirs
<1>7. t' \in Links /\ t'.red = t.red
  BY Zenon, <1>1, <1>6, StartedLinks
<1>8. /\ at' \in Locals /\ at'.p = Null /\ at'.g = Null /\ at'.h = FalseRoot /\ at'.q = root
      /\ at'.dir = 0 /\ at'.last = 0 /\ at'.lefts
  BY Zenon, <1>1, <1>6 DEF NoLocals, Locals
<1>9. Inserting(t', N, lo, hi, at')
  BY <1>5, <1>7, <1>8 DEF Inserting
<1>10. ~RemoveAbsent => Counted(N)'
  BY <1>1, <1>4 DEF Counted
<1>11. Kept(N, lo, hi)'
  BY <1>1, <1>4, <1>5, <1>9, <1>10 DEF Kept
<1>12. Typed'
  BY <1>1, <1>3, <1>7, <1>8 DEF Typed
<1> QED BY <1>1, <1>11, <1>12 DEF RBInv

(* insert, an iteration of its loop that goes on. *)
LEMMA InsertDownStep ==
    ASSUME RBInv, InsertDown
    PROVE  RBInv'
<1>1. /\ pc = "insert" /\ InsertNode # at.key
      /\ t' = Repaired(MadeOrFlipped(at.q), at.q)
      /\ pc' = pc /\ root' = root /\ beg' = beg /\ len' = len /\ contents' = contents
  BY DEF InsertDown
<1>2. at.q # Null /\ at.q # at.key
  BY <1>1 DEF InsertNode
<1>3. PICK N, lo, hi : Kept(N, lo, hi)
  BY <1>1 DEF RBInv
<1>4. Typed
  BY <1>1 DEF RBInv
<1>5. Shape(t, N, lo, hi) /\ Inserting(t, N, lo, hi, at) /\ IsLeast(N, beg) /\ (~RemoveAbsent => Counted(N))
  BY <1>1, <1>3 DEF Kept
<1>6. Descended(at', t')
  <2> DEFINE dir == Less(at.q, at.key)
  <2>1. at' = [at EXCEPT !.last = at.dir, !.dir = dir, !.lefts = @ /\ dir = 0,
                         !.h = IF at.g # Null THEN at.g ELSE @,
                         !.g = at.p, !.p = at.q, !.q = t'.child[at.q][dir]]
    BY DEF InsertDown
  <2>2. at \in Locals /\ at.q \in Nodes
    BY <1>2, <1>4, <1>5, AtQ DEF Typed
  <2>3. dir \in Dirs
    BY DEF Less, Dirs
  <2>4. \E a, b : Shape(t', N, a, b)
    <3>1. Placed(MadeOrFlipped(at.q), N, at.q) /\ Heated(MadeOrFlipped(at.q), N, lo, hi, at.q) /\ at.q \in N
      BY <1>2, <1>5, DownPlaced, AtQ
    <3> QED BY <1>1, <3>1, RepairedCool
  <2>5. t' \in Links
    BY <2>4 DEF Shape, Tree
  <2> HIDE DEF dir
  <2>6. t'.child[at.q][dir] \in Refs
    BY <2>2, <2>3, <2>5 DEF Links
  <2>7. (at.lefts /\ dir = 0) \in BOOLEAN /\ (IF at.g # Null THEN at.g ELSE at.h) \in Refs
    BY <2>2 DEF Locals
  <2>8. at' \in Locals
    BY Zenon, <2>1, <2>2, <2>3, <2>6, <2>7 DEF Locals
  <2>9. /\ at'.key = at.key /\ at'.last = at.dir /\ at'.dir = dir
        /\ at'.lefts <=> at.lefts /\ dir = 0
        /\ at'.h = IF at.g # Null THEN at.g ELSE at.h
        /\ at'.g = at.p /\ at'.p = at.q /\ at'.q = t'.child[at.q][dir]
    BY Zenon, <2>1, <2>2 DEF Locals
  <2> QED BY <2>8, <2>9 DEF Descended, dir
<1>7. PICK lo2, hi2 : Shape(t', N, lo2, hi2) /\ Inserting(t', N, lo2, hi2, at')
  BY <1>1, <1>2, <1>5, <1>6, InsertDownShape
<1>8. ~RemoveAbsent => Counted(N)'
  BY <1>1, <1>5 DEF Counted
<1>9. Kept(N, lo2, hi2)'
  BY <1>1, <1>5, <1>7, <1>8 DEF Kept
<1>10. Typed'
  BY <1>1, <1>4, <1>7 DEF Typed, Shape, Tree, Inserting
<1> QED BY <1>1, <1>9, <1>10 DEF RBInv

(* insert, the last iteration and what follows the loop. *)
LEMMA InsertEndStep ==
    ASSUME RBInv, InsertEnd
    PROVE  RBInv'
<1>0. PICK key \in {at.key} : TRUE
  OBVIOUS
<1> DEFINE u == Repaired(MadeOrFlipped(at.key), at.key)
<1>1. /\ pc = "insert" /\ InsertNode = at.key
      /\ t' = Rooted(u) /\ root' = u.child[FalseRoot][1]
      /\ at.q = Null => len' = (len + 1) % Width /\ beg' = IF at.lefts THEN at.key ELSE beg
      /\ at.q # Null => len' = len /\ beg' = beg
      /\ contents' = contents \cup {at.key}
      /\ pc' = "idle" /\ at' = NoLocals
  BY DEF InsertEnd, Lowest
<1>2. PICK N, lo, hi : Kept(N, lo, hi)
  BY <1>1 DEF RBInv
<1>3. Typed
  BY <1>1 DEF RBInv
<1>4. Shape(t, N, lo, hi) /\ Inserting(t, N, lo, hi, at) /\ IsLeast(N, beg) /\ (~RemoveAbsent => Counted(N))
  BY <1>1, <1>2 DEF Kept
<1>5. /\ \E lo2, hi2 : Ready(Rooted(u), N \cup {key}, lo2, hi2)
      /\ Rooted(u).child = u.child /\ Rooted(u) \in Links
      /\ at.q = Null => /\ key \notin N /\ N # {}
                        /\ at.lefts => \A n \in N : key < n
                        /\ ~at.lefts => \E n \in N : n < key
      /\ at.q # Null => key \in N
  BY Zenon, <1>0, <1>1, <1>4, InsertEndReady
<1>6. key \in Keys /\ len \in 0..Width - 1 /\ N \subseteq Keys
  BY <1>0, <1>3, <1>4 DEF Typed, Locals, Shape, Tree
<1> HIDE DEF u
<1>7. PICK lo2, hi2 : Ready(Rooted(u), N \cup {key}, lo2, hi2)
  BY <1>5
<1>8. Tree(t', N \cup {key}, lo2, hi2) /\ t'.child[FalseRoot][1] = root' /\ t' \in Links
  BY <1>1, <1>5, <1>7 DEF Ready, Shape
<1>9. Ready(Started(t', root'), N \cup {key}, lo2, hi2)
  BY <1>1, <1>7, <1>8, StartedSame
<1>10. root' \in N \cup {key}
  BY <1>8, TopExists
<1>11. IsLeast(N \cup {key}, beg')
  <2>1. \A k \in N \cup {key} : k \in Int
    BY <1>6, Sets
  <2>2. CASE at.q # Null
    <3>1. N \cup {key} = N
      BY <1>5, <2>2
    <3> QED BY Zenon, <1>1, <1>4, <2>2, <3>1
  <2>3. CASE at.q = Null
    <3>1. beg \in N /\ \A k \in N : beg <= k
      BY <1>4, <1>5, <2>3 DEF IsLeast
    <3>2. CASE at.lefts
      <4>1. beg' = key /\ \A k \in N : key < k
        BY <1>0, <1>1, <1>5, <2>3, <3>2
      <4>2. \A k \in N \cup {key} : key <= k
        BY <2>1, <4>1
      <4> QED BY <4>1, <4>2 DEF IsLeast
    <3>3. CASE ~at.lefts
      <4>1. beg' = beg /\ \E k \in N : k < key
        BY <1>1, <1>5, <2>3, <3>3
      <4>2. beg <= key
        BY <2>1, <3>1, <4>1
      <4> QED BY <3>1, <4>1, <4>2 DEF IsLeast
    <3> QED BY <3>2, <3>3
  <2> QED BY <2>2, <2>3
<1>12. ~RemoveAbsent => Counted(N \cup {key})'
  <2> SUFFICES ASSUME ~RemoveAbsent PROVE Counted(N \cup {key})'
    OBVIOUS
  <2>1. len = Cardinality(N) /\ N = contents
    BY <1>1, <1>4 DEF Counted
  <2>2. contents' = N \cup {key}
    BY <1>0, <1>1, <2>1
  <2>3. len' = Cardinality(N \cup {key})
    <3>1. CASE at.q # Null
      <4>1. N \cup {key} = N
        BY <1>5, <3>1
      <4> QED BY Zenon, <1>1, <2>1, <3>1, <4>1
    <3>2. CASE at.q = Null
      <4>1. Cardinality(N \cup {key}) = len + 1 /\ len <= MaxKey /\ len \in Nat
        BY <1>5, <1>6, <2>1, <3>2, Sizes
      <4>2. len + 1 < Width
        BY <4>1, RBTreeAssumption
      <4>3. (len + 1) % Width = len + 1
        BY <1>6, <4>2, Counting
      <4> QED BY <1>1, <3>2, <4>1, <4>3
    <3> QED BY <3>1, <3>2
  <2> QED BY <1>1, <2>2, <2>3 DEF Counted
<1>13. Kept(N \cup {key}, lo2, hi2)'
  BY <1>1, <1>9, <1>11, <1>12 DEF Kept
<1>14. Typed'
  <2>1. len' \in 0..Width - 1
    BY <1>1, <1>6, Counting
  <2>2. root' \in Keys \cup {Null} /\ contents' \in SUBSET Keys
    BY <1>0, <1>1, <1>3, <1>6, <1>10 DEF Typed
  <2> QED BY <1>1, <1>8, <2>1, <2>2, LocalsOfNone DEF Typed
<1> QED BY <1>1, <1>13, <1>14 DEF RBInv

(* remove from an empty tree. *)
LEMMA RemoveFromEmptyStep ==
    ASSUME RBInv, NEW key \in Keys, RemoveFromEmpty(key)
    PROVE  RBInv'
<1>1. pc = "idle" /\ root = Null /\ contents' = contents \ {key}
      /\ pc' = pc /\ t' = t /\ root' = root /\ beg' = beg /\ len' = len /\ at' = at
  BY DEF RemoveFromEmpty, Removing
<1>2. PICK N, lo, hi : Kept(N, lo, hi)
  BY <1>1 DEF RBInv
<1>3. Typed
  BY <1>1 DEF RBInv
<1>4. Ready(Started(t, root), N, lo, hi) /\ (~RemoveAbsent => Counted(N)) /\ at = NoLocals /\ IsLeast(N, beg)
  BY <1>1, <1>2 DEF Kept
<1>5. N = {}
  BY <1>1, <1>3, <1>4, IdleRoot
<1>6. ~RemoveAbsent => Counted(N)'
  BY <1>1, <1>4, <1>5 DEF Counted
<1>7. Kept(N, lo, hi)'
  BY <1>1, <1>4, <1>6 DEF Kept
<1>8. Typed'
  BY <1>1, <1>3 DEF Typed
<1> QED BY <1>1, <1>7, <1>8 DEF RBInv

(* remove from a tree of one node. *)
LEMMA RemoveLastStep ==
    ASSUME RBInv, NEW key \in Keys, RemoveLast(key)
    PROVE  RBInv'
<1>1. /\ pc = "idle" /\ root # Null /\ len = 1 /\ root = key /\ contents' = contents \ {key}
      /\ t' = Blank /\ root' = Null /\ beg' = Null /\ len' = 0 /\ pc' = pc /\ at' = at
  BY DEF RemoveLast, Removing
<1>2. PICK N, lo, hi : Kept(N, lo, hi)
  BY <1>1 DEF RBInv
<1>3. Typed
  BY <1>1 DEF RBInv
<1>4. Ready(Started(t, root), N, lo, hi) /\ (~RemoveAbsent => Counted(N)) /\ at = NoLocals
  BY <1>1, <1>2 DEF Kept
<1>5. key \in N /\ N \subseteq Keys
  BY <1>1, <1>3, <1>4, IdleRoot
<1> DEFINE z == [k \in Keys |-> 0]
<1>6. Ready(Started(t', root'), {}, z, z)
  BY <1>1, NoTree
<1> HIDE DEF z
<1>7. ~RemoveAbsent => Counted({})'
  <2> SUFFICES ASSUME ~RemoveAbsent PROVE Counted({})'
    OBVIOUS
  <2>1. Cardinality(N) = 1 /\ contents = N
    BY <1>1, <1>4 DEF Counted
  <2>2. N = {key}
    BY <1>5, <2>1, Sizes
  <2>3. contents' = {}
    BY <1>1, <2>1, <2>2
  <2> QED BY <1>1, <2>3, FS_EmptySet DEF Counted
<1>8. Kept({}, z, z)'
  BY <1>1, <1>4, <1>6, <1>7 DEF Kept, IsLeast
<1>9. Typed'
  <2>1. 0 \in 0..Width - 1
    BY RBTreeAssumption
  <2> QED BY <1>1, <1>3, <2>1, BlankLinks DEF Typed
<1> QED BY <1>1, <1>8, <1>9 DEF RBInv

(* remove, before its loop. *)
LEMMA RemoveStartStep ==
    ASSUME RBInv, NEW key \in Keys, RemoveStart(key)
    PROVE  RBInv'
<1>1. /\ pc = "idle" /\ root # Null /\ ~(len = 1 /\ root = key) /\ pc' = "remove" /\ t' = Started(t, root)
      /\ at' = [NoLocals EXCEPT !.key = key, !.q = FalseRoot, !.dir = 1]
      /\ root' = root /\ beg' = beg /\ len' = len /\ contents' = contents \ {key}
      /\ key \in contents \/ RemoveAbsent
  BY DEF RemoveStart, Removing, Started
<1>2. PICK N, lo, hi : Kept(N, lo, hi)
  BY <1>1 DEF RBInv
<1>3. Typed
  BY <1>1 DEF RBInv
<1>4. Ready(Started(t, root), N, lo, hi) /\ IsLeast(N, beg) /\ (~RemoveAbsent => Counted(N))
  BY <1>1, <1>2 DEF Kept
<1>5. Shape(t', N, lo, hi) /\ t'.child[FalseRoot][1] = root /\ root \in N /\ N \subseteq Keys
  BY <1>1, <1>3, <1>4, IdleRoot
<1>6. FalseRoot \in Refs /\ Null \in Refs /\ 1 \in Dirs /\ 0 \in Dirs
  BY Sets DEF Refs, Nodes, Dirs
<1>7. /\ at' \in Locals /\ at'.q = FalseRoot /\ at'.dir = 1 /\ at'.f = Null /\ at'.key = key
  BY Zenon, <1>1, <1>6 DEF NoLocals, Locals
<1>8. Lower(lo, FalseRoot, 1) = 0 /\ Upper(hi, FalseRoot, 1) = MaxKey + 1
  BY DEF Lower, Upper
<1>9. key \in Int /\ 0 < key /\ key < MaxKey + 1 /\ MaxKey \in Int
  BY Sets
<1>10. Found(N, lo, hi, at')
  BY <1>7, <1>8, <1>9 DEF Found
<1>11. Deleting(t', N, lo, hi, at')
  BY <1>5, <1>7, <1>10 DEF Deleting
<1>12. ~RemoveAbsent => Counted(N)'
  <2> SUFFICES ASSUME ~RemoveAbsent PROVE Counted(N)'
    OBVIOUS
  <2>1. len = Cardinality(N) /\ N = contents /\ key \in N
    BY <1>1, <1>4 DEF Counted
  <2>2. N # {key}
    <3> SUFFICES ASSUME N = {key} PROVE FALSE
      OBVIOUS
    <3>1. root = key
      BY <1>5
    <3>2. len = 1
      BY Zenon, <2>1, FS_Singleton
    <3> QED BY <1>1, <3>1, <3>2
  <2> QED BY <1>1, <1>7, <2>1, <2>2 DEF Counted
<1>13. Kept(N, lo, hi)'
  BY <1>1, <1>4, <1>5, <1>11, <1>12 DEF Kept
<1>14. Typed'
  BY <1>1, <1>3, <1>5, <1>7 DEF Typed, Shape, Tree
<1> QED BY <1>1, <1>13, <1>14 DEF RBInv

(* remove, an iteration of its loop. *)
LEMMA RemoveDownStep ==
    ASSUME RBInv, RemoveDown
    PROVE  RBInv'
<1>1. pc = "remove" /\ pc' = pc /\ root' = root /\ beg' = beg /\ len' = len /\ contents' = contents
  BY Zenon DEF RemoveDown
<1>2. PICK N, lo, hi : Kept(N, lo, hi)
  BY <1>1 DEF RBInv
<1>3. Typed
  BY <1>1 DEF RBInv
<1>4. Shape(t, N, lo, hi) /\ Deleting(t, N, lo, hi, at) /\ IsLeast(N, beg) /\ (~RemoveAbsent => Counted(N))
  BY <1>1, <1>2 DEF Kept
<1>5. Tree(t, N, lo, hi)
  BY <1>4 DEF Shape
<1>6. PICK q \in {t.child[at.q][at.dir]} : TRUE
  OBVIOUS
<1>7. q # Null /\ Walked(t', at', q, t.child[at.q][1 - at.dir], Less(q, at.key), 1 - Less(q, at.key))
  BY <1>4, <1>5, <1>6, RemoveWalks
<1>8. PICK lo2, hi2 : Shape(t', N, lo2, hi2) /\ Deleting(t', N, lo2, hi2, at')
  BY <1>4, <1>6, <1>7, RemoveDownShape
<1>9. at'.key = at.key
  <2>1. PICK x : at' = NextAt(q, x)
    BY Zenon, <1>7 DEF Walked
  <2> QED BY <1>3, <2>1 DEF NextAt, Typed, Locals
<1>10. ~RemoveAbsent => Counted(N)'
  BY <1>1, <1>4, <1>9 DEF Counted
<1>11. Kept(N, lo2, hi2)'
  BY <1>1, <1>4, <1>8, <1>10 DEF Kept
<1>12. Typed'
  BY <1>1, <1>3, <1>8 DEF Typed, Shape, Tree, Deleting
<1> QED BY <1>1, <1>11, <1>12 DEF RBInv

(* remove, after its loop. *)
LEMMA RemoveEndStep ==
    ASSUME RBInv, RemoveEnd
    PROVE  RBInv'
<1>0. PICK q \in {at.q}, p \in {at.p}, f \in {at.f}, key \in {at.key} : TRUE
  OBVIOUS
<1> DEFINE u == IF at.f = Null THEN t ELSE Renamed(Unlinked(t, at.p, at.q), at.f, at.q)
<1>1. /\ pc = "remove" /\ t.child[at.q][at.dir] = Null
      /\ root' = u.child[FalseRoot][1]
      /\ beg' = IF at.f = Null THEN beg ELSE BegAfter(at.p, at.q, at.f)
      /\ IF u.child[FalseRoot][1] = Null \/ (at.f # Null /\ ~IsLeaf(at.q))
         THEN pc' = "crashed" /\ UNCHANGED <<t, len, at>>
         ELSE t' = Rooted(u) /\ len' = (len - 1) % Width /\ pc' = "idle" /\ at' = NoLocals
      /\ contents' = contents
  BY DEF RemoveEnd
<1>2. PICK N, lo, hi : Kept(N, lo, hi)
  BY <1>1 DEF RBInv
<1>3. Typed
  BY <1>1 DEF RBInv
<1>4. Shape(t, N, lo, hi) /\ Deleting(t, N, lo, hi, at) /\ IsLeast(N, beg) /\ (~RemoveAbsent => Counted(N))
  BY <1>1, <1>2 DEF Kept
<1>5. at.q \in N /\ t.child[FalseRoot][1] \in N /\ len \in 0..Width - 1 /\ N \subseteq Keys /\ key \in Keys
  BY <1>0, <1>1, <1>3, <1>4, EndsInTree DEF Typed, Shape, Tree, Locals
<1>6. Null \notin N
  BY <1>5, Sets
<1>7. ~RemoveAbsent => /\ len = Cardinality(N) /\ key \in N /\ N # {key} /\ contents = N \ {key}
                       /\ (len - 1) % Width = Cardinality(N \ {key})
  <2> SUFFICES ASSUME ~RemoveAbsent
               PROVE  /\ len = Cardinality(N) /\ key \in N /\ N # {key} /\ contents = N \ {key}
                      /\ (len - 1) % Width = Cardinality(N \ {key})
    OBVIOUS
  <2>1. len = Cardinality(N) /\ key \in N /\ N # {key} /\ contents = N \ {key}
    BY <1>0, <1>1, <1>4 DEF Counted
  <2>2. Cardinality(N \ {key}) = len - 1 /\ len # 0
    BY <1>5, <2>1, Sizes
  <2>3. 0 < len
    BY <1>5, <2>2
  <2>4. (len - 1) % Width = len - 1
    BY <1>5, <2>3, Counting
  <2> QED BY <2>1, <2>2, <2>4
<1> HIDE DEF u
<1>8. ASSUME NEW M, M \subseteq N, M # {}, \E a, b : Shape(u, M, a, b), IsLeast(M, beg'),
             f # Null => IsLeaf(at.q), ~RemoveAbsent => M = N \ {key}
      PROVE  RBInv'
  <2>1. PICK lo2, hi2 : Shape(u, M, lo2, hi2)
    BY <1>8
  <2>2. Tree(u, M, lo2, hi2) /\ u.child[FalseRoot][1] \in M
    BY <1>8, <2>1, TopExists DEF Shape, Tree, Linked
  <2>3. u.child[FalseRoot][1] # Null
    BY <1>6, <1>8, <2>2
  <2>4. t' = Rooted(u) /\ len' = (len - 1) % Width /\ pc' = "idle" /\ at' = NoLocals
    BY <1>0, <1>1, <1>8, <2>3
  <2>5. Ready(t', M, lo2, hi2) /\ t'.child = u.child /\ t' \in Links
    BY <1>8, <2>1, <2>4, RootedReady
  <2>6. Tree(t', M, lo2, hi2) /\ t'.child[FalseRoot][1] = root'
    BY <1>1, <2>5 DEF Ready, Shape
  <2>7. Ready(Started(t', root'), M, lo2, hi2)
    BY <2>5, <2>6, StartedSame
  <2>8. ~RemoveAbsent => Counted(M)'
    BY <1>1, <1>7, <1>8, <2>4 DEF Counted
  <2>9. Kept(M, lo2, hi2)'
    BY <1>8, <2>4, <2>7, <2>8 DEF Kept
  <2>10. Typed'
    <3>1. len' \in 0..Width - 1
      BY <1>5, <2>4, Counting
    <3>2. root' \in Keys
      BY <1>1, <1>5, <1>8, <2>2
    <3> QED BY <1>1, <1>3, <2>4, <2>5, <3>1, <3>2, LocalsOfNone DEF Typed
  <2> QED BY <2>4, <2>9, <2>10 DEF RBInv
<1>9. CASE f = Null
  <2>1. u = t /\ beg' = beg
    BY <1>0, <1>1, <1>9 DEF u
  <2>2. key \notin N
    BY <1>0, <1>1, <1>4, <1>9, Missed
  <2> QED BY <1>4, <1>5, <1>7, <1>8, <1>9, <2>1, <2>2
<1>10. CASE f # Null
  <2>1. u = Renamed(Unlinked(t, p, q), f, q) /\ beg' = BegAfter(p, q, f)
    BY <1>0, <1>1, <1>10 DEF u
  <2>2. Ending(N, lo, hi, q, p, f)
    BY <1>0, <1>1, <1>4, <1>10, EndingFacts
  <2>3. f = key /\ IsLeaf(at.q) /\ f \in N
    BY <1>0, <2>2 DEF Ending, IsLeaf
  <2>4. CASE p = FalseRoot
    <3>1. u.child[FalseRoot][1] = Null
      BY <1>4, <2>1, <2>2, <2>4, EmptiedTop
    <3>2. N = {key}
      BY <2>2, <2>3, <2>4 DEF Ending
    <3>3. RemoveAbsent /\ pc' = "crashed"
      BY <1>1, <1>7, <3>1, <3>2
    <3> QED BY <3>3 DEF RBInv
  <2>5. CASE p # FalseRoot
    <3>1. N \ {f} # {} /\ \E a, b : Shape(u, N \ {f}, a, b)
      BY Zenon, <1>4, <2>1, <2>2, <2>5, RemovedShape
    <3>2. IsLeast(N \ {f}, beg')
      BY <1>4, <2>1, <2>2, <2>5, RemovedLeast
    <3>3. PICK M \in {N \ {f}} : TRUE
      OBVIOUS
    <3>4. M \subseteq N /\ M # {} /\ (\E a, b : Shape(u, M, a, b)) /\ IsLeast(M, beg') /\ M = N \ {key}
      BY <2>3, <3>1, <3>2, <3>3
    <3> QED BY <1>8, <2>3, <3>4
  <2> QED BY <2>4, <2>5
<1> QED BY <1>9, <1>10

(* RBInv holds in every state, whatever the keys. *)
LEMMA RBStep == RBInv /\ [Next]_vars => RBInv'
<1> SUFFICES ASSUME RBInv, [Next]_vars PROVE RBInv'
  OBVIOUS
<1>1. ASSUME NEW key \in Keys, InsertRoot(key) PROVE RBInv'
  BY <1>1, InsertRootStep
<1>2. ASSUME NEW key \in Keys, InsertStart(key) PROVE RBInv'
  BY <1>2, InsertStartStep
<1>3. ASSUME NEW key \in Keys, RemoveFromEmpty(key) PROVE RBInv'
  BY <1>3, RemoveFromEmptyStep
<1>4. ASSUME NEW key \in Keys, RemoveLast(key) PROVE RBInv'
  BY <1>4, RemoveLastStep
<1>5. ASSUME NEW key \in Keys, RemoveStart(key) PROVE RBInv'
  BY <1>5, RemoveStartStep
<1>6. CASE UNCHANGED vars
  <2>1. pc' = pc /\ t' = t /\ root' = root /\ beg' = beg /\ len' = len /\ at' = at /\ contents' = contents
    BY <1>6 DEF vars
  <2>2. Typed => Typed'
    BY <2>1 DEF Typed
  <2>3. ASSUME NEW N, NEW lo, NEW hi, Kept(N, lo, hi) PROVE Kept(N, lo, hi)'
    <3>1. ~RemoveAbsent => Counted(N)'
      BY <2>1, <2>3 DEF Kept, Counted
    <3> QED BY <2>1, <2>3, <3>1 DEF Kept
  <2> QED BY <2>1, <2>2, <2>3 DEF RBInv
<1>7. CASE InsertDown
  BY <1>7, InsertDownStep
<1>8. CASE InsertEnd
  BY <1>8, InsertEndStep
<1>9. CASE RemoveDown
  BY <1>9, RemoveDownStep
<1>10. CASE RemoveEnd
  BY <1>10, RemoveEndStep
<1> QED BY <1>1, <1>2, <1>3, <1>4, <1>5, <1>6, <1>7, <1>8, <1>9, <1>10 DEF Next

(* The links are those of a red-black tree in every reachable state that *)
(* did not crash, also in the middle of an operation and if remove asks  *)
(* for absent keys.                                                      *)
THEOREM AlwaysRBInv == Spec => []RBInv
BY RBInit, RBStep, PTL DEF Spec

(* The tree between operations, seen from t and root. *)
Standing(N, lo, hi) ==
    /\ N \subseteq Keys
    /\ \A n \in N : /\ lo[n] \in Int /\ hi[n] \in Int
                    /\ 0 <= lo[n] /\ lo[n] < n /\ n < hi[n] /\ hi[n] <= MaxKey + 1
                    /\ lo[n] \in N \cup {0} /\ hi[n] \in N \cup {MaxKey + 1}
    /\ root = Null => N = {}
    /\ root # Null => root \in N /\ lo[root] = 0 /\ hi[root] = MaxKey + 1 /\ ~t.red[root] /\ t.parent[root] = Null
    /\ \A n \in N, d \in Dirs : t.child[n][d] \in N \cup {Null}
    /\ \A n \in N : t.child[n][0] # Null =>
          hi[t.child[n][0]] = n /\ lo[t.child[n][0]] = lo[n] /\ t.parent[t.child[n][0]] = n
    /\ \A n \in N : t.child[n][1] # Null =>
          lo[t.child[n][1]] = n /\ hi[t.child[n][1]] = hi[n] /\ t.parent[t.child[n][1]] = n
    /\ \A n, k \in N : t.child[n][0] = Null => ~(lo[n] < k /\ k < n)
    /\ \A n, k \in N : t.child[n][1] = Null => ~(n < k /\ k < hi[n])
    /\ \A n \in Keys \ N : t.parent[n] = Null /\ \A d \in Dirs : t.child[n][d] = Null
    /\ \A n \in N : n = root \/ (t.parent[n] \in N /\ \E d \in Dirs : t.child[t.parent[n]][d] = n)
    /\ \A n \in N, d \in Dirs : t.red[n] => ~Red(t, t.child[n][d])

(* Every path down from a node n passes bh[n] black nodes. *)
Weighed(N, bh) ==
    /\ bh \in Heights /\ bh[Null] = 0
    /\ \A n \in N : /\ bh[t.child[n][0]] = bh[t.child[n][1]]
                    /\ bh[n] = bh[t.child[n][0]] + IF t.red[n] THEN 0 ELSE 1

(* Between operations, the invariant in terms of t and root. *)
LEMMA Stands ==
    ASSUME NEW N, NEW lo, NEW hi, Ready(Started(t, root), N, lo, hi), Typed
    PROVE  Standing(N, lo, hi) /\ \E bh : Weighed(N, bh)
<1> DEFINE w == Started(t, root)
<1>1. root \in Refs /\ t \in Links /\ FalseRoot \in Nodes /\ 1 \in Dirs /\ 0 \in Dirs /\ FalseRoot \notin Keys
      /\ \A k \in Keys : k \in Nodes /\ k # Null /\ k \in Int
  BY Sets DEF Typed, Refs, Nodes, Dirs
<1>2. /\ w.red = t.red /\ w.parent = t.parent
      /\ \A x \in Nodes, d \in Dirs :
            w.child[x][d] = IF x = FalseRoot THEN (IF d = 1 THEN root ELSE Null) ELSE t.child[x][d]
  BY <1>1, StartedLinks
<1>3. /\ Shape(w, N, lo, hi) /\ N \subseteq Keys
      /\ w.child[FalseRoot][1] = root
      /\ root = Null => N = {}
      /\ root # Null => root \in N /\ ~t.red[root] /\ t.parent[root] = Null
  BY IdleRoot
<1> HIDE DEF w
<1>4. Tree(w, N, lo, hi) /\ Cool(w, N)
  BY <1>3 DEF Shape
<1>5. \A x \in Keys, d \in Dirs : w.child[x][d] = t.child[x][d]
  BY <1>1, <1>2
<1>6. /\ \A m \in Nodes, d \in Dirs : Slot(N, m, d) => w.child[m][d] \in N \cup {Null}
      /\ \A m \in Nodes, d \in Dirs : ~Slot(N, m, d) => w.child[m][d] = Null
      /\ \A m \in N, d \in Dirs : w.child[m][d] # Null => w.parent[w.child[m][d]] = m
      /\ \A n \in N : \/ n = w.child[FalseRoot][1] /\ w.parent[n] \in {Null, FalseRoot}
                      \/ w.parent[n] \in N /\ \E d \in Dirs : w.child[w.parent[n]][d] = n
      /\ \A k \in Keys \ N : w.parent[k] = Null
  BY <1>4 DEF Tree, Linked
<1>7. /\ \A m \in Nodes, d \in Dirs : Slot(N, m, d) /\ w.child[m][d] # Null =>
            lo[w.child[m][d]] = Lower(lo, m, d) /\ hi[w.child[m][d]] = Upper(hi, m, d)
      /\ \A m \in Nodes, d \in Dirs : Slot(N, m, d) /\ w.child[m][d] = Null =>
            \A k \in N : ~(Lower(lo, m, d) < k /\ k < Upper(hi, m, d))
  BY <1>4 DEF Tree, Sorted
<1>8. \A n \in N : /\ n \in Keys /\ n \in Nodes /\ n # FalseRoot /\ Slot(N, n, 0) /\ Slot(N, n, 1)
                   /\ Lower(lo, n, 0) = lo[n] /\ Upper(hi, n, 0) = n
                   /\ Lower(lo, n, 1) = n /\ Upper(hi, n, 1) = hi[n]
  BY <1>1, <1>3 DEF Slot, Lower, Upper
<1>9. \A n \in N : /\ lo[n] \in Int /\ hi[n] \in Int
                   /\ 0 <= lo[n] /\ lo[n] < n /\ n < hi[n] /\ hi[n] <= MaxKey + 1
  BY <1>4, Bounds
<1>10. \A n \in N : lo[n] \in N \cup {0} /\ hi[n] \in N \cup {MaxKey + 1}
  BY <1>4, BoundNodes
<1>11. root # Null => lo[root] = 0 /\ hi[root] = MaxKey + 1
  <2>1. Lower(lo, FalseRoot, 1) = 0 /\ Upper(hi, FalseRoot, 1) = MaxKey + 1 /\ Slot(N, FalseRoot, 1)
    BY DEF Lower, Upper, Slot
  <2> QED BY <1>1, <1>3, <1>7, <2>1
<1>12. \A n \in N, d \in Dirs : t.child[n][d] \in N \cup {Null}
  <2>1. \A n \in N, d \in Dirs : Slot(N, n, d)
    BY DEF Slot
  <2> QED BY <1>5, <1>6, <1>8, <2>1
<1>13. ASSUME NEW n \in N, t.child[n][0] # Null
       PROVE  hi[t.child[n][0]] = n /\ lo[t.child[n][0]] = lo[n] /\ t.parent[t.child[n][0]] = n
  BY <1>1, <1>2, <1>5, <1>6, <1>7, <1>8, <1>13
<1>14. ASSUME NEW n \in N, t.child[n][1] # Null
       PROVE  lo[t.child[n][1]] = n /\ hi[t.child[n][1]] = hi[n] /\ t.parent[t.child[n][1]] = n
  BY <1>1, <1>2, <1>5, <1>6, <1>7, <1>8, <1>14
<1>15. ASSUME NEW n \in N, NEW k \in N
       PROVE  /\ t.child[n][0] = Null => ~(lo[n] < k /\ k < n)
              /\ t.child[n][1] = Null => ~(n < k /\ k < hi[n])
  <2>1. w.child[n][0] = t.child[n][0] /\ w.child[n][1] = t.child[n][1]
    BY <1>1, <1>5, <1>8
  <2> QED BY <1>1, <1>7, <1>8, <2>1
<1>16. ASSUME NEW n \in Keys \ N PROVE t.parent[n] = Null /\ \A d \in Dirs : t.child[n][d] = Null
  <2>1. \A d \in Dirs : ~Slot(N, n, d)
    BY <1>1 DEF Slot
  <2> QED BY <1>1, <1>2, <1>5, <1>6, <2>1
<1>17. ASSUME NEW n \in N PROVE n = root \/ (t.parent[n] \in N /\ \E d \in Dirs : t.child[t.parent[n]][d] = n)
  BY <1>2, <1>3, <1>5, <1>6, <1>8
<1>18. ASSUME NEW n \in N, NEW d \in Dirs, t.red[n] PROVE ~Red(t, t.child[n][d])
  <2>1. ~Red(w, t.child[n][d])
    BY <1>2, <1>4, <1>5, <1>8, <1>18 DEF Cool
  <2> QED BY <1>2, <2>1 DEF Red
<1>19. Standing(N, lo, hi)
  BY <1>3, <1>9, <1>10, <1>11, <1>12, <1>13, <1>14, <1>15, <1>16, <1>17, <1>18 DEF Standing
<1>20. \E bh : Weighed(N, bh)
  <2>1. PICK bh \in Heights : Even(w, N, bh)
    BY <1>3 DEF Shape
  <2>2. \A n \in N : w.child[n][0] = t.child[n][0] /\ w.child[n][1] = t.child[n][1] /\ w.red[n] = t.red[n]
    BY <1>1, <1>2, <1>5, <1>8
  <2>3. Weighed(N, bh)
    BY <2>1, <2>2 DEF Even, Weighed
  <2> QED BY <2>3
<1> QED BY <1>19, <1>20

(* Between operations *)
LEMMA IdleState ==
    ASSUME RBInv, pc = "idle"
    PROVE  \E N, lo, hi : /\ Standing(N, lo, hi) /\ \E bh : Weighed(N, bh)
                          /\ IsLeast(N, beg) /\ Typed /\ at = NoLocals
                          /\ ~RemoveAbsent => len = Cardinality(N) /\ N = contents
<1>1. Typed
  BY DEF RBInv
<1>2. PICK N, lo, hi : Kept(N, lo, hi)
  BY DEF RBInv
<1>3. Ready(Started(t, root), N, lo, hi) /\ at = NoLocals /\ IsLeast(N, beg) /\ (~RemoveAbsent => Counted(N))
  BY <1>2 DEF Kept
<1>4. Standing(N, lo, hi) /\ \E bh : Weighed(N, bh)
  BY <1>1, <1>3, Stands
<1>5. ~RemoveAbsent => len = Cardinality(N) /\ N = contents
  BY <1>3 DEF Counted
<1> QED BY <1>1, <1>3, <1>4, <1>5

(* beg in a state of the invariant. *)
LEMMA LowestOfState ==
    ASSUME RemoveAbsent = FALSE, RBInv
    PROVE  KeepsLowest
<1> SUFFICES ASSUME pc = "idle"
             PROVE  beg = IF contents = {} THEN Null ELSE CHOOSE m \in contents : \A k \in contents : m <= k
  BY DEF KeepsLowest
<1>1. PICK N, lo, hi : Standing(N, lo, hi) /\ IsLeast(N, beg) /\ N = contents
  BY IdleState
<1>2. CASE contents = {}
  BY <1>1, <1>2 DEF IsLeast
<1>3. CASE contents # {}
  <2>1. beg \in contents /\ \A k \in contents : beg <= k
    BY <1>1, <1>3 DEF IsLeast
  <2>2. \A k \in contents : k \in Int
    BY <1>1, Sets DEF Standing
  <2>3. \A m \in contents : (\A k \in contents : m <= k) => m = beg
    BY <2>1, <2>2
  <2> QED BY <1>3, <2>1, <2>3
<1> QED BY <1>2, <1>3

(* beg always points to the lowest key, if no remove asks for a key that   *)
(* is not there.                                                           *)
THEOREM LowestKept ==
    ASSUME RemoveAbsent = FALSE
    PROVE  Spec => []KeepsLowest
<1>1. RBInv => KeepsLowest
  BY Zenon, LowestOfState
<1> QED BY <1>1, AlwaysRBInv, PTL

(* g is a and what G makes of it, step by step. *)
Iterated(g, V, a, G, m) ==
    /\ g \in [0..m -> V] /\ g[0] = a
    /\ \A k \in 1..m : g[k] = G[g[k - 1]]

(* Any step can be iterated. *)
LEMMA IteratedExists ==
    ASSUME NEW V, NEW a \in V, NEW G \in [V -> V], NEW m \in Nat
    PROVE  \E g : Iterated(g, V, a, G, m)
<1> DEFINE S == {i \in Nat : \E g : Iterated(g, V, a, G, i)}
<1>1. 0 \in S
  <2>1. Iterated([k \in 0..0 |-> a], V, a, G, 0)
    BY DEF Iterated
  <2> QED BY <2>1
<1>2. ASSUME NEW i \in Nat, i \in S PROVE i + 1 \in S
  <2>1. PICK g : Iterated(g, V, a, G, i)
    BY <1>2
  <2>2. g \in [0..i -> V] /\ g[0] = a /\ \A k \in 1..i : g[k] = G[g[k - 1]]
    BY <2>1 DEF Iterated
  <2> DEFINE h == [k \in 0..i + 1 |-> IF k <= i THEN g[k] ELSE G[g[i]]]
  <2>3. G[g[i]] \in V
    BY <2>2
  <2>4. h \in [0..i + 1 -> V]
    BY <2>2, <2>3
  <2>5. \A k \in 0..i : h[k] = g[k]
    OBVIOUS
  <2>6. h[i + 1] = G[g[i]]
    OBVIOUS
  <2> HIDE DEF h
  <2>7. ASSUME NEW k \in 1..i + 1 PROVE h[k] = G[h[k - 1]]
    <3>1. h[k - 1] = g[k - 1]
      BY <2>5
    <3>2. CASE k = i + 1
      BY <2>6, <3>1, <3>2
    <3>3. CASE k # i + 1
      BY <2>2, <2>5, <3>1, <3>3
    <3> QED BY <3>2, <3>3
  <2>8. h[0] = a
    BY <2>2, <2>5
  <2>9. Iterated(h, V, a, G, i + 1)
    BY <2>4, <2>7, <2>8 DEF Iterated
  <2> QED BY <2>9
<1> HIDE DEF S
<1>3. Nat \subseteq S
  BY <1>1, <1>2, SetInduction
<1> QED BY <1>3 DEF S

(* How many keys lie between the bounds of n *)
Span(lo, hi, n) == hi[n] - lo[n] - 1

(* The spans get smaller from a node to its children. *)
Shrinks(N, lo, hi) ==
    /\ \A n \in N : Span(lo, hi, n) \in Int /\ 1 <= Span(lo, hi, n) /\ Span(lo, hi, n) <= MaxKey
    /\ \A n \in N, d \in Dirs : t.child[n][d] # Null =>
          t.child[n][d] \in N /\ Span(lo, hi, t.child[n][d]) < Span(lo, hi, n)

(* Every step down leaves fewer keys. *)
LEMMA SpansShrink ==
    ASSUME NEW N, NEW lo, NEW hi, Standing(N, lo, hi)
    PROVE  Shrinks(N, lo, hi)
<1>1. /\ N \subseteq Keys
      /\ \A n \in N : /\ lo[n] \in Int /\ hi[n] \in Int
                      /\ 0 <= lo[n] /\ lo[n] < n /\ n < hi[n] /\ hi[n] <= MaxKey + 1
      /\ \A n \in N, d \in Dirs : t.child[n][d] \in N \cup {Null}
      /\ \A n \in N : t.child[n][0] # Null => hi[t.child[n][0]] = n /\ lo[t.child[n][0]] = lo[n]
      /\ \A n \in N : t.child[n][1] # Null => lo[t.child[n][1]] = n /\ hi[t.child[n][1]] = hi[n]
  BY DEF Standing
<1>2. MaxKey \in Int /\ \A n \in N : n \in Int
  BY <1>1, Sets
<1>3. ASSUME NEW n \in N PROVE Span(lo, hi, n) \in Int /\ 1 <= Span(lo, hi, n) /\ Span(lo, hi, n) <= MaxKey
  <2>1. lo[n] \in Int /\ hi[n] \in Int /\ n \in Int /\ 0 <= lo[n] /\ lo[n] < n /\ n < hi[n] /\ hi[n] <= MaxKey + 1
    BY <1>1, <1>2
  <2> QED BY <1>2, <2>1 DEF Span
<1>4. ASSUME NEW n \in N, NEW d \in Dirs, t.child[n][d] # Null
      PROVE  t.child[n][d] \in N /\ Span(lo, hi, t.child[n][d]) < Span(lo, hi, n)
  <2>1. t.child[n][d] \in N
    BY <1>1, <1>4
  <2>2. lo[n] \in Int /\ hi[n] \in Int /\ n \in Int /\ lo[n] < n /\ n < hi[n]
    BY <1>1, <1>2
  <2>3. CASE d = 0
    BY <1>1, <1>4, <2>1, <2>2, <2>3 DEF Span
  <2>4. CASE d = 1
    BY <1>1, <1>4, <2>1, <2>2, <2>4 DEF Span
  <2> QED BY <2>3, <2>4 DEF Dirs
<1> QED BY <1>3, <1>4 DEF Shrinks

(* One link further down than S *)
Widened(S) == S \cup {m \in Nodes : \E n \in S, d \in Dirs : t.child[n][d] = m}

(* within is what it is defined as, if anything is. *)
LEMMA WithinIs ==
    ASSUME \E f : f = [k \in 0..MaxKey |-> IF k = 0 THEN {root} \ {Null} ELSE Widened(f[k - 1])]
    PROVE  within = [k \in 0..MaxKey |-> IF k = 0 THEN {root} \ {Null} ELSE Widened(within[k - 1])]
BY Zenon DEF within, Widened

(* within is the iteration it is written as. *)
LEMMA WithinDef ==
    ASSUME NEW N, NEW lo, NEW hi, Standing(N, lo, hi)
    PROVE  /\ within[0] = {root} \ {Null}
           /\ \A k \in 1..MaxKey :
                 within[k] = Widened(within[k - 1])
           /\ \A k \in 0..MaxKey : within[k] \subseteq N
<1> DEFINE V == SUBSET N
<1> DEFINE G == [S \in V |-> Widened(S)]
<1> DEFINE a == {root} \ {Null}
<1>1. \A n \in N, d \in Dirs : t.child[n][d] \in N \cup {Null}
  BY DEF Standing
<1>0. \A S \in V : Widened(S) \in V
  BY <1>1, Sets DEF Widened
<1>2. G \in [V -> V]
  BY <1>0
<1>3. a \in V
  BY DEF Standing
<1>4. MaxKey \in Nat
  BY RBTreeAssumption
<1>5. \A S \in V : G[S] = Widened(S)
  OBVIOUS
<1> HIDE DEF V, G, a
<1>6. PICK g : Iterated(g, V, a, G, MaxKey)
  BY <1>2, <1>3, <1>4, IteratedExists
<1>7. g \in [0..MaxKey -> V] /\ g[0] = a /\ \A k \in 1..MaxKey : g[k] = G[g[k - 1]]
  BY <1>6 DEF Iterated
<1>8. ASSUME NEW k \in 0..MaxKey
      PROVE  g[k] = IF k = 0 THEN {root} \ {Null}
                    ELSE Widened(g[k - 1])
  <2>1. CASE k = 0
    BY <1>7, <2>1 DEF a
  <2>2. CASE k # 0
    <3>1. k \in 1..MaxKey /\ k - 1 \in 0..MaxKey
      BY <1>4, <2>2
    <3>2. g[k] = G[g[k - 1]] /\ g[k - 1] \in V
      BY <1>7, <3>1
    <3>3. G[g[k - 1]] = Widened(g[k - 1])
      BY <1>5, <3>2
    <3> QED BY <2>2, <3>2, <3>3
  <2> QED BY <2>1, <2>2
<1>9. \E f : f = [k \in 0..MaxKey |-> IF k = 0 THEN {root} \ {Null}
                    ELSE Widened(f[k - 1])]
  <2>1. g = [k \in 0..MaxKey |-> IF k = 0 THEN {root} \ {Null}
                    ELSE Widened(g[k - 1])]
    BY <1>7, <1>8
  <2> QED BY Zenon, <2>1
<1>10. within = [k \in 0..MaxKey |-> IF k = 0 THEN {root} \ {Null}
                    ELSE Widened(within[k - 1])]
  BY Zenon, <1>9, WithinIs
<1>11. /\ within[0] = {root} \ {Null}
       /\ \A k \in 1..MaxKey : within[k] = Widened(within[k - 1])
  <2>1. \A k \in 0..MaxKey : within[k] = IF k = 0 THEN {root} \ {Null} ELSE Widened(within[k - 1])
    BY <1>10, Zenon
  <2>2. 0 \in 0..MaxKey /\ \A k \in 1..MaxKey : k \in 0..MaxKey /\ k # 0
    BY <1>4
  <2> QED BY <2>1, <2>2, Zenon
<1> DEFINE T == {k \in Nat : k <= MaxKey => within[k] \subseteq N}
<1>12. 0 \in T
  BY <1>3, <1>11 DEF a, V
<1>13. ASSUME NEW k \in Nat, k \in T PROVE k + 1 \in T
  <2> SUFFICES ASSUME k + 1 <= MaxKey PROVE within[k + 1] \subseteq N
    OBVIOUS
  <2>1. k + 1 \in 1..MaxKey /\ within[k] \subseteq N /\ (k + 1) - 1 = k
    BY <1>4, <1>13
  <2>2. within[k + 1] = Widened(within[(k + 1) - 1])
    BY <1>11, <2>1, Zenon
  <2>3. within[k + 1] = Widened(within[k])
    BY <2>1, <2>2
  <2>4. Widened(within[k]) \subseteq N
    BY <1>0, <2>1 DEF V
  <2> QED BY <2>3, <2>4
<1> HIDE DEF T
<1>14. Nat \subseteq T
  BY <1>12, <1>13, SetInduction
<1> QED BY <1>4, <1>11, <1>14 DEF T

(* The nodes reached from the root are those of the tree. *)
LEMMA ReachedAll ==
    ASSUME NEW N, NEW lo, NEW hi, Standing(N, lo, hi)
    PROVE  InTree = N
<1> DEFINE T == {k \in Nat : k <= MaxKey =>
                    \A n \in N : Span(lo, hi, n) >= MaxKey - k => n \in within[k]}
<1>1. /\ within[0] = {root} \ {Null}
      /\ \A k \in 1..MaxKey : within[k] = Widened(within[k - 1])
      /\ \A k \in 0..MaxKey : within[k] \subseteq N
  BY WithinDef
<1>2. MaxKey \in Nat
  BY RBTreeAssumption
<1>3. /\ \A n \in N : Span(lo, hi, n) \in Int /\ 1 <= Span(lo, hi, n) /\ Span(lo, hi, n) <= MaxKey
      /\ \A n \in N, d \in Dirs : t.child[n][d] # Null =>
            t.child[n][d] \in N /\ Span(lo, hi, t.child[n][d]) < Span(lo, hi, n)
  BY SpansShrink DEF Shrinks
<1>4. /\ \A n \in N : n = root \/ (t.parent[n] \in N /\ \E d \in Dirs : t.child[t.parent[n]][d] = n)
      /\ N \subseteq Keys /\ (N # {} => root # Null)
      /\ \A n \in N : n \in Nodes /\ n # Null
  BY Sets DEF Standing
<1>5. ASSUME NEW n \in N, n # root
      PROVE  \E p \in N : /\ Span(lo, hi, n) < Span(lo, hi, p) /\ \E d \in Dirs : t.child[p][d] = n
  BY <1>3, <1>4, <1>5
<1>6. 0 \in T
  <2> SUFFICES ASSUME NEW n \in N, Span(lo, hi, n) >= MaxKey PROVE n \in within[0]
    BY <1>2
  <2>1. n = root
    BY <1>2, <1>3, <1>5
  <2> QED BY <1>1, <1>4, <2>1
<1>7. ASSUME NEW k \in Nat, k \in T PROVE k + 1 \in T
  <2> SUFFICES ASSUME k + 1 <= MaxKey, NEW n \in N, Span(lo, hi, n) >= MaxKey - (k + 1)
               PROVE  n \in within[k + 1]
    OBVIOUS
  <2>1. k + 1 \in 1..MaxKey /\ (k + 1) - 1 = k /\ k <= MaxKey
    BY <1>2
  <2>2. \A m \in N : Span(lo, hi, m) >= MaxKey - k => m \in within[k]
    BY <1>7, <2>1
  <2>3. within[k + 1] = Widened(within[k])
    <3>1. within[k + 1] = Widened(within[(k + 1) - 1])
      BY <1>1, <2>1, Zenon
    <3> QED BY <2>1, <3>1
  <2> HIDE DEF T
  <2>4. CASE Span(lo, hi, n) >= MaxKey - k
    BY <2>2, <2>3, <2>4 DEF Widened
  <2>5. CASE ~(Span(lo, hi, n) >= MaxKey - k)
    <3>0. CASE n = root
      <4>1. n \in within[k]
        <5>1. Span(lo, hi, root) = MaxKey
          <6>1. lo[root] = 0 /\ hi[root] = MaxKey + 1
            BY <1>4 DEF Standing
          <6> QED BY <1>2, <6>1 DEF Span
        <5> QED BY <1>2, <2>5, <3>0, <5>1
      <4> QED BY <2>3, <4>1 DEF Widened
    <3>1. CASE n # root
      <4>1. PICK p \in N : Span(lo, hi, n) < Span(lo, hi, p) /\ \E d \in Dirs : t.child[p][d] = n
        BY <1>5, <3>1
      <4>2. Span(lo, hi, p) >= MaxKey - k
        BY <1>2, <1>3, <4>1
      <4>3. p \in within[k]
        BY <2>2, <4>2
      <4> QED BY <1>4, <2>3, <4>1, <4>3 DEF Widened
    <3> QED BY <3>0, <3>1
  <2> QED BY <2>4, <2>5
<1>8. Nat \subseteq T
  <2> HIDE DEF T
  <2> QED BY <1>6, <1>7, SetInduction
<1>9. \A n \in N : n \in within[MaxKey]
  <2>1. ASSUME NEW n \in N PROVE n \in within[MaxKey]
    <3>1. Span(lo, hi, n) >= MaxKey - MaxKey
      BY <1>2, <1>3
    <3> QED BY <1>2, <1>8, <3>1
  <2> QED BY <2>1
<1>10. MaxKey \in 0..MaxKey
  BY <1>2
<1>11. within[MaxKey] = N
  BY <1>1, <1>9, <1>10
<1> QED BY <1>11 DEF InTree

(* The rows of blacks *)
Below == [Keys \cup {Null} -> Int]

(* blacks one depth further down than b *)
Deeper(b) ==
    [n \in Keys \cup {Null} |->
        IF n = Null THEN 0
        ELSE LET l == b[t.child[n][0]]
                 r == b[t.child[n][1]]
             IN IF l = r /\ l # -1 THEN l + (IF t.red[n] THEN 0 ELSE 1) ELSE -1]

(* The row of blacks at depth 0 *)
Deepest == [n \in Keys \cup {Null} |-> IF n = Null THEN 0 ELSE -1]

(* blacks is what it is defined as, if anything is. *)
LEMMA BlacksIs ==
    ASSUME \E f : f = [k \in 0..MaxKey + 1 |->
                LET below == f[k - 1]
                IN [n \in Keys \cup {Null} |->
           IF n = Null THEN 0
           ELSE IF k = 0 THEN -1
           ELSE LET l == below[t.child[n][0]]
                    r == below[t.child[n][1]]
                IN IF l = r /\ l # -1 THEN l + (IF t.red[n] THEN 0 ELSE 1) ELSE -1]]
    PROVE  blacks = [k \in 0..MaxKey + 1 |->
                LET below == blacks[k - 1]
                IN [n \in Keys \cup {Null} |->
           IF n = Null THEN 0
           ELSE IF k = 0 THEN -1
           ELSE LET l == below[t.child[n][0]]
                    r == below[t.child[n][1]]
                IN IF l = r /\ l # -1 THEN l + (IF t.red[n] THEN 0 ELSE 1) ELSE -1]]
BY Zenon DEF blacks

(* blacks is the iteration it is written as. *)
LEMMA BlacksDef ==
    ASSUME NEW N, NEW lo, NEW hi, Standing(N, lo, hi)
    PROVE  /\ blacks[0] = Deepest
           /\ \A k \in 1..MaxKey + 1 : blacks[k] = Deeper(blacks[k - 1])
<1> DEFINE G == [b \in Below |-> Deeper(b)]
<1>1. \A n \in Keys, d \in Dirs : t.child[n][d] \in Keys \cup {Null}
  BY DEF Standing
<1>2. Null \notin Keys /\ 0 \in Dirs /\ 1 \in Dirs /\ MaxKey + 1 \in Nat /\ MaxKey \in Nat
  BY Sets, RBTreeAssumption
<1>3. ASSUME NEW b \in Below PROVE Deeper(b) \in Below
  <2>1. ASSUME NEW n \in Keys
        PROVE  LET l == b[t.child[n][0]]
                   r == b[t.child[n][1]]
               IN (IF l = r /\ l # -1 THEN l + (IF t.red[n] THEN 0 ELSE 1) ELSE -1) \in Int
    <3>1. b[t.child[n][0]] \in Int /\ b[t.child[n][1]] \in Int
      BY <1>1, <1>2 DEF Below
    <3>2. (IF t.red[n] THEN 0 ELSE 1) \in Int
      OBVIOUS
    <3> QED BY <3>1, <3>2
  <2> QED BY <1>2, <2>1 DEF Deeper, Below
<1>4. G \in [Below -> Below]
  BY <1>3
<1>5. Deepest \in Below
  BY DEF Deepest, Below
<1>6. \A b \in Below : G[b] = Deeper(b)
  OBVIOUS
<1> HIDE DEF G
<1>7. PICK g : Iterated(g, Below, Deepest, G, MaxKey + 1)
  BY <1>2, <1>4, <1>5, IteratedExists
<1>8. g \in [0..MaxKey + 1 -> Below] /\ g[0] = Deepest /\ \A k \in 1..MaxKey + 1 : g[k] = G[g[k - 1]]
  BY <1>7 DEF Iterated
<1> DEFINE Row(f, k) == LET below == f[k - 1]
                IN [n \in Keys \cup {Null} |->
           IF n = Null THEN 0
           ELSE IF k = 0 THEN -1
           ELSE LET l == below[t.child[n][0]]
                    r == below[t.child[n][1]]
                IN IF l = r /\ l # -1 THEN l + (IF t.red[n] THEN 0 ELSE 1) ELSE -1]
<1>9. \A f : Row(f, 0) = Deepest
  BY DEF Deepest
<1>10. \A f, k : k # 0 => Row(f, k) = Deeper(f[k - 1])
  BY ZenonT(40) DEF Deeper
<1>11. ASSUME NEW k \in 0..MaxKey + 1 PROVE g[k] = Row(g, k)
  <2>1. CASE k = 0
    BY Zenon, <1>8, <1>9, <2>1
  <2>2. CASE k # 0
    <3>1. k \in 1..MaxKey + 1 /\ k - 1 \in 0..MaxKey + 1
      BY <1>2, <2>2
    <3>2. g[k] = G[g[k - 1]] /\ g[k - 1] \in Below
      BY <1>8, <3>1
    <3>3. G[g[k - 1]] = Deeper(g[k - 1])
      BY <1>6, <3>2
    <3>4. Row(g, k) = Deeper(g[k - 1])
      BY Zenon, <1>10, <2>2
    <3> HIDE DEF Row
    <3> QED BY <3>2, <3>3, <3>4
  <2> QED BY <2>1, <2>2
<1>12. \E f : f = [k \in 0..MaxKey + 1 |-> Row(f, k)]
  <2> HIDE DEF Row
  <2>1. g = [k \in 0..MaxKey + 1 |-> Row(g, k)]
    BY <1>8, <1>11
  <2> QED BY <2>1
<1>13. blacks = [k \in 0..MaxKey + 1 |-> Row(blacks, k)]
  BY <1>12, BlacksIs, Zenon
<1> HIDE DEF Row
<1>14. \A k \in 0..MaxKey + 1 : blacks[k] = Row(blacks, k)
  BY <1>13, Zenon
<1>15. blacks[0] = Deepest
  BY <1>2, <1>9, <1>14
<1>16. ASSUME NEW k \in 1..MaxKey + 1 PROVE blacks[k] = Deeper(blacks[k - 1])
  <2>1. k \in 0..MaxKey + 1 /\ k # 0
    BY <1>2
  <2> QED BY <1>10, <1>14, <2>1, Zenon
<1> QED BY <1>15, <1>16

(* A node with at most k keys between its bounds has its black height at   *)
(* depth k.                                                                *)
LEMMA BlacksWeigh ==
    ASSUME NEW N, NEW lo, NEW hi, Standing(N, lo, hi), NEW bh, Weighed(N, bh), root # Null
    PROVE  blacks[MaxKey + 1][root] # -1
<1> DEFINE T == {k \in Nat : k <= MaxKey + 1 =>
                    /\ blacks[k][Null] = 0
                    /\ \A n \in N : Span(lo, hi, n) <= k => blacks[k][n] = bh[n]}
<1>1. /\ blacks[0] = Deepest
      /\ \A k \in 1..MaxKey + 1 : blacks[k] = Deeper(blacks[k - 1])
  BY BlacksDef
<1>2. MaxKey \in Nat /\ Null \notin Keys /\ 0 \in Dirs /\ 1 \in Dirs
  BY RBTreeAssumption, Sets
<1>3. /\ \A n \in N : Span(lo, hi, n) \in Int /\ 1 <= Span(lo, hi, n) /\ Span(lo, hi, n) <= MaxKey
      /\ \A n \in N, d \in Dirs : t.child[n][d] # Null =>
            t.child[n][d] \in N /\ Span(lo, hi, t.child[n][d]) < Span(lo, hi, n)
  BY SpansShrink DEF Shrinks
<1>4. /\ bh \in [Keys \cup {Null} -> Nat] /\ bh[Null] = 0
      /\ \A n \in N : /\ bh[t.child[n][0]] = bh[t.child[n][1]]
                      /\ bh[n] = bh[t.child[n][0]] + IF t.red[n] THEN 0 ELSE 1
  BY DEF Weighed, Heights
<1>5. N \subseteq Keys /\ root \in N
  BY DEF Standing
<1>6. 0 \in T
  <2>1. blacks[0][Null] = 0
    BY <1>1 DEF Deepest
  <2>2. \A n \in N : ~(Span(lo, hi, n) <= 0)
    BY <1>3
  <2> QED BY <2>1, <2>2
<1>7. ASSUME NEW k \in Nat, k \in T PROVE k + 1 \in T
  <2> SUFFICES ASSUME k + 1 <= MaxKey + 1
               PROVE  /\ blacks[k + 1][Null] = 0
                      /\ \A n \in N : Span(lo, hi, n) <= k + 1 => blacks[k + 1][n] = bh[n]
    OBVIOUS
  <2>1. k + 1 \in 1..MaxKey + 1 /\ (k + 1) - 1 = k /\ k <= MaxKey + 1
    BY <1>2
  <2>2. blacks[k][Null] = 0 /\ \A m \in N : Span(lo, hi, m) <= k => blacks[k][m] = bh[m]
    BY <1>7, <2>1
  <2>3. blacks[k + 1] = Deeper(blacks[k])
    <3>1. blacks[k + 1] = Deeper(blacks[(k + 1) - 1])
      BY <1>1, <2>1, Zenon
    <3> QED BY <2>1, <3>1
  <2> HIDE DEF T
  <2>4. blacks[k + 1][Null] = 0
    BY <2>3 DEF Deeper
  <2>5. ASSUME NEW n \in N, Span(lo, hi, n) <= k + 1 PROVE blacks[k + 1][n] = bh[n]
    <3>1. ASSUME NEW d \in Dirs PROVE blacks[k][t.child[n][d]] = bh[t.child[n][d]]
      <4>1. CASE t.child[n][d] = Null
        BY <1>4, <2>2, <4>1
      <4>2. CASE t.child[n][d] # Null
        <5>1. t.child[n][d] \in N /\ Span(lo, hi, t.child[n][d]) <= k
          BY <1>3, <2>5, <4>2
        <5> QED BY <2>2, <5>1
      <4> QED BY <4>1, <4>2
    <3>2. t.child[n][0] \in Keys \cup {Null}
      BY <1>2, <1>5 DEF Standing
    <3>3. bh[t.child[n][0]] \in Nat
      BY <1>4, <3>2
    <3>4. /\ blacks[k][t.child[n][0]] = bh[t.child[n][0]]
          /\ blacks[k][t.child[n][1]] = bh[t.child[n][0]]
          /\ bh[t.child[n][0]] # -1
      BY <1>2, <1>4, <3>1, <3>3
    <3>5. n \in Keys /\ n # Null
      BY <1>2, <1>5
    <3>6. Deeper(blacks[k])[n] = bh[t.child[n][0]] + IF t.red[n] THEN 0 ELSE 1
      BY <3>4, <3>5 DEF Deeper
    <3> QED BY <1>4, <2>3, <3>6
  <2> QED BY <2>4, <2>5
<1>8. Nat \subseteq T
  <2> HIDE DEF T
  <2> QED BY <1>6, <1>7, SetInduction
<1>9. blacks[MaxKey + 1][root] = bh[root]
  <2>1. Span(lo, hi, root) <= MaxKey + 1 /\ MaxKey + 1 \in Nat
    BY <1>2, <1>3, <1>5
  <2> QED BY <1>5, <1>8, <2>1
<1> QED BY <1>4, <1>5, <1>9

(* The states of the invariant are balanced. *)
LEMMA BalancedState ==
    ASSUME RBInv
    PROVE  Balanced
<1> SUFFICES ASSUME pc = "idle", root # Null
             PROVE  /\ ~t.red[root]
                    /\ \A n \in InTree, d \in Dirs : t.red[n] => ~Red(t, t.child[n][d])
                    /\ blacks[MaxKey + 1][root] # -1
  BY DEF Balanced
<1>1. PICK N, lo, hi : Standing(N, lo, hi) /\ \E bh : Weighed(N, bh)
  BY IdleState
<1>2. InTree = N
  BY <1>1, ReachedAll
<1>3. blacks[MaxKey + 1][root] # -1
  BY <1>1, BlacksWeigh
<1>4. ~t.red[root] /\ \A n \in N, d \in Dirs : t.red[n] => ~Red(t, t.child[n][d])
  BY <1>1 DEF Standing
<1> QED BY <1>2, <1>3, <1>4

(* The tree is balanced between operations, also if remove asks for keys   *)
(* that are not there.                                                     *)
THEOREM AlwaysBalanced == Spec => []Balanced
<1>1. RBInv => Balanced
  BY BalancedState
<1> QED BY <1>1, AlwaysRBInv, PTL

(* One step of a lookup of key *)
Onward(key, x) == IF x \in {key, Null} THEN x ELSE t.child[x][Less(x, key)]

(* Where a lookup of key is after k steps *)
OnPath(N, lo, hi, key, x, k) ==
    \/ x = Null /\ key \notin N
    \/ /\ x \in N /\ lo[x] < key /\ key < hi[x]
       /\ x # key => Span(lo, hi, x) <= MaxKey - k

(* A lookup follows the bounds of its key down to it, or to where it     *)
(* would be.                                                             *)
LEMMA OnwardFacts ==
    ASSUME NEW N, NEW lo, NEW hi, Standing(N, lo, hi), NEW key \in Keys
    PROVE  /\ OnPath(N, lo, hi, key, root, 0)
           /\ \A k \in Nat : \A x : OnPath(N, lo, hi, key, x, k) => OnPath(N, lo, hi, key, Onward(key, x), k + 1)
           /\ \A x : OnPath(N, lo, hi, key, x, MaxKey) => x = IF key \in N THEN key ELSE Null
           /\ root \in N \cup {Null} /\ \A x \in N \cup {Null} : Onward(key, x) \in N \cup {Null}
<1>1. /\ N \subseteq Keys
      /\ \A n \in N : /\ lo[n] \in Int /\ hi[n] \in Int
                      /\ 0 <= lo[n] /\ lo[n] < n /\ n < hi[n] /\ hi[n] <= MaxKey + 1
      /\ root = Null => N = {}
      /\ root # Null => root \in N /\ lo[root] = 0 /\ hi[root] = MaxKey + 1
      /\ \A n \in N, d \in Dirs : t.child[n][d] \in N \cup {Null}
      /\ \A n \in N : t.child[n][0] # Null => hi[t.child[n][0]] = n /\ lo[t.child[n][0]] = lo[n]
      /\ \A n \in N : t.child[n][1] # Null => lo[t.child[n][1]] = n /\ hi[t.child[n][1]] = hi[n]
      /\ \A n, k \in N : t.child[n][0] = Null => ~(lo[n] < k /\ k < n)
      /\ \A n, k \in N : t.child[n][1] = Null => ~(n < k /\ k < hi[n])
  BY DEF Standing
<1>2. /\ MaxKey \in Nat /\ Null \notin Keys /\ 0 \in Dirs /\ 1 \in Dirs
      /\ \A k \in Keys : k \in Int /\ 0 < k /\ k < MaxKey + 1
  BY RBTreeAssumption, Sets
<1>3. /\ \A n \in N : Span(lo, hi, n) \in Int /\ 1 <= Span(lo, hi, n) /\ Span(lo, hi, n) <= MaxKey
      /\ \A n \in N, d \in Dirs : t.child[n][d] # Null =>
            t.child[n][d] \in N /\ Span(lo, hi, t.child[n][d]) < Span(lo, hi, n)
  BY SpansShrink DEF Shrinks
<1>4. OnPath(N, lo, hi, key, root, 0)
  <2>1. CASE root = Null
    BY <1>1, <2>1 DEF OnPath
  <2>2. CASE root # Null
    <3>1. root \in N /\ lo[root] = 0 /\ hi[root] = MaxKey + 1
      BY <1>1, <2>2
    <3>2. Span(lo, hi, root) <= MaxKey - 0
      BY <1>2, <1>3, <3>1
    <3> QED BY <1>2, <3>1, <3>2 DEF OnPath
  <2> QED BY <2>1, <2>2
<1>5. ASSUME NEW k \in Nat, NEW x, OnPath(N, lo, hi, key, x, k)
      PROVE  OnPath(N, lo, hi, key, Onward(key, x), k + 1)
  <2>1. CASE x = Null
    BY <1>1, <1>2, <1>5, <2>1 DEF OnPath, Onward
  <2>2. CASE x = key
    BY <1>2, <1>5, <2>2 DEF OnPath, Onward
  <2>3. CASE x # Null /\ x # key
    <3>1. x \in N /\ lo[x] < key /\ key < hi[x] /\ Span(lo, hi, x) <= MaxKey - k /\ x \in Keys
      BY <1>1, <1>5, <2>3 DEF OnPath
    <3>2. x \in Int /\ lo[x] \in Int /\ hi[x] \in Int /\ key \in Int
      BY <1>1, <1>2, <3>1
    <3>3. ASSUME NEW d \in Dirs, d = Less(x, key), t.child[x][d] = Null
          PROVE  key \notin N
      <4>1. CASE x < key
        <5>1. d = 1
          BY <3>3, <4>1 DEF Less
        <5> QED BY <1>1, <3>1, <3>3, <4>1, <5>1
      <4>2. CASE ~(x < key)
        <5>1. d = 0 /\ key < x
          BY <2>3, <3>2, <3>3, <4>2 DEF Less
        <5> QED BY <1>1, <3>1, <3>3, <5>1
      <4> QED BY <4>1, <4>2
    <3>4. ASSUME NEW d \in Dirs, d = Less(x, key), NEW c, c = t.child[x][d], c # Null
          PROVE  c \in N /\ lo[c] < key /\ key < hi[c] /\ Span(lo, hi, c) <= MaxKey - (k + 1)
      <4>1. c \in N /\ Span(lo, hi, c) < Span(lo, hi, x)
        BY <1>3, <3>1, <3>4
      <4>2. Span(lo, hi, c) \in Int /\ Span(lo, hi, x) \in Int
        BY <1>3, <3>1, <4>1
      <4>3. Span(lo, hi, c) <= MaxKey - (k + 1)
        BY <1>2, <3>1, <4>1, <4>2
      <4>4. CASE x < key
        <5>1. d = 1
          BY <3>4, <4>4 DEF Less
        <5>2. lo[c] = x /\ hi[c] = hi[x]
          BY <1>1, <3>1, <3>4, <5>1
        <5> QED BY <3>1, <4>1, <4>3, <4>4, <5>2
      <4>5. CASE ~(x < key)
        <5>1. d = 0 /\ key < x
          BY <2>3, <3>2, <3>4, <4>5 DEF Less
        <5>2. hi[c] = x /\ lo[c] = lo[x]
          BY <1>1, <3>1, <3>4, <5>1
        <5> QED BY <3>1, <4>1, <4>3, <5>1, <5>2
      <4> QED BY <4>4, <4>5
    <3>5. Onward(key, x) = t.child[x][Less(x, key)] /\ Less(x, key) \in Dirs
      BY <1>2, <2>3 DEF Onward, Less
    <3> QED BY <3>3, <3>4, <3>5 DEF OnPath
  <2> QED BY <2>1, <2>2, <2>3
<1>6. ASSUME NEW x, OnPath(N, lo, hi, key, x, MaxKey) PROVE x = IF key \in N THEN key ELSE Null
  <2>1. ~(x \in N /\ x # key)
    <3> SUFFICES ASSUME x \in N, x # key PROVE FALSE
      OBVIOUS
    <3>1. Span(lo, hi, x) <= MaxKey - MaxKey
      BY <1>1, <1>2, <1>6 DEF OnPath
    <3> QED BY <1>2, <1>3, <3>1
  <2> QED BY <1>1, <1>2, <1>6, <2>1 DEF OnPath
<1>7. ASSUME NEW x \in N \cup {Null} PROVE Onward(key, x) \in N \cup {Null}
  BY <1>1, <1>2 DEF Onward, Less
<1>8. root \in N \cup {Null}
  BY <1>1
<1> QED BY <1>4, <1>5, <1>6, <1>7, <1>8

(* The path of a lookup is what it is defined as, if anything is. *)
LEMMA PathIs ==
    ASSUME NEW key, NEW v,
           \E f : f = [k \in 0..MaxKey |->
                    IF k = 0 THEN root
                    ELSE IF f[k - 1] \in {key, Null} THEN f[k - 1]
                    ELSE t.child[f[k - 1]][Less(f[k - 1], key)]],
           \A f : f = [k \in 0..MaxKey |->
                    IF k = 0 THEN root
                    ELSE IF f[k - 1] \in {key, Null} THEN f[k - 1]
                    ELSE t.child[f[k - 1]][Less(f[k - 1], key)]] => f[MaxKey] = v
    PROVE (LET path[k \in 0..MaxKey] ==
                    IF k = 0 THEN root
                    ELSE IF path[k - 1] \in {key, Null} THEN path[k - 1]
                    ELSE t.child[path[k - 1]][Less(path[k - 1], key)]
            IN path[MaxKey]) = v
BY Zenon

(* lookup finds the keys of the tree and no others. *)
LEMMA PathEnds ==
    ASSUME NEW N, NEW lo, NEW hi, Standing(N, lo, hi), NEW key \in Keys
    PROVE (LET path[k \in 0..MaxKey] ==
                    IF k = 0 THEN root
                    ELSE IF path[k - 1] \in {key, Null} THEN path[k - 1]
                    ELSE t.child[path[k - 1]][Less(path[k - 1], key)]
            IN path[MaxKey]) = IF key \in N THEN key ELSE Null
<1> DEFINE V == N \cup {Null}
<1> DEFINE G == [x \in V |-> Onward(key, x)]
<1>1. /\ OnPath(N, lo, hi, key, root, 0)
      /\ \A k \in Nat : \A x : OnPath(N, lo, hi, key, x, k) => OnPath(N, lo, hi, key, Onward(key, x), k + 1)
      /\ \A x : OnPath(N, lo, hi, key, x, MaxKey) => x = IF key \in N THEN key ELSE Null
      /\ root \in N \cup {Null} /\ \A x \in N \cup {Null} : Onward(key, x) \in N \cup {Null}
  BY OnwardFacts
<1>2. MaxKey \in Nat
  BY RBTreeAssumption
<1>3. G \in [V -> V] /\ root \in V /\ \A x \in V : G[x] = Onward(key, x)
  BY <1>1
<1> HIDE DEF V, G
<1>4. PICK g : Iterated(g, V, root, G, MaxKey)
  BY <1>2, <1>3, IteratedExists
<1>5. g \in [0..MaxKey -> V] /\ g[0] = root /\ \A k \in 1..MaxKey : g[k] = G[g[k - 1]]
  BY <1>4 DEF Iterated
<1>6. ASSUME NEW k \in 0..MaxKey PROVE g[k] = IF k = 0 THEN root ELSE Onward(key, g[k - 1])
  <2>1. CASE k = 0
    BY <1>5, <2>1
  <2>2. CASE k # 0
    <3>1. k \in 1..MaxKey /\ k - 1 \in 0..MaxKey
      BY <1>2, <2>2
    <3>2. g[k] = G[g[k - 1]] /\ g[k - 1] \in V
      BY <1>5, <3>1
    <3> QED BY <1>3, <2>2, <3>2
  <2> QED BY <2>1, <2>2
<1>7. \E f : f = [k \in 0..MaxKey |-> IF k = 0 THEN root ELSE Onward(key, f[k - 1])]
  <2>1. g = [k \in 0..MaxKey |-> IF k = 0 THEN root ELSE Onward(key, g[k - 1])]
    BY <1>5, <1>6
  <2> QED BY Zenon, <2>1
<1>8. ASSUME NEW f, f = [k \in 0..MaxKey |-> IF k = 0 THEN root ELSE Onward(key, f[k - 1])]
      PROVE  f[MaxKey] = IF key \in N THEN key ELSE Null
  <2>1. \A k \in 0..MaxKey : f[k] = IF k = 0 THEN root ELSE Onward(key, f[k - 1])
    BY <1>8, Zenon
  <2> DEFINE T == {k \in Nat : k <= MaxKey => OnPath(N, lo, hi, key, f[k], k)}
  <2>2. 0 \in T
    BY <1>1, <1>2, <2>1
  <2>3. ASSUME NEW k \in Nat, k \in T PROVE k + 1 \in T
    <3> SUFFICES ASSUME k + 1 <= MaxKey PROVE OnPath(N, lo, hi, key, f[k + 1], k + 1)
      OBVIOUS
    <3>1. k + 1 \in 0..MaxKey /\ (k + 1) - 1 = k /\ k + 1 # 0 /\ k <= MaxKey
      BY <1>2
    <3>2. OnPath(N, lo, hi, key, f[k], k)
      BY <2>3, <3>1
    <3>3. f[k + 1] = Onward(key, f[k])
      <4>1. f[k + 1] = Onward(key, f[(k + 1) - 1])
        BY <2>1, <3>1, Zenon
      <4> QED BY <3>1, <4>1
    <3> QED BY <1>1, <3>2, <3>3
  <2> HIDE DEF T
  <2>4. Nat \subseteq T
    BY <2>2, <2>3, SetInduction
  <2>5. OnPath(N, lo, hi, key, f[MaxKey], MaxKey)
    BY <1>2, <2>4 DEF T
  <2> QED BY <1>1, <2>5
<1>9. \E f : f = [k \in 0..MaxKey |->
                    IF k = 0 THEN root
                    ELSE IF f[k - 1] \in {key, Null} THEN f[k - 1]
                    ELSE t.child[f[k - 1]][Less(f[k - 1], key)]]
  BY <1>7, Zenon DEF Onward
<1>10. \A f : f = [k \in 0..MaxKey |->
                    IF k = 0 THEN root
                    ELSE IF f[k - 1] \in {key, Null} THEN f[k - 1]
                    ELSE t.child[f[k - 1]][Less(f[k - 1], key)]]
              => f[MaxKey] = IF key \in N THEN key ELSE Null
  BY <1>8, Zenon DEF Onward
<1> QED BY Zenon, <1>9, <1>10, PathIs

(* lookup in a state of the invariant. *)
LEMMA SearchableState ==
    ASSUME RBInv, RemoveAbsent = FALSE
    PROVE  Searchable
<1>1. pc # "crashed"
  BY DEF RBInv
<1>2. ASSUME pc = "idle", NEW key \in Keys
      PROVE (LET path[k \in 0..MaxKey] ==
                    IF k = 0 THEN root
                    ELSE IF path[k - 1] \in {key, Null} THEN path[k - 1]
                    ELSE t.child[path[k - 1]][Less(path[k - 1], key)]
            IN path[MaxKey]) = IF key \in contents THEN key ELSE Null
  <2>1. PICK N, lo, hi : Standing(N, lo, hi) /\ N = contents
    BY <1>2, IdleState
  <2>2. Standing(contents, lo, hi)
    BY <2>1
  <2> QED BY <2>2, PathEnds
<1> QED BY <1>1, <1>2, Zenon DEF Searchable

(* The lowest key of N above x *)
First(N, x) == CHOOSE m \in N : m > x /\ \A k \in N : k > x => k >= m

(* The lowest key above x is the only one. *)
LEMMA FirstIs ==
    ASSUME NEW N, N \subseteq Keys, NEW x, NEW m \in N, m > x, \A k \in N : k > x => k >= m
    PROVE  First(N, x) = m
<1>1. \A n \in N : n \in Int
  BY Sets
<1>2. \A n \in N : (n > x /\ \A k \in N : k > x => k >= n) => n = m
  BY <1>1
<1> QED BY <1>2 DEF First

(* leftmost is what it is defined as, if anything is. *)
LEMMA LeftmostIs ==
    ASSUME \E f : f = [n \in Keys |-> IF t.child[n][0] = Null THEN n ELSE f[t.child[n][0]]]
    PROVE  leftmost = [n \in Keys |-> IF t.child[n][0] = Null THEN n ELSE leftmost[t.child[n][0]]]
BY Zenon DEF leftmost

(* climb is what it is defined as, if anything is. *)
LEMMA ClimbIs ==
    ASSUME \E f : f = [n \in Keys |-> LET p == t.parent[n]
                                      IN IF p \in Keys /\ t.child[p][1] = n THEN f[p] ELSE p]
    PROVE  climb = [n \in Keys |-> LET p == t.parent[n]
                                   IN IF p \in Keys /\ t.child[p][1] = n THEN climb[p] ELSE p]
BY Zenon DEF climb

(* leftmost goes down to the lowest key above the bound lo of n. *)
LEMMA LeftmostFinds ==
    ASSUME NEW N, NEW lo, NEW hi, Standing(N, lo, hi)
    PROVE  \A n \in N : leftmost[n] = First(N, lo[n])
<1>1. /\ N \subseteq Keys
      /\ \A n \in N : lo[n] \in Int /\ lo[n] < n
      /\ \A n \in N : t.child[n][0] \in N \cup {Null}
      /\ \A n \in N : t.child[n][0] # Null => lo[t.child[n][0]] = lo[n]
      /\ \A n, k \in N : t.child[n][0] = Null => ~(lo[n] < k /\ k < n)
      /\ \A n \in Keys \ N : t.child[n][0] = Null
  BY Sets DEF Standing
<1>2. MaxKey \in Nat /\ Null \notin Keys /\ 0 \in Dirs /\ \A k \in Keys : k \in Int
  BY RBTreeAssumption, Sets
<1>3. /\ \A n \in N : Span(lo, hi, n) \in Int /\ 1 <= Span(lo, hi, n) /\ Span(lo, hi, n) <= MaxKey
      /\ \A n \in N, d \in Dirs : t.child[n][d] # Null =>
            t.child[n][d] \in N /\ Span(lo, hi, t.child[n][d]) < Span(lo, hi, n)
  BY SpansShrink DEF Shrinks
<1>4. ASSUME NEW n \in N, t.child[n][0] = Null PROVE First(N, lo[n]) = n
  <2>1. n \in N /\ n > lo[n] /\ \A k \in N : k \in Int /\ (k > lo[n] => k >= n)
    BY <1>1, <1>2, <1>4
  <2> QED BY <1>1, <2>1, FirstIs
<1> DEFINE f == [n \in Keys |-> IF n \in N THEN First(N, lo[n]) ELSE n]
<1>5. ASSUME NEW n \in Keys
      PROVE  f[n] = IF t.child[n][0] = Null THEN n ELSE f[t.child[n][0]]
  <2>1. CASE n \notin N
    BY <1>1, <2>1
  <2>2. CASE n \in N /\ t.child[n][0] = Null
    BY <1>4, <2>2
  <2>3. CASE n \in N /\ t.child[n][0] # Null
    <3>1. t.child[n][0] \in N /\ lo[t.child[n][0]] = lo[n] /\ t.child[n][0] \in Keys
      BY <1>1, <2>3
    <3>2. f[t.child[n][0]] = First(N, lo[n]) /\ f[n] = First(N, lo[n])
      BY <2>3, <3>1
    <3> QED BY <2>3, <3>2
  <2> QED BY <2>1, <2>2, <2>3
<1>6. \E g : g = [n \in Keys |-> IF t.child[n][0] = Null THEN n ELSE g[t.child[n][0]]]
  <2>1. f = [n \in Keys |-> f[n]]
    OBVIOUS
  <2> HIDE DEF f
  <2>2. f = [n \in Keys |-> IF t.child[n][0] = Null THEN n ELSE f[t.child[n][0]]]
    BY <1>5, <2>1
  <2> QED BY <2>2
<1> HIDE DEF f
<1>7. \A n \in Keys : leftmost[n] = IF t.child[n][0] = Null THEN n ELSE leftmost[t.child[n][0]]
  <2>1. leftmost = [n \in Keys |-> IF t.child[n][0] = Null THEN n ELSE leftmost[t.child[n][0]]]
    BY <1>6, LeftmostIs
  <2> QED BY <2>1, Zenon
<1> DEFINE T == {k \in Nat : \A n \in N : Span(lo, hi, n) <= k => leftmost[n] = First(N, lo[n])}
<1>8. 0 \in T
  BY <1>3
<1>9. ASSUME NEW k \in Nat, k \in T PROVE k + 1 \in T
  <2> SUFFICES ASSUME NEW n \in N, Span(lo, hi, n) <= k + 1 PROVE leftmost[n] = First(N, lo[n])
    OBVIOUS
  <2>1. \A m \in N : Span(lo, hi, m) <= k => leftmost[m] = First(N, lo[m])
    BY <1>9
  <2> HIDE DEF T
  <2>2. CASE t.child[n][0] = Null
    BY <1>1, <1>4, <1>7, <2>2
  <2>3. CASE t.child[n][0] # Null
    <3>1. t.child[n][0] \in N /\ Span(lo, hi, t.child[n][0]) <= k
      BY <1>2, <1>3, <2>3
    <3>2. leftmost[n] = leftmost[t.child[n][0]]
      BY <1>1, <1>7, <2>3
    <3> QED BY <1>1, <2>1, <2>3, <3>1, <3>2
  <2> QED BY <2>2, <2>3
<1> HIDE DEF T
<1>10. Nat \subseteq T
  BY <1>8, <1>9, SetInduction
<1>11. MaxKey \in T
  BY <1>2, <1>10
<1> QED BY <1>3, <1>11 DEF T

(* climb goes up to the bound hi of n. *)
LEMMA ClimbFinds ==
    ASSUME NEW N, NEW lo, NEW hi, Standing(N, lo, hi)
    PROVE  \A n \in N : climb[n] = IF hi[n] \in N THEN hi[n] ELSE Null
<1>1. /\ N \subseteq Keys
      /\ \A n \in N : n # root => t.parent[n] \in N /\ \E d \in Dirs : t.child[t.parent[n]][d] = n
      /\ \A n \in N : n = root => t.parent[n] = Null /\ hi[n] = MaxKey + 1
      /\ \A n \in N : t.child[n][0] # Null => hi[t.child[n][0]] = n
      /\ \A n \in N : t.child[n][1] # Null => hi[t.child[n][1]] = hi[n]
      /\ \A n \in Keys \ N : t.parent[n] = Null
  <2>1. \A n \in N : n # Null
    BY Sets DEF Standing
  <2> QED BY <2>1 DEF Standing
<1>2. MaxKey \in Nat /\ Null \notin Keys /\ Dirs = {0, 1} /\ \A k \in Keys : k \in Int /\ k # MaxKey + 1
  BY RBTreeAssumption, Sets
<1>3. /\ \A n \in N : Span(lo, hi, n) \in Int /\ 1 <= Span(lo, hi, n) /\ Span(lo, hi, n) <= MaxKey
      /\ \A n \in N, d \in Dirs : t.child[n][d] # Null =>
            t.child[n][d] \in N /\ Span(lo, hi, t.child[n][d]) < Span(lo, hi, n)
  BY SpansShrink DEF Shrinks
<1> DEFINE Up(n) == IF hi[n] \in N THEN hi[n] ELSE Null
<1>4. ASSUME NEW n \in N, n = root PROVE t.parent[n] = Null /\ Up(n) = Null
  BY <1>1, <1>2, <1>4
<1>5. ASSUME NEW n \in N, n # root
      PROVE  /\ t.parent[n] \in N /\ t.parent[n] \in Keys
             /\ Span(lo, hi, n) < Span(lo, hi, t.parent[n])
             /\ t.child[t.parent[n]][1] = n => Up(n) = Up(t.parent[n])
             /\ t.child[t.parent[n]][1] # n => Up(n) = t.parent[n]
  <2>1. PICK p \in N : p = t.parent[n]
    BY <1>1, <1>5
  <2>2. PICK d \in Dirs : t.child[p][d] = n
    BY <1>1, <1>5, <2>1
  <2>3. Span(lo, hi, n) < Span(lo, hi, p) /\ n # Null
    BY <1>1, <1>2, <1>3, <2>2
  <2>4. t.child[p][1] = n => Up(n) = Up(p)
    BY <1>1, <2>3
  <2>5. t.child[p][1] # n => Up(n) = p
    <3> SUFFICES ASSUME t.child[p][1] # n PROVE Up(n) = p
      OBVIOUS
    <3>1. t.child[p][0] = n
      BY <1>2, <2>2
    <3>2. hi[n] = p
      BY <1>1, <2>3, <3>1
    <3> QED BY <3>2
  <2> HIDE DEF Up
  <2> QED BY <1>1, <2>1, <2>3, <2>4, <2>5
<1> DEFINE f == [n \in Keys |-> IF n \in N THEN Up(n) ELSE Null]
<1>6. /\ \A n \in N : f[n] = Up(n)
      /\ \A n \in Keys \ N : f[n] = Null
      /\ f = [n \in Keys |-> f[n]]
  BY <1>1
<1> HIDE DEF f, Up
<1>7. ASSUME NEW n \in Keys
      PROVE  f[n] = LET p == t.parent[n]
                    IN IF p \in Keys /\ t.child[p][1] = n THEN f[p] ELSE p
  <2>1. CASE n \notin N
    BY <1>1, <1>2, <1>6, <2>1
  <2>2. CASE n \in N /\ n = root
    BY <1>2, <1>4, <1>6, <2>2
  <2>3. CASE n \in N /\ n # root
    <3>1. /\ t.parent[n] \in N /\ t.parent[n] \in Keys
          /\ t.child[t.parent[n]][1] = n => Up(n) = Up(t.parent[n])
          /\ t.child[t.parent[n]][1] # n => Up(n) = t.parent[n]
      BY <1>5, <2>3
    <3> QED BY <1>6, <2>3, <3>1
  <2> QED BY <2>1, <2>2, <2>3
<1>8. \E g : g = [n \in Keys |-> LET p == t.parent[n]
                                 IN IF p \in Keys /\ t.child[p][1] = n THEN g[p] ELSE p]
  <2>1. f = [n \in Keys |-> LET p == t.parent[n]
                            IN IF p \in Keys /\ t.child[p][1] = n THEN f[p] ELSE p]
    BY <1>6, <1>7
  <2> QED BY <2>1
<1>9. \A n \in Keys : climb[n] = LET p == t.parent[n]
                                 IN IF p \in Keys /\ t.child[p][1] = n THEN climb[p] ELSE p
  <2>1. climb = [n \in Keys |-> LET p == t.parent[n]
                                IN IF p \in Keys /\ t.child[p][1] = n THEN climb[p] ELSE p]
    BY <1>8, ClimbIs
  <2> QED BY <2>1, Zenon
<1> DEFINE T == {k \in Nat : \A n \in N : Span(lo, hi, n) >= MaxKey - k => climb[n] = Up(n)}
<1>10. ASSUME NEW n \in N, n = root PROVE climb[n] = Up(n)
  BY <1>1, <1>2, <1>4, <1>9, <1>10
<1>11. 0 \in T
  <2> SUFFICES ASSUME NEW n \in N, Span(lo, hi, n) >= MaxKey - 0 PROVE climb[n] = Up(n)
    OBVIOUS
  <2> HIDE DEF T
  <2>1. n = root
    BY <1>2, <1>3, <1>5
  <2> QED BY <1>10, <2>1
<1>12. ASSUME NEW k \in Nat, k \in T PROVE k + 1 \in T
  <2> SUFFICES ASSUME NEW n \in N, Span(lo, hi, n) >= MaxKey - (k + 1) PROVE climb[n] = Up(n)
    OBVIOUS
  <2>1. \A m \in N : Span(lo, hi, m) >= MaxKey - k => climb[m] = Up(m)
    BY <1>12
  <2> HIDE DEF T
  <2>2. CASE n = root
    BY <1>10, <2>2
  <2>3. CASE n # root
    <3>1. /\ t.parent[n] \in N /\ t.parent[n] \in Keys
          /\ Span(lo, hi, n) < Span(lo, hi, t.parent[n])
          /\ t.child[t.parent[n]][1] = n => Up(n) = Up(t.parent[n])
          /\ t.child[t.parent[n]][1] # n => Up(n) = t.parent[n]
      BY <1>5, <2>3
    <3>2. Span(lo, hi, t.parent[n]) >= MaxKey - k
      BY <1>2, <1>3, <3>1
    <3>3. climb[t.parent[n]] = Up(t.parent[n])
      BY <2>1, <3>1, <3>2
    <3> QED BY <1>1, <1>9, <3>1, <3>3
  <2> QED BY <2>2, <2>3
<1> HIDE DEF T
<1>13. Nat \subseteq T
  BY <1>11, <1>12, SetInduction
<1>14. MaxKey \in T
  BY <1>2, <1>13
<1>15. ASSUME NEW n \in N PROVE climb[n] = Up(n)
  <2>1. Span(lo, hi, n) >= MaxKey - MaxKey
    BY <1>2, <1>3
  <2> QED BY <1>14, <2>1 DEF T
<1> QED BY <1>15 DEF Up

(* An iterator goes from each key to the next higher one. *)
LEMMA SuccessorFinds ==
    ASSUME NEW N, NEW lo, NEW hi, Standing(N, lo, hi), NEW n \in N
    PROVE  Successor(n) = IF \E m \in N : m > n THEN First(N, n) ELSE Null
<1>1. /\ N \subseteq Keys
      /\ lo[n] \in Int /\ hi[n] \in Int /\ n < hi[n] /\ hi[n] \in N \cup {MaxKey + 1}
      /\ t.child[n][1] \in N \cup {Null}
      /\ t.child[n][1] # Null => lo[t.child[n][1]] = n
      /\ \A m \in N : lo[m] < m
      /\ \A k \in N : t.child[n][1] = Null => ~(n < k /\ k < hi[n])
  BY Sets DEF Standing
<1>2. MaxKey \in Nat /\ \A k \in Keys : k \in Int /\ k < MaxKey + 1
  BY RBTreeAssumption, Sets
<1>3. CASE t.child[n][1] # Null
  <2>1. PICK c \in N : c = t.child[n][1]
    BY <1>1, <1>3
  <2>2. lo[c] = n /\ c > n
    BY <1>1, <1>2, <1>3, <2>1
  <2>3. leftmost[c] = First(N, n)
    BY <2>2, LeftmostFinds
  <2>4. Successor(n) = First(N, n)
    BY <1>3, <2>1, <2>3 DEF Successor
  <2> QED BY <2>2, <2>4
<1>4. CASE t.child[n][1] = Null
  <2>1. Successor(n) = IF hi[n] \in N THEN hi[n] ELSE Null
    BY <1>4, ClimbFinds DEF Successor
  <2>2. \A k \in N : k \in Int /\ (k > n => k >= hi[n])
    BY <1>1, <1>2, <1>4
  <2>3. CASE hi[n] \in N
    <3>1. First(N, n) = hi[n]
      BY <1>1, <2>2, <2>3, FirstIs
    <3>2. \E m \in N : m > n
      BY <1>1, <2>3
    <3> QED BY <2>1, <2>3, <3>1, <3>2
  <2>4. CASE hi[n] \notin N
    <3>1. hi[n] = MaxKey + 1
      BY <1>1, <2>4
    <3>2. ~\E m \in N : m > n
      BY <1>1, <1>2, <2>2, <3>1
    <3> QED BY <2>1, <2>4, <3>2
  <2> QED BY <2>3, <2>4
<1> QED BY <1>3, <1>4

(* The types in a state of the invariant. *)
LEMMA TypedState ==
    ASSUME RBInv, RemoveAbsent = FALSE
    PROVE  TypeOK
<1>1. pc \in {"idle", "insert", "remove", "crashed"} /\ pc # "crashed" /\ Typed
  BY DEF RBInv
<1>2. PICK N, lo, hi : Kept(N, lo, hi)
  BY <1>1 DEF RBInv
<1>3. N \subseteq Keys /\ IsLeast(N, beg)
  <2>1. IsLeast(N, beg) /\ Counted(N)
    BY <1>2 DEF Kept
  <2>2. N \subseteq Keys
    <3>1. CASE pc # "remove"
      BY <1>1, <2>1, <3>1 DEF Counted, Typed
    <3>2. CASE pc = "remove"
      <4>1. at.key \in Keys
        BY <1>1 DEF Typed, Locals
      <4> QED BY <1>1, <2>1, <3>2, <4>1 DEF Counted, Typed
    <3> QED BY <3>1, <3>2
  <2> QED BY <2>1, <2>2
<1>4. beg \in Keys \cup {Null}
  BY <1>3 DEF IsLeast
<1>5. ASSUME pc = "idle" PROVE at = NoLocals /\ \A n \in Keys : t.parent[n] # FalseRoot
  <2>1. PICK M, mlo, mhi : Standing(M, mlo, mhi) /\ at = NoLocals
    BY <1>5, IdleState
  <2>2. \A n \in Keys : t.parent[n] \in M \cup {Null} /\ M \subseteq Keys
    BY <2>1 DEF Standing
  <2> QED BY <2>1, <2>2, Sets
<1>6. /\ t.red \in [Nodes -> BOOLEAN] /\ t.child \in [Nodes -> [Dirs -> Refs]] /\ t.parent \in [Nodes -> Refs]
  BY <1>1 DEF Typed, Links
<1>7. at.key \in Keys /\ {at.g, at.h, at.p, at.q, at.f} \subseteq Refs
  BY <1>1 DEF Typed, Locals
<1> QED BY <1>1, <1>4, <1>5, <1>6, <1>7 DEF TypeOK, Typed

(* Iterates in a state of the invariant. *)
LEMMA IteratesState ==
    ASSUME RBInv, RemoveAbsent = FALSE
    PROVE  Iterates
<1>1. TypeOK /\ Searchable
  BY Zenon, TypedState, SearchableState
<1>2. ASSUME pc = "idle"
      PROVE  /\ InTree = contents
             /\ \A n \in contents : t.parent[n] \in contents \cup {Null}
             /\ len = Cardinality(contents)
             /\ \A n \in contents :
                   Successor(n) = IF \E m \in contents : m > n THEN First(contents, n) ELSE Null
  <2>1. PICK N, lo, hi : Standing(N, lo, hi) /\ N = contents /\ len = Cardinality(N)
    BY <1>2, IdleState
  <2>2. Standing(contents, lo, hi)
    BY <2>1
  <2>3. InTree = contents
    BY <2>2, ReachedAll
  <2>4. \A n \in contents : t.parent[n] \in contents \cup {Null}
    BY <2>2 DEF Standing
  <2>5. \A n \in contents :
           Successor(n) = IF \E m \in contents : m > n THEN First(contents, n) ELSE Null
    BY <2>2, SuccessorFinds
  <2> QED BY <2>1, <2>3, <2>4, <2>5
<1> QED BY <1>1, <1>2 DEF Iterates, First

(* insert and remove keep exactly the keys that were inserted and not      *)
(* removed, lookup finds them, len counts them and an iterator meets them  *)
(* in ascending order, if no remove asks for a key that is not there.      *)
THEOREM AlwaysIterates ==
    ASSUME RemoveAbsent = FALSE
    PROVE  Spec => []Iterates
<1>1. RBInv => Iterates
  BY Zenon, IteratesState
<1> QED BY <1>1, AlwaysRBInv, PTL
=============================================================================
