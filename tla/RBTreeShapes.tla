---------------------------- MODULE RBTreeShapes ----------------------------
(***************************************************************************)
(* What the rotations, the painting and the links of insert do to a red-   *)
(* black tree, and that every iteration of insert keeps one.               *)
(*                                                                         *)
(* The nodes N of a tree and the bounds lo and hi of their places are no   *)
(* variables of the code: the lemmas speak of any that fit the links.      *)
(***************************************************************************)
EXTENDS RBTree, TLAPS, SequenceFacts

(* The type of the links and colours of the nodes. *)
Links == [red : [Nodes -> BOOLEAN], child : [Nodes -> [Dirs -> Refs]], parent : [Nodes -> Refs]]

(* v is u with the nodes S in colour c. *)
IsPainted(v, u, S, c) ==
    /\ v \in Links /\ v.child = u.child /\ v.parent = u.parent
    /\ \A x \in Nodes : v.red[x] = IF x \in S THEN c ELSE u.red[x]

(* v is u with m below n on side d. *)
IsHung(v, u, n, d, m) ==
    /\ v \in Links /\ v.red = u.red
    /\ \A x \in Nodes, e \in Dirs :
          v.child[x][e] = IF x = n /\ e = d THEN m ELSE u.child[x][e]
    /\ \A x \in Nodes : v.parent[x] = IF x = m THEN n ELSE u.parent[x]

(* A node n lies between the bounds lo[n] and hi[n], which its place in  *)
(* the tree gives it. These are the bounds of the place below m on side  *)
(* d.                                                                    *)
Lower(lo, m, d) == IF m = FalseRoot THEN 0 ELSE IF d = 0 THEN lo[m] ELSE m
Upper(hi, m, d) == IF m = FalseRoot THEN MaxKey + 1 ELSE IF d = 0 THEN m ELSE hi[m]

(* The places where a node of N, or none, hangs. The root hangs on the   *)
(* right of the false root.                                              *)
Slot(N, m, d) == m \in N \/ (m = FalseRoot /\ d = 1)

(* Every link is to a node of N or null, the parent links are the        *)
(* inverse of the child links, and what is no node links nothing.        *)
Linked(u, N) ==
    /\ \A m \in Nodes, d \in Dirs : Slot(N, m, d) => u.child[m][d] \in N \cup {Null}
    /\ \A m \in Nodes, d \in Dirs : ~Slot(N, m, d) => u.child[m][d] = Null
    /\ \A m \in N, d \in Dirs : u.child[m][d] # Null => u.parent[u.child[m][d]] = m
    /\ \A n \in N : \/ n = u.child[FalseRoot][1] /\ u.parent[n] \in {Null, FalseRoot}
                    \/ u.parent[n] \in N /\ \E d \in Dirs : u.child[u.parent[n]][d] = n
    /\ \A k \in Keys \ N : u.parent[k] = Null

(* The bounds are those of the places, and no key of the tree lies       *)
(* between the bounds of an empty place.                                 *)
Sorted(u, N, lo, hi) ==
    /\ \A n \in N : lo[n] < n /\ n < hi[n]
    /\ \A m \in Nodes, d \in Dirs : Slot(N, m, d) /\ u.child[m][d] # Null =>
            lo[u.child[m][d]] = Lower(lo, m, d) /\ hi[u.child[m][d]] = Upper(hi, m, d)
    /\ \A m \in Nodes, d \in Dirs : Slot(N, m, d) /\ u.child[m][d] = Null =>
          \A k \in N : ~(Lower(lo, m, d) < k /\ k < Upper(hi, m, d))

(* Every path from n down to a null link passes bh[n] black nodes. *)
Even(u, N, bh) ==
    /\ bh[Null] = 0
    /\ \A n \in N : bh[u.child[n][0]] = bh[u.child[n][1]] /\ bh[n] = bh[u.child[n][0]] + IF u.red[n] THEN 0 ELSE 1

(* No red node has a red child. *)
Cool(u, N) == ~u.red[FalseRoot] /\ \A n \in N, d \in Dirs : u.red[n] => ~Red(u, u.child[n][d])

(* What set_color does to every node of a set. *)
LEMMA PaintedFacts ==
    ASSUME NEW u, u \in Links, NEW S, NEW c, c \in BOOLEAN
    PROVE  IsPainted(Painted(u, S, c), u, S, c)
BY DEF Painted, Links, IsPainted

(* What a link to a child does, and the link back to its parent. *)
LEMMA HungFacts ==
    ASSUME NEW u, u \in Links, NEW n, n \in Nodes, NEW d, d \in Dirs, NEW m, m \in Refs
    PROVE  IsHung(Hung(u, n, d, m), u, n, d, m)
<1> USE DEF Links
<1> DEFINE v == Hung(u, n, d, m)
           f == [u.child EXCEPT ![n][d] = m]
           g == [k \in Nodes |-> IF k = m THEN n ELSE u.parent[k]]
<1>1. v = [u EXCEPT !.child = f, !.parent = g]
  BY DEF Hung
<1>2. f \in [Nodes -> [Dirs -> Refs]] /\ g \in [Nodes -> Refs]
  BY DEF Refs
<1>3. \A x \in Nodes, e \in Dirs : f[x][e] = IF x = n /\ e = d THEN m ELSE u.child[x][e]
  OBVIOUS
<1>4. v.child = f /\ v.parent = g /\ v.red = u.red /\ v \in Links
  BY Zenon, <1>1, <1>2
<1>5. \A x \in Nodes : g[x] = IF x = m THEN n ELSE u.parent[x]
  OBVIOUS
<1> HIDE DEF v, f, g, Links
<1>6. IsHung(v, u, n, d, m)
  BY <1>3, <1>4, <1>5 DEF IsHung
<1> QED BY <1>6 DEF v

(* Rotate below m *)
Turned(u, m, e, n, d) == Hung(Rotate(u, n, d), m, e, Top(u, n, d))

(* v is u after a single rotation at n, which hangs at (m, e): the child *)
(* of n on side o = 1 - d is above n now.                                *)
IsTurned(v, u, m, e, n, d, o) ==
    LET r == u.child[n][o]
        c == u.child[r][d]
    IN /\ v \in Links
       /\ \A x \in Nodes, f \in Dirs :
             v.child[x][f] = IF x = n /\ f = o THEN c
                             ELSE IF x = r /\ f = d THEN n
                             ELSE IF x = m /\ f = e THEN r
                             ELSE u.child[x][f]
       /\ \A x \in Nodes :
             v.parent[x] = IF x = r THEN m ELSE IF x = n THEN r ELSE IF x = c THEN n
                           ELSE u.parent[x]
       /\ \A x \in Nodes :
             v.red[x] = IF x = r THEN FALSE ELSE IF x = n THEN TRUE ELSE u.red[x]

(* single_rotate below m, link by link. *)
LEMMA TurnFacts ==
    ASSUME NEW u, u \in Links, NEW n, n \in Keys, NEW d, d \in Dirs, NEW m, m \in Nodes,
           NEW e, e \in Dirs, u.child[n][1 - d] \in Keys,
           n # u.child[n][1 - d], m # n, m # u.child[n][1 - d],
           u.child[u.child[n][1 - d]][d] \notin {n, u.child[n][1 - d]}
    PROVE  IsTurned(Turned(u, m, e, n, d), u, m, e, n, d, 1 - d)
<1> DEFINE r == u.child[n][1 - d]
           c == u.child[r][d]
<1>0. r \in Keys /\ n # r /\ m # n /\ m # r /\ c # n /\ c # r /\ c \in Refs
  BY DEF Links, Nodes
<1> DEFINE v1 == Hung(u, n, 1 - d, c)
           v2 == Hung(v1, r, d, n)
           v3 == Painted(v2, {n}, TRUE)
           v4 == Painted(v3, {r}, FALSE)
           v5 == Hung(v4, m, e, r)
<1>1. Turned(u, m, e, n, d) = v5
  BY DEF Turned, Rotate, Top
<1> HIDE DEF r, c
<1>2. n \in Nodes /\ r \in Nodes /\ n \in Refs /\ r \in Refs /\ 1 - d \in Dirs
  BY <1>0 DEF Nodes, Refs, Dirs
<1>3. IsHung(v1, u, n, 1 - d, c)
  BY <1>0, <1>2, HungFacts
<1>4. IsHung(v2, v1, r, d, n)
  <2>1. v1 \in Links
    BY <1>3 DEF IsHung
  <2> HIDE DEF v1
  <2> QED BY <1>2, <2>1, HungFacts
<1>5. IsPainted(v3, v2, {n}, TRUE)
  <2>1. v2 \in Links
    BY <1>4 DEF IsHung
  <2> HIDE DEF v2
  <2> QED BY Zenon, <2>1, PaintedFacts
<1>6. IsPainted(v4, v3, {r}, FALSE)
  <2>1. v3 \in Links
    BY Zenon, <1>5 DEF IsPainted
  <2> HIDE DEF v3
  <2> QED BY Zenon, <2>1, PaintedFacts
<1>7. IsHung(v5, v4, m, e, r)
  <2>1. v4 \in Links
    BY Zenon, <1>6 DEF IsPainted
  <2> HIDE DEF v4
  <2> QED BY <1>2, <2>1, HungFacts
<1> HIDE DEF v1, v2, v3, v4, v5
<1> USE DEF IsHung, IsPainted
<1>8. \A x \in Nodes, f \in Dirs : v5.child[x][f] =
                     IF x = n /\ f = 1 - d THEN c
                     ELSE IF x = r /\ f = d THEN n
                     ELSE IF x = m /\ f = e THEN r
                     ELSE u.child[x][f]
  BY <1>0, <1>3, <1>4, <1>5, <1>6, <1>7
<1>9. \A x \in Nodes : v5.parent[x] =
                     IF x = r THEN m ELSE IF x = n THEN r ELSE IF x = c THEN n ELSE u.parent[x]
  BY <1>0, <1>3, <1>4, <1>5, <1>6, <1>7
<1>10. \A x \in Nodes : v5.red[x] = IF x = r THEN FALSE ELSE IF x = n THEN TRUE ELSE u.red[x]
  <2> SUFFICES ASSUME NEW x \in Nodes
               PROVE  v5.red[x] = IF x = r THEN FALSE ELSE IF x = n THEN TRUE ELSE u.red[x]
    BY Zenon
  <2>0. v5.red[x] = v4.red[x] /\ v2.red[x] = u.red[x]
    BY <1>3, <1>4, <1>7
  <2>a. v4.red[x] = IF x = r THEN FALSE ELSE v3.red[x]
    BY Zenon, <1>6
  <2>b. v3.red[x] = IF x = n THEN TRUE ELSE v2.red[x]
    BY Zenon, <1>5
  <2> QED BY <2>0, <2>a, <2>b
<1>11. IsTurned(v5, u, m, e, n, d, 1 - d)
  BY Zenon, <1>7, <1>8, <1>9, <1>10 DEF IsTurned, r, c
<1> QED BY <1>1, <1>11

(* N are the nodes of a search tree, with the bounds lo and hi. *)
Tree(u, N, lo, hi) ==
    /\ u \in Links /\ N \subseteq Keys
    /\ lo \in [Keys -> Int] /\ hi \in [Keys -> Int]
    /\ Linked(u, N) /\ Sorted(u, N, lo, hi)

(* What the constants say of keys, nodes and directions. *)
LEMMA Sets ==
    /\ \A k \in Keys : k \in Int /\ 0 < k /\ k < MaxKey + 1 /\ k \in Nodes /\ k \in Refs
                       /\ k # FalseRoot /\ k # Null
    /\ FalseRoot \in Nodes /\ FalseRoot \in Refs /\ FalseRoot # Null
    /\ FalseRoot \notin Keys /\ Null \notin Keys /\ Null \notin Nodes
    /\ MaxKey \in Int /\ Dirs = {0, 1}
BY SMTT(30), RBTreeAssumption DEF Keys, Nodes, Refs, Dirs

(* A node that hangs at a place has the bounds of that place. *)
LEMMA SlotFacts ==
    ASSUME NEW u, NEW N, NEW lo, NEW hi, Tree(u, N, lo, hi),
           NEW m, NEW d, d \in Dirs, Slot(N, m, d), u.child[m][d] # Null
    PROVE  /\ u.child[m][d] \in N
           /\ lo[u.child[m][d]] = Lower(lo, m, d) /\ hi[u.child[m][d]] = Upper(hi, m, d)
           /\ m \in N => u.parent[u.child[m][d]] = m
           /\ m \in Nodes
BY Sets DEF Tree, Slot, Linked, Sorted, Nodes

(* A child's keys lie between those around its parent. *)
LEMMA Nested ==
    ASSUME NEW u, NEW N, NEW lo, NEW hi, Tree(u, N, lo, hi),
           NEW m, NEW d, d \in Dirs, m \in N, u.child[m][d] # Null
    PROVE  LET c == u.child[m][d] IN
           /\ c \in N /\ c # m /\ c \in Int /\ lo[c] \in Int /\ hi[c] \in Int
           /\ m \in Int /\ lo[m] \in Int /\ hi[m] \in Int
           /\ lo[m] <= lo[c] /\ hi[c] <= hi[m] /\ lo[c] < c /\ c < hi[c]
           /\ lo[m] < m /\ m < hi[m]
           /\ d = 0 => hi[c] = m /\ lo[c] = lo[m] /\ c < m
           /\ d = 1 => lo[c] = m /\ hi[c] = hi[m] /\ m < c
<1> DEFINE c == u.child[m][d]
<1>1. Slot(N, m, d) /\ m # FalseRoot /\ m \in Keys
  BY Sets DEF Slot, Tree
<1>2. c \in N /\ lo[c] = Lower(lo, m, d) /\ hi[c] = Upper(hi, m, d)
  BY <1>1, SlotFacts
<1>3. c \in Keys /\ lo[c] < c /\ c < hi[c] /\ lo[m] < m /\ m < hi[m]
  BY <1>2 DEF Tree, Sorted
<1>4. lo[c] \in Int /\ lo[m] \in Int /\ hi[c] \in Int /\ hi[m] \in Int /\ c \in Int /\ m \in Int
  BY <1>1, <1>3, Sets DEF Tree
<1>5. d \in {0, 1}
  BY Sets
<1> HIDE DEF c
<1> QED BY <1>1, <1>2, <1>3, <1>4, <1>5 DEF Lower, Upper, c

(* A node hangs in one place only. *)
LEMMA OnePlace ==
    ASSUME NEW u, NEW N, NEW lo, NEW hi, Tree(u, N, lo, hi),
           NEW m, NEW d, d \in Dirs, Slot(N, m, d), u.child[m][d] # Null,
           NEW n, NEW e, e \in Dirs, Slot(N, n, e), u.child[n][e] = u.child[m][d]
    PROVE  n = m /\ e = d
<1> DEFINE c == u.child[m][d]
<1>1. c \in N /\ (m \in N => u.parent[c] = m) /\ (n \in N => u.parent[c] = n)
      /\ lo[c] = Lower(lo, m, d) /\ hi[c] = Upper(hi, m, d)
      /\ lo[c] = Lower(lo, n, e) /\ hi[c] = Upper(hi, n, e)
  BY SlotFacts
<1>2. d \in {0, 1} /\ e \in {0, 1} /\ FalseRoot \notin N /\ N \subseteq Keys
  BY Sets DEF Tree
<1>3. CASE m \in N /\ n \in N
  <2>1. m = n
    BY <1>1, <1>3
  <2>2. ASSUME d # e PROVE FALSE
    <3>1. lo[c] = m /\ hi[c] = m
      BY <1>1, <1>2, <1>3, <2>1, <2>2 DEF Lower, Upper
    <3>2. lo[c] < c /\ c < hi[c] /\ c \in Int /\ m \in Int
      BY <1>1, <1>2, <1>3, Sets DEF Tree, Sorted
    <3> QED BY <3>1, <3>2
  <2> QED BY <2>1, <2>2
<1>4. ASSUME NEW x \in N, NEW f \in {0, 1}, lo[c] = Lower(lo, x, f), hi[c] = Upper(hi, x, f),
             lo[c] = 0, hi[c] = MaxKey + 1
      PROVE  FALSE
  <2>1. x \in Int /\ 0 < x /\ x < MaxKey + 1 /\ x # FalseRoot
    BY <1>2, Sets
  <2>2. f = 0 => hi[c] = x
    BY <1>4, <2>1 DEF Upper
  <2>3. f = 1 => lo[c] = x
    BY <1>4, <2>1 DEF Lower
  <2> QED BY <1>4, <2>1, <2>2, <2>3
<1>5. CASE m \notin N /\ n \notin N
  BY <1>5 DEF Slot
<1>6. CASE m \in N /\ n \notin N
  <2>1. n = FalseRoot
    BY <1>6 DEF Slot
  <2>2. lo[c] = 0 /\ hi[c] = MaxKey + 1
    BY <1>1, <2>1 DEF Lower, Upper
  <2> QED BY Zenon, <1>1, <1>2, <1>4, <1>6, <2>2
<1>7. CASE m \notin N /\ n \in N
  <2>1. m = FalseRoot
    BY <1>7 DEF Slot
  <2>2. lo[c] = 0 /\ hi[c] = MaxKey + 1
    BY <1>1, <2>1 DEF Lower, Upper
  <2> QED BY Zenon, <1>1, <1>2, <1>4, <1>7, <2>2
<1> QED BY <1>3, <1>5, <1>6, <1>7

(* What a rotation needs to be one: n hangs at (m, e), r below it. *)
LEMMA TurnApart ==
    ASSUME NEW u, NEW N, NEW lo, NEW hi, Tree(u, N, lo, hi),
           NEW m, NEW e, e \in Dirs, Slot(N, m, e), NEW n, n \in N, u.child[m][e] = n,
           NEW d, d \in Dirs, NEW o, o \in Dirs, o # d, u.child[n][o] # Null
    PROVE  LET r == u.child[n][o]
               c == u.child[r][d]
           IN /\ r \in N /\ r # n /\ m # n /\ m # r /\ c \notin {n, r}
              /\ c \in N \cup {Null} /\ c # m
<1> DEFINE r == u.child[n][o]
           c == u.child[r][d]
<1>1. r \in N /\ r # n /\ lo[n] <= lo[r] /\ hi[r] <= hi[n] /\ (o = 0 => r < n /\ hi[r] = n)
      /\ (o = 1 => n < r /\ lo[r] = n)
      /\ lo[n] < n /\ n < hi[n] /\ {n, r, lo[n], lo[r], hi[n], hi[r]} \subseteq Int
      /\ u.parent[r] = n /\ lo[r] < r /\ r < hi[r]
  <2>1. Slot(N, n, o)
    BY DEF Slot
  <2>2. u.parent[r] = n
    BY <2>1, SlotFacts
  <2> QED BY <2>2, Nested
<1>2. m # n /\ m # r
  <2>1. CASE m = FalseRoot
    BY <1>1, <2>1, Sets DEF Tree
  <2>2. CASE m \in N
    <3>1. u.child[m][e] # Null
      BY Sets DEF Tree
    <3>2. n \in N /\ n # m /\ {m, lo[m], hi[m]} \subseteq Int /\ lo[m] <= lo[n] /\ hi[n] <= hi[m]
      /\ (e = 0 => hi[n] = m) /\ (e = 1 => lo[n] = m)
      BY <2>2, <3>1, Nested
    <3> HIDE DEF r
    <3>3. e \in {0, 1} /\ o \in {0, 1}
      BY Sets
    <3>4. m # r
      BY <1>1, <3>2, <3>3
    <3> QED BY <3>2, <3>4
  <2> QED BY <2>1, <2>2 DEF Slot
<1>3. c # Null => c \in N /\ c # r /\ c # n /\ c # m
  <2> SUFFICES ASSUME c # Null PROVE c \in N /\ c # r /\ c # n /\ c # m
    OBVIOUS
  <2>1. c \in N /\ c # r /\ u.parent[c] = r /\ lo[r] <= lo[c] /\ hi[c] <= hi[r] /\ c \in Int
        /\ lo[c] < c /\ c < hi[c] /\ {lo[c], hi[c]} \subseteq Int
    <3>1. Slot(N, r, d)
      BY <1>1 DEF Slot
    <3>2. u.parent[c] = r
      BY <1>1, <3>1, SlotFacts
    <3> QED BY <1>1, <3>2, Nested
  <2>2. c # n
    <3> HIDE DEF c, r
    <3>1. o \in {0, 1}
      BY Sets
    <3> QED BY <1>1, <2>1, <3>1
  <2>3. c # m
    <3>1. CASE m = FalseRoot
      BY <2>1, <3>1, Sets DEF Tree
    <3>2. CASE m \in N
      <4>1. u.child[m][e] # Null
        BY Sets DEF Tree
      <4>2. {m, lo[m], hi[m]} \subseteq Int /\ lo[m] <= lo[n] /\ hi[n] <= hi[m]
            /\ (e = 0 => hi[n] = m) /\ (e = 1 => lo[n] = m)
        BY <3>2, <4>1, Nested
      <4> HIDE DEF r, c
      <4>3. e \in {0, 1}
        BY Sets
      <4> QED BY <1>1, <2>1, <4>2, <4>3
    <3> QED BY <3>1, <3>2 DEF Slot
  <2> QED BY <2>1, <2>2, <2>3
<1>4. Null \notin {n, r} /\ m # Null
  BY <1>1, Sets DEF Tree, Slot
<1> QED BY <1>1, <1>2, <1>3, <1>4

(* The bounds after a single rotation at n, r being the child that comes *)
(* above n.                                                              *)
LoTurned(lo, n, r, d) == [lo EXCEPT ![r] = lo[n], ![n] = IF d = 0 THEN lo[n] ELSE r]
HiTurned(hi, n, r, d) == [hi EXCEPT ![r] = hi[n], ![n] = IF d = 0 THEN r ELSE hi[n]]

(* A single rotation keeps the search tree. *)
LEMMA TurnTree ==
    ASSUME NEW u, NEW N, NEW lo, NEW hi, Tree(u, N, lo, hi),
           NEW m, NEW e, e \in Dirs, Slot(N, m, e), NEW n, n \in N, u.child[m][e] = n,
           NEW d, d \in Dirs, NEW o, o \in Dirs, o # d, u.child[n][o] # Null,
           NEW v, IsTurned(v, u, m, e, n, d, o)
    PROVE  Tree(v, N, LoTurned(lo, n, u.child[n][o], d), HiTurned(hi, n, u.child[n][o], d))
<1> DEFINE r == u.child[n][o]
           c == u.child[r][d]
           lo2 == LoTurned(lo, n, r, d)
           hi2 == HiTurned(hi, n, r, d)
<1>1. /\ r \in N /\ r # n /\ m # n /\ m # r /\ c # n /\ c # r /\ c # m /\ c \in N \cup {Null}
  BY TurnApart
<1>2. /\ r \in Keys /\ n \in Keys /\ m \in Nodes /\ n \in Nodes /\ r \in Nodes
      /\ r # Null /\ n # Null /\ r # FalseRoot /\ n # FalseRoot /\ N \subseteq Keys
      /\ Slot(N, n, o) /\ Slot(N, n, d) /\ Slot(N, r, o) /\ Slot(N, r, d)
      /\ Null \notin N /\ FalseRoot \notin N /\ FalseRoot # Null
  BY <1>1, Sets DEF Tree, Slot, Nodes
<1>3. /\ v \in Links
      /\ \A x \in Nodes, f \in Dirs :
             v.child[x][f] = IF x = n /\ f = o THEN c
                             ELSE IF x = r /\ f = d THEN n
                             ELSE IF x = m /\ f = e THEN r
                             ELSE u.child[x][f]
      /\ \A x \in Nodes :
             v.parent[x] = IF x = r THEN m ELSE IF x = n THEN r ELSE IF x = c THEN n
                           ELSE u.parent[x]
  BY DEF IsTurned
<1>4. \A f \in Dirs : f = d \/ f = o
  BY Sets
<1>5. \A x \in Nodes, f \in Dirs : Slot(N, x, f) /\ u.child[x][f] \in {r, n} =>
          (x = m /\ f = e) \/ (x = n /\ f = o)
  <2> SUFFICES ASSUME NEW x \in Nodes, NEW f \in Dirs, Slot(N, x, f), u.child[x][f] \in {r, n}
               PROVE  (x = m /\ f = e) \/ (x = n /\ f = o)
    OBVIOUS
  <2> HIDE DEF c
  <2>1. CASE u.child[x][f] = r
    BY <1>2, <2>1, OnePlace
  <2>2. CASE u.child[x][f] = n
    BY <1>2, <2>2, OnePlace
  <2> QED BY <2>1, <2>2
<1>6. u.parent[r] = n /\ (c # Null => u.parent[c] = r) /\ (m \in N => u.parent[n] = m)
  <2>1. u.parent[r] = n
    BY <1>2, SlotFacts
  <2>2. ASSUME c # Null PROVE u.parent[c] = r
    BY <1>1, <1>2, <2>2, SlotFacts
  <2>3. ASSUME m \in N PROVE u.parent[n] = m
    BY <1>2, <2>3, SlotFacts
  <2> QED BY <2>1, <2>2, <2>3
<1> HIDE DEF r, c
<1>7. Linked(v, N)
  <2>1. ASSUME NEW x \in Nodes, NEW f \in Dirs, Slot(N, x, f)
        PROVE  v.child[x][f] \in N \cup {Null}
    <3>1. u.child[x][f] \in N \cup {Null}
      BY <2>1 DEF Tree, Linked
    <3> QED BY <1>1, <1>3, <3>1
  <2>2. ASSUME NEW x \in Nodes, NEW f \in Dirs, ~Slot(N, x, f)
        PROVE  v.child[x][f] = Null
    <3>1. u.child[x][f] = Null
      BY <2>2 DEF Tree, Linked
    <3>2. ~(x = n /\ f = o) /\ ~(x = r /\ f = d) /\ ~(x = m /\ f = e)
      BY <1>2, <2>2
    <3> QED BY <1>3, <3>1, <3>2
  <2>3. ASSUME NEW x \in N, NEW f \in Dirs, v.child[x][f] # Null
        PROVE  v.parent[v.child[x][f]] = x
    <3>0. x \in Nodes /\ Slot(N, x, f)
      BY <1>2 DEF Slot, Nodes
    <3>1. CASE x = n /\ f = o
      <4>1. v.child[x][f] = c /\ c \in Nodes
        BY <1>1, <1>2, <1>3, <2>3, <3>0, <3>1 DEF Nodes
      <4> QED BY <1>1, <1>3, <3>1, <4>1
    <3>2. CASE x = r /\ f = d
      <4>1. v.child[x][f] = n
        BY <1>1, <1>2, <1>3, <3>2
      <4> QED BY <1>1, <1>2, <1>3, <3>2, <4>1
    <3>3. CASE x = m /\ f = e
      <4>1. v.child[x][f] = r
        BY <1>1, <1>2, <1>3, <3>3
      <4> QED BY <1>1, <1>2, <1>3, <3>3, <4>1
    <3>4. CASE ~(x = n /\ f = o) /\ ~(x = r /\ f = d) /\ ~(x = m /\ f = e)
      <4>1. v.child[x][f] = u.child[x][f]
        BY <1>3, <3>0, <3>4
      <4>2. u.parent[u.child[x][f]] = x /\ u.child[x][f] \in N /\ u.child[x][f] \in Nodes
        BY <1>2, <2>3, <3>0, <4>1 DEF Tree, Linked, Nodes
      <4>3. u.child[x][f] # n /\ u.child[x][f] # r
        BY <1>5, <3>0, <3>4
      <4>4. u.child[x][f] # c
        <5>1. x = r /\ f = o => u.child[x][f] # c
          <6> SUFFICES ASSUME x = r, f = o, u.child[x][f] = c PROVE FALSE
            OBVIOUS
          <6>1. u.child[r][d] # Null /\ u.child[r][o] = u.child[r][d]
            BY <2>3, <4>1 DEF c
          <6> QED BY <1>2, <6>1, OnePlace
        <5>2. c # Null => u.parent[c] = r
          BY <1>6
        <5> QED BY <1>4, <2>3, <3>4, <4>1, <4>2, <5>1, <5>2
      <4> QED BY <1>3, <4>1, <4>2, <4>3, <4>4
    <3> QED BY <3>1, <3>2, <3>3, <3>4
  <2>4. ASSUME NEW x \in N
        PROVE  \/ x = v.child[FalseRoot][1] /\ v.parent[x] \in {Null, FalseRoot}
               \/ v.parent[x] \in N /\ \E f \in Dirs : v.child[v.parent[x]][f] = x
    <3>0. x \in Nodes
      BY <1>2 DEF Nodes
    <3>1. CASE x = r
      <4>1. v.parent[r] = m /\ v.child[m][e] = r
        BY <1>1, <1>2, <1>3
      <4>2. CASE m \in N
        BY <3>1, <4>1, <4>2
      <4>3. CASE m = FalseRoot /\ e = 1
        BY <3>1, <4>1, <4>3
      <4> QED BY <4>2, <4>3 DEF Slot
    <3>2. CASE x = n
      <4>1. v.parent[n] = r /\ v.child[r][d] = n
        BY <1>1, <1>2, <1>3
      <4> QED BY <1>1, <3>2, <4>1
    <3>3. CASE x = c
      <4>1. v.parent[c] = n /\ v.child[n][o] = c
        BY <1>1, <1>2, <1>3, <3>0, <3>3
      <4> QED BY <3>3, <4>1
    <3>4. CASE x # r /\ x # n /\ x # c
      <4>1. v.parent[x] = u.parent[x]
        BY <1>3, <3>0, <3>4
      <4>2. CASE x = u.child[FalseRoot][1] /\ u.parent[x] \in {Null, FalseRoot}
        <5>1. FalseRoot \in Nodes /\ 1 \in Dirs
          BY Sets
        <5>2. ~(m = FalseRoot /\ e = 1)
          BY <3>4, <4>2
        <5>3. v.child[FalseRoot][1] = u.child[FalseRoot][1]
          BY <1>2, <1>3, <5>1, <5>2
        <5> QED BY <4>1, <4>2, <5>3
      <4>3. CASE u.parent[x] \in N /\ \E f \in Dirs : u.child[u.parent[x]][f] = x
        <5>1. PICK f \in Dirs : u.child[u.parent[x]][f] = x
          BY <4>3
        <5>2. u.parent[x] \in Nodes
          BY <1>2, <4>3 DEF Nodes
        <5>3. v.child[u.parent[x]][f] = x
          BY <1>3, <3>4, <5>1, <5>2 DEF r, c
        <5> QED BY <4>1, <4>3, <5>3
      <4> QED BY <4>2, <4>3 DEF Tree, Linked
    <3> QED BY <3>1, <3>2, <3>3, <3>4
  <2>5. ASSUME NEW k \in Keys \ N PROVE v.parent[k] = Null
    <3>1. k \in Nodes /\ u.parent[k] = Null
      BY DEF Tree, Linked, Nodes
    <3>2. k # r /\ k # n /\ k # c
      BY <1>1, <1>2, Sets
    <3> QED BY <1>3, <3>1, <3>2
  <2> QED BY <2>1, <2>2, <2>3, <2>4, <2>5 DEF Linked
<1>8. lo2 \in [Keys -> Int] /\ hi2 \in [Keys -> Int]
      /\ \A x \in Keys : /\ lo2[x] = IF x = n THEN IF d = 0 THEN lo[n] ELSE r ELSE IF x = r THEN lo[n] ELSE lo[x]
                         /\ hi2[x] = IF x = n THEN IF d = 0 THEN r ELSE hi[n] ELSE IF x = r THEN hi[n] ELSE hi[x]
  <2>1. Keys \subseteq Int
    BY Sets
  <2>2. r \in Int /\ lo \in [Keys -> Int] /\ hi \in [Keys -> Int]
    BY <1>2, <2>1 DEF Tree
  <2> QED BY <1>1, <1>2, <2>2 DEF LoTurned, HiTurned
<1>9. /\ {n, r, lo[n], hi[n], lo[r], hi[r]} \subseteq Int
      /\ lo[n] < n /\ n < hi[n] /\ lo[r] < r /\ r < hi[r]
      /\ d = 0 => n < r /\ lo[r] = n /\ hi[r] = hi[n]
      /\ d = 1 => r < n /\ hi[r] = n /\ lo[r] = lo[n]
  <2>1. d \in {0, 1} /\ o \in {0, 1}
    BY Sets
  <2>2. u.child[n][o] = r /\ r # Null
    BY <1>2 DEF r
  <2> HIDE DEF r
  <2> QED BY <2>1, <2>2, Nested
<1> HIDE DEF lo2, hi2
<1>10. Sorted(v, N, lo2, hi2)
  <2>0. d \in {0, 1} /\ o \in {0, 1} /\ e \in {0, 1}
    BY Sets
  <2>1. ASSUME NEW x \in N PROVE lo2[x] < x /\ x < hi2[x]
    <3>1. x \in Keys /\ lo[x] < x /\ x < hi[x]
      BY DEF Tree, Sorted
    <3> QED BY <1>8, <1>9, <2>0, <3>1
  <2>2. ASSUME NEW x \in Nodes, NEW f \in Dirs, Slot(N, x, f), ~(x = n /\ f = o), ~(x = r /\ f = d)
        PROVE  Lower(lo2, x, f) = Lower(lo, x, f) /\ Upper(hi2, x, f) = Upper(hi, x, f)
    <3>0. f \in {0, 1}
      BY Sets
    <3>1. CASE x = FalseRoot
      BY <3>1 DEF Lower, Upper
    <3>2. CASE x = n
      BY <1>2, <1>4, <1>8, <1>9, <2>0, <2>2, <3>0, <3>2 DEF Lower, Upper
    <3>3. CASE x = r
      BY <1>1, <1>2, <1>4, <1>8, <1>9, <2>0, <2>2, <3>0, <3>3 DEF Lower, Upper
    <3>4. CASE x # FalseRoot /\ x # n /\ x # r
      <4>1. x \in Keys
        BY <3>4 DEF Nodes
      <4> QED BY <1>8, <3>4, <4>1 DEF Lower, Upper
    <3> QED BY <3>1, <3>2, <3>3, <3>4
  <2>3. /\ Lower(lo2, n, o) = Lower(lo, r, d) /\ Upper(hi2, n, o) = Upper(hi, r, d)
        /\ Lower(lo2, r, d) = lo2[n] /\ Upper(hi2, r, d) = hi2[n]
    BY <1>1, <1>2, <1>8, <1>9, <2>0 DEF Lower, Upper
  <2>4. \A x \in N : x \notin {n, r} => lo2[x] = lo[x] /\ hi2[x] = hi[x]
    BY <1>2, <1>8
  <2>5. \A x \in Nodes, f \in Dirs : Slot(N, x, f) /\ u.child[x][f] # Null =>
           u.child[x][f] \in N /\
           lo[u.child[x][f]] = Lower(lo, x, f) /\ hi[u.child[x][f]] = Upper(hi, x, f)
    BY SlotFacts
  <2>6. \A x \in Nodes, f \in Dirs : Slot(N, x, f) /\ u.child[x][f] = Null =>
          \A k \in N : ~(Lower(lo, x, f) < k /\ k < Upper(hi, x, f))
    BY DEF Tree, Sorted
  <2>7. ASSUME NEW x \in Nodes, NEW f \in Dirs, Slot(N, x, f), v.child[x][f] # Null
        PROVE  lo2[v.child[x][f]] = Lower(lo2, x, f) /\ hi2[v.child[x][f]] = Upper(hi2, x, f)
    <3>1. CASE x = n /\ f = o
      <4>1. v.child[x][f] = c
        BY <1>3, <3>1
      <4>2. c \in N /\ lo[c] = Lower(lo, r, d) /\ hi[c] = Upper(hi, r, d)
        BY <1>2, <2>5, <2>7, <4>1 DEF c
      <4> QED BY <1>1, <2>3, <2>4, <3>1, <4>1, <4>2
    <3>2. CASE x = r /\ f = d
      <4>1. v.child[x][f] = n
        BY <1>1, <1>3, <3>2
      <4> QED BY <2>3, <3>2, <4>1
    <3>3. CASE x = m /\ f = e
      <4>1. v.child[x][f] = r
        BY <1>1, <1>3, <3>3
      <4>2. lo[n] = Lower(lo, m, e) /\ hi[n] = Upper(hi, m, e)
        BY <1>2, <2>5
      <4>3. lo2[r] = lo[n] /\ hi2[r] = hi[n]
        BY <1>1, <1>2, <1>8
      <4>4. Lower(lo2, m, e) = Lower(lo, m, e) /\ Upper(hi2, m, e) = Upper(hi, m, e)
        BY <1>1, <1>2, <2>2
      <4> QED BY <3>3, <4>1, <4>2, <4>3, <4>4
    <3>4. CASE ~(x = n /\ f = o) /\ ~(x = r /\ f = d) /\ ~(x = m /\ f = e)
      <4>1. v.child[x][f] = u.child[x][f]
        BY <1>3, <3>4
      <4>2. u.child[x][f] \in N /\ u.child[x][f] \notin {n, r}
        BY <1>5, <2>5, <2>7, <3>4, <4>1
      <4> QED BY <2>2, <2>4, <2>5, <2>7, <3>4, <4>1, <4>2
    <3> QED BY <3>1, <3>2, <3>3, <3>4
  <2>8. ASSUME NEW x \in Nodes, NEW f \in Dirs, Slot(N, x, f), v.child[x][f] = Null, NEW k \in N
        PROVE  ~(Lower(lo2, x, f) < k /\ k < Upper(hi2, x, f))
    <3>1. CASE x = n /\ f = o
      <4>1. u.child[r][d] = Null
        BY <1>3, <2>8, <3>1 DEF c
      <4> QED BY <1>2, <2>3, <2>6, <3>1, <4>1
    <3>2. ~(x = r /\ f = d) /\ ~(x = m /\ f = e)
      BY <1>1, <1>2, <1>3, <2>8
    <3>3. CASE ~(x = n /\ f = o)
      <4>1. u.child[x][f] = Null
        BY <1>3, <2>8, <3>2, <3>3
      <4> QED BY <2>2, <2>6, <2>8, <3>2, <3>3, <4>1
    <3> QED BY <3>1, <3>3
  <2> QED BY <2>1, <2>7, <2>8 DEF Sorted
<1> QED BY <1>2, <1>3, <1>7, <1>8, <1>10 DEF Tree, lo2, hi2, r

(* Rotate at n below (m, e), and what it does to a tree. *)
LEMMA TurnInTree ==
    ASSUME NEW u, NEW N, NEW lo, NEW hi, Tree(u, N, lo, hi),
           NEW m, NEW e, e \in Dirs, Slot(N, m, e), NEW n, n \in N, u.child[m][e] = n,
           NEW d, d \in Dirs, u.child[n][1 - d] # Null
    PROVE  IsTurned(Turned(u, m, e, n, d), u, m, e, n, d, 1 - d)
<1>1. 1 - d \in Dirs /\ 1 - d # d
  BY Sets
<1> DEFINE o == 1 - d
<1>2. o \in Dirs /\ o # d /\ u.child[n][o] # Null
  BY <1>1
<1> HIDE DEF o
<1>3. LET r == u.child[n][o]
          c == u.child[r][d]
      IN /\ r \in N /\ r # n /\ m # n /\ m # r /\ c \notin {n, r}
  BY <1>2, TurnApart
<1>4. m \in Nodes /\ u \in Links /\ N \subseteq Keys
  BY Sets DEF Tree, Slot, Nodes
<1>5. u.child[n][1 - d] \in Keys /\ n # u.child[n][1 - d] /\ m # n /\ m # u.child[n][1 - d]
      /\ u.child[u.child[n][1 - d]][d] \notin {n, u.child[n][1 - d]} /\ n \in Keys
  BY <1>3, <1>4 DEF o
<1> QED BY <1>4, <1>5, TurnFacts

(* Double rotation below m *)
TurnedTwice(u, m, e, n, d) == Hung(Rotate2(u, n, d), m, e, Top2(u, n, d))

(* v is u after a double rotation at n: the grandchild of n is above     *)
(* both now.                                                             *)
IsTurnedTwice(v, u, m, e, n, d, o) ==
    LET r == u.child[n][o]
        s == u.child[r][d]
    IN /\ v \in Links
       /\ \A x \in Nodes, f \in Dirs :
             v.child[x][f] = IF x = n /\ f = o THEN u.child[s][d]
                             ELSE IF x = r /\ f = d THEN u.child[s][o]
                             ELSE IF x = s THEN IF f = d THEN n ELSE r
                             ELSE IF x = m /\ f = e THEN s
                             ELSE u.child[x][f]
       /\ \A x \in Nodes :
             v.red[x] = IF x = s THEN FALSE ELSE IF x \in {n, r} THEN TRUE ELSE u.red[x]

(* double_rotate below m, and that it keeps the search tree. *)
LEMMA TwiceInTree ==
    ASSUME NEW u, NEW N, NEW lo, NEW hi, Tree(u, N, lo, hi),
           NEW m, NEW e, e \in Dirs, Slot(N, m, e), NEW n, n \in N, u.child[m][e] = n,
           NEW d, d \in Dirs, u.child[n][1 - d] # Null, u.child[u.child[n][1 - d]][d] # Null
    PROVE  LET r == u.child[n][1 - d]
               s == u.child[r][d]
           IN /\ IsTurnedTwice(TurnedTwice(u, m, e, n, d), u, m, e, n, d, 1 - d)
              /\ Tree(TurnedTwice(u, m, e, n, d), N,
                      LoTurned(LoTurned(lo, r, s, 1 - d), n, s, d),
                      HiTurned(HiTurned(hi, r, s, 1 - d), n, s, d))
              /\ {r, s} \subseteq N /\ r # s /\ r # n /\ s # n /\ m \notin {r, s, n}
<1> DEFINE o == 1 - d
           r == u.child[n][o]
           s == u.child[r][d]
           w == Turned(u, n, o, r, o)
           v == Turned(w, m, e, n, d)
           lo1 == LoTurned(lo, r, s, o)
           hi1 == HiTurned(hi, r, s, o)
<1>1. o \in Dirs /\ o # d /\ 1 - o = d /\ u.child[n][o] # Null /\ r # Null /\ s # Null
      /\ u.child[r][d] # Null /\ (\A f \in Dirs : f = d \/ f = o)
  BY Sets
<1>2. /\ r \in N /\ r # n /\ m # n /\ m # r /\ s \notin {n, r} /\ s # m /\ s \in N
  <2> HIDE DEF o
  <2> QED BY <1>1, TurnApart
<1>3. m \in Nodes /\ n \in Nodes /\ r \in Nodes /\ s \in Nodes /\ u \in Links /\ N \subseteq Keys
      /\ Slot(N, n, o) /\ Slot(N, r, d) /\ Slot(N, m, e)
  BY <1>2, Sets DEF Tree, Slot, Nodes
<1>4. TurnedTwice(u, m, e, n, d) = v
  <2> USE DEF TurnedTwice, Rotate2, Turned, Top, Top2
  <2>1. Rotate2(u, n, d) = Rotate(w, n, d)
    OBVIOUS
  <2>2. Top2(u, n, d) = s /\ Top(u, r, o) = s
    BY <1>1
  <2>3. Top(w, n, d) = s
    <3> DEFINE x == Rotate(u, r, o)
    <3>1. w = Hung(x, n, o, s)
      BY <2>2
    <3>2. IsTurned(w, u, n, o, r, o, d)
      <4> HIDE DEF Turned, o, r, s
      <4>1. u.child[r][1 - o] # Null
        BY <1>1
      <4>2. u.child[n][o] = r
        BY DEF r
      <4>3. IsTurned(Turned(u, n, o, r, o), u, n, o, r, o, 1 - o)
        BY <1>1, <1>2, <1>3, <4>1, <4>2, TurnInTree
      <4> QED BY <1>1, <4>3
    <3> HIDE DEF w, o, r
    <3>3. w.child[n][o] = u.child[r][d]
      BY <1>1, <1>2, <1>3, <3>2 DEF IsTurned
    <3> QED BY <3>3 DEF o
  <2> QED BY <2>1, <2>2, <2>3
<1> HIDE DEF o, r, s, w, v
<1>5. IsTurned(w, u, n, o, r, o, d)
  <2>1. u.child[r][1 - o] # Null
    BY <1>1
  <2>2. u.child[n][o] = r
    BY DEF r
  <2>3. IsTurned(Turned(u, n, o, r, o), u, n, o, r, o, 1 - o)
    BY <1>1, <1>2, <1>3, <2>1, <2>2, TurnInTree
  <2> QED BY <1>1, <2>3 DEF w
<1>6. Tree(w, N, lo1, hi1)
  <2>1. u.child[n][o] = r /\ d # o /\ d \in Dirs
    BY <1>1 DEF r
  <2>2. Tree(w, N, LoTurned(lo, r, u.child[r][d], o), HiTurned(hi, r, u.child[r][d], o))
    BY Zenon, <1>1, <1>2, <1>3, <1>5, <2>1, TurnTree
  <2> QED BY <2>2 DEF s
<1>7. /\ w \in Links
      /\ \A x \in Nodes, f \in Dirs :
             w.child[x][f] = IF x = r /\ f = d THEN u.child[s][o]
                             ELSE IF x = s /\ f = o THEN r
                             ELSE IF x = n /\ f = o THEN s
                             ELSE u.child[x][f]
      /\ \A x \in Nodes :
             w.red[x] = IF x = s THEN FALSE ELSE IF x = r THEN TRUE ELSE u.red[x]
  BY Zenon, <1>5 DEF IsTurned, s
<1>8. w.child[m][e] = n /\ w.child[n][o] = s /\ w.child[s][d] = u.child[s][d]
  BY <1>1, <1>2, <1>3, <1>7
<1> HIDE DEF lo1, hi1
<1>9. IsTurned(v, w, m, e, n, d, o)
  <2>1. w.child[n][1 - d] # Null
    BY <1>1, <1>8 DEF o
  <2>2. IsTurned(Turned(w, m, e, n, d), w, m, e, n, d, 1 - d)
    BY <1>6, <1>8, <2>1, TurnInTree
  <2> QED BY <2>2 DEF v, o
<1>10. Tree(v, N, LoTurned(lo1, n, s, d), HiTurned(hi1, n, s, d))
  <2>1. w.child[n][o] # Null
    BY <1>1, <1>8
  <2>2. Tree(v, N, LoTurned(lo1, n, w.child[n][o], d), HiTurned(hi1, n, w.child[n][o], d))
    BY Zenon, <1>1, <1>6, <1>8, <1>9, <2>1, TurnTree
  <2> QED BY <1>8, <2>2
<1>11. IsTurnedTwice(v, u, m, e, n, d, o)
  <2>1. /\ v \in Links
        /\ \A x \in Nodes, f \in Dirs :
             v.child[x][f] = IF x = n /\ f = o THEN u.child[s][d]
                             ELSE IF x = s /\ f = d THEN n
                             ELSE IF x = m /\ f = e THEN s
                             ELSE w.child[x][f]
        /\ \A x \in Nodes :
             v.red[x] = IF x = s THEN FALSE ELSE IF x = n THEN TRUE ELSE w.red[x]
    <3>1. \A x \in Nodes :
             v.red[x] = IF x = w.child[n][o] THEN FALSE ELSE IF x = n THEN TRUE ELSE w.red[x]
      BY Zenon, <1>9 DEF IsTurned
    <3>2. \A x \in Nodes :
             v.red[x] = IF x = s THEN FALSE ELSE IF x = n THEN TRUE ELSE w.red[x]
      BY Zenon, <1>8, <3>1
    <3>3. /\ v \in Links
          /\ \A x \in Nodes, f \in Dirs :
             v.child[x][f] = IF x = n /\ f = o THEN w.child[w.child[n][o]][d]
                             ELSE IF x = w.child[n][o] /\ f = d THEN n
                             ELSE IF x = m /\ f = e THEN w.child[n][o]
                             ELSE w.child[x][f]
      BY <1>9 DEF IsTurned
    <3> QED BY ZenonT(40), <1>8, <3>2, <3>3
  <2>2. \A x \in Nodes, f \in Dirs :
             v.child[x][f] = IF x = n /\ f = o THEN u.child[s][d]
                             ELSE IF x = r /\ f = d THEN u.child[s][o]
                             ELSE IF x = s THEN IF f = d THEN n ELSE r
                             ELSE IF x = m /\ f = e THEN s
                             ELSE u.child[x][f]
    BY <1>1, <1>2, <1>7, <2>1
  <2>3. \A x \in Nodes :
             v.red[x] = IF x = s THEN FALSE ELSE IF x \in {n, r} THEN TRUE ELSE u.red[x]
    <3> SUFFICES ASSUME NEW x \in Nodes
                 PROVE  v.red[x] = IF x = s THEN FALSE ELSE IF x \in {n, r} THEN TRUE ELSE u.red[x]
      BY Zenon
    <3>1. v.red[x] = IF x = s THEN FALSE ELSE IF x = n THEN TRUE ELSE w.red[x]
      BY Zenon, <2>1
    <3>2. w.red[x] = IF x = s THEN FALSE ELSE IF x = r THEN TRUE ELSE u.red[x]
      BY Zenon, <1>7
    <3> QED BY Zenon, <3>1, <3>2
  <2> QED BY Zenon, <2>1, <2>2, <2>3 DEF IsTurnedTwice, r, s
<1> QED BY <1>2, <1>4, <1>10, <1>11 DEF o, r, s, lo1, hi1

(* Numbers of black nodes *)
Heights == [Keys \cup {Null} -> Nat]

(* What Even says of the node x *)
Level(u, bh, x) == /\ bh[u.child[x][0]] = bh[u.child[x][1]]
                   /\ bh[x] = bh[u.child[x][0]] + IF u.red[x] THEN 0 ELSE 1

(* A node hangs at one place only, for every place. *)
LEMMA OnlyThere ==
    ASSUME NEW u, NEW N, NEW lo, NEW hi, Tree(u, N, lo, hi),
           NEW m, NEW e, e \in Dirs, Slot(N, m, e), u.child[m][e] # Null
    PROVE  \A x \in Nodes, f \in Dirs : Slot(N, x, f) /\ u.child[x][f] = u.child[m][e] => x = m /\ f = e
BY OnePlace

(* The types of what the proofs about colours mention. *)
LEMMA Children ==
    ASSUME NEW u, NEW N, NEW lo, NEW hi, Tree(u, N, lo, hi), NEW bh, bh \in Heights
    PROVE  /\ \A x \in N : x \in Nodes /\ x \in Keys /\ x # Null /\ x # FalseRoot /\ bh[x] \in Nat
           /\ \A x \in N, f \in Dirs : Slot(N, x, f) /\ u.child[x][f] \in N \cup {Null}
                                       /\ u.child[x][f] \in Refs /\ bh[u.child[x][f]] \in Nat
           /\ \A x \in Nodes : u.red[x] \in BOOLEAN
           /\ 0 \in Dirs /\ 1 \in Dirs /\ bh[Null] \in Nat
<1>1. \A x \in N, f \in Dirs : Slot(N, x, f) /\ u.child[x][f] \in N \cup {Null}
  BY Sets DEF Tree, Linked, Slot, Nodes
<1>2. \A x \in N \cup {Null} : bh[x] \in Nat /\ x \in Refs
  BY Sets DEF Tree, Heights, Refs, Nodes
<1> QED BY <1>1, <1>2, Sets DEF Tree, Links

(* A single rotation below a black node n that brings up a red child     *)
(* keeps the black heights.                                              *)
LEMMA TurnEven ==
    ASSUME NEW u, NEW N, NEW lo, NEW hi, Tree(u, N, lo, hi), NEW bh, bh \in Heights, Even(u, N, bh),
           NEW m, NEW e, e \in Dirs, Slot(N, m, e), NEW n, n \in N, u.child[m][e] = n,
           NEW d, d \in Dirs, NEW o, o \in Dirs, o # d, u.child[n][o] # Null,
           ~u.red[n], u.red[u.child[n][o]],
           NEW v, IsTurned(v, u, m, e, n, d, o)
    PROVE  LET r == u.child[n][o]
               bh2 == [bh EXCEPT ![r] = bh[n], ![n] = bh[r]]
           IN bh2 \in Heights /\ Even(v, N, bh2)
<1> DEFINE r == u.child[n][o]
           c == u.child[r][d]
           bh2 == [bh EXCEPT ![r] = bh[n], ![n] = bh[r]]
<1>1. /\ r \in N /\ r # n /\ m # n /\ m # r /\ c # n /\ c # r /\ c # m /\ c \in N \cup {Null}
  BY TurnApart
<1>2. \A x \in N, f \in Dirs : /\ u.child[x][f] = n => x = m /\ f = e
                               /\ u.child[x][f] = r => x = n /\ f = o
  <2>1. Slot(N, n, o) /\ u.child[n][o] # Null /\ u.child[m][e] # Null
    BY Children DEF Slot
  <2> QED BY <2>1, OnlyThere, Children
<1>3. bh2 \in Heights /\ bh2[n] = bh[r] /\ bh2[r] = bh[n] /\ \A x \in Keys \cup {Null} : x \notin {n, r} => bh2[x] = bh[x]
  <2>1. r \in Keys /\ n \in Keys /\ bh[r] \in Nat /\ bh[n] \in Nat
    BY <1>1, Children
  <2> HIDE DEF r
  <2> QED BY <1>1, <2>1 DEF Heights
<1>4. \A f \in Dirs : f = d \/ f = o
  BY Sets
<1>5. \A x \in N : Level(u, bh, x)
  BY DEF Even, Level
<1>6. /\ v.child[n][o] = c /\ v.child[n][d] = u.child[n][d]
      /\ v.child[r][d] = n /\ v.child[r][o] = u.child[r][o]
      /\ v.red[r] = FALSE /\ v.red[n] = TRUE
  <2>1. n \in Nodes /\ r \in Nodes
    BY <1>1, Children
  <2>2. v.red[r] = FALSE
    BY <1>1, <2>1, Zenon DEF IsTurned
  <2>3. v.red[n] = TRUE
    BY <1>1, <2>1, Zenon DEF IsTurned
  <2>4. /\ v.child[n][o] = c /\ v.child[n][d] = u.child[n][d]
        /\ v.child[r][d] = n /\ v.child[r][o] = u.child[r][o]
    BY <1>1, <2>1 DEF IsTurned
  <2> QED BY <2>2, <2>3, <2>4
<1> HIDE DEF bh2, c
<1>7. Level(v, bh2, n)
  <2>1. Level(u, bh, n) /\ Level(u, bh, r) /\ ~u.red[n] /\ u.red[r]
    BY <1>1, <1>5
  <2>2. bh[r] = bh[c] /\ bh[r] = bh[u.child[n][d]] /\ bh[n] = bh[r] + 1
    <3>1. u.child[n][o] = r
      OBVIOUS
    <3> QED BY <1>1, <2>1, <3>1, Sets, Children DEF Level, c
  <2>3. bh2[c] = bh[c] /\ bh2[u.child[n][d]] = bh[u.child[n][d]]
    <3>1. u.child[n][d] \notin {n, r} /\ u.child[n][d] \in Keys \cup {Null} /\ c \in Keys \cup {Null}
      BY <1>1, <1>2, Children
    <3> QED BY <1>1, <1>3, <3>1
  <2> QED BY <1>3, <1>6, <2>2, <2>3, Sets, Children DEF Level
<1>8. Level(v, bh2, r)
  <2>1. Level(u, bh, n) /\ Level(u, bh, r) /\ ~u.red[n] /\ u.red[r]
    BY <1>1, <1>5
  <2>2. bh[r] = bh[u.child[r][o]] /\ bh[n] = bh[r] + 1
    <3>1. u.child[n][o] = r
      OBVIOUS
    <3> QED BY <1>1, <2>1, <3>1, Sets, Children DEF Level
  <2>3. bh2[u.child[r][o]] = bh[u.child[r][o]]
    <3>1. u.child[r][o] \notin {n, r} /\ u.child[r][o] \in Keys \cup {Null}
      BY <1>1, <1>2, Children
    <3> QED BY <1>3, <3>1
  <2> QED BY SMTT(30), <1>1, <1>3, <1>6, <2>2, <2>3, Sets, Children DEF Level
<1>9. ASSUME NEW x \in N, x \notin {n, r} PROVE Level(v, bh2, x)
  <2>1. x \in Nodes /\ v.red[x] = u.red[x] /\ bh2[x] = bh[x]
    BY Zenon, <1>3, <1>9, Children DEF IsTurned
  <2>2. ASSUME NEW f \in Dirs PROVE bh2[v.child[x][f]] = bh[u.child[x][f]]
    <3>1. CASE x = m /\ f = e
      <4>1. v.child[x][f] = r
        BY <1>1, <1>9, <2>1, <3>1 DEF IsTurned
      <4> QED BY <1>3, <3>1, <4>1
    <3>2. CASE ~(x = m /\ f = e)
      <4>1. v.child[x][f] = u.child[x][f]
        BY <1>9, <2>1, <3>2 DEF IsTurned
      <4>2. u.child[x][f] \notin {n, r} /\ u.child[x][f] \in Keys \cup {Null}
        BY <1>2, <1>9, <3>2, Children
      <4> QED BY <1>3, <4>1, <4>2
    <3> QED BY <3>1, <3>2
  <2>3. Level(u, bh, x)
    BY <1>5
  <2> QED BY <2>1, <2>2, <2>3, Children DEF Level
<1>10. bh2[Null] = 0
  BY <1>1, <1>3, Children DEF Even
<1>11. Even(v, N, bh2)
  BY <1>7, <1>8, <1>9, <1>10 DEF Even, Level
<1> QED BY <1>3, <1>11 DEF bh2

(* After a single rotation no red node has a red child, if the two nodes *)
(* that change places have none that would be.                           *)
LEMMA TurnCool ==
    ASSUME NEW u, NEW N, NEW lo, NEW hi, Tree(u, N, lo, hi),
           NEW m, NEW e, e \in Dirs, Slot(N, m, e), NEW n, n \in N, u.child[m][e] = n,
           NEW d, d \in Dirs, NEW o, o \in Dirs, o # d, u.child[n][o] # Null,
           ~u.red[FalseRoot],
           \A x \in N, f \in Dirs : x # u.child[n][o] /\ u.red[x] => ~Red(u, u.child[x][f]),
           ~Red(u, u.child[n][d]), ~Red(u, u.child[u.child[n][o]][d]),
           NEW v, IsTurned(v, u, m, e, n, d, o)
    PROVE  Cool(v, N)
<1> DEFINE r == u.child[n][o]
           c == u.child[r][d]
<1>1. /\ r \in N /\ r # n /\ m # n /\ m # r /\ c # n /\ c # r /\ c # m /\ c \in N \cup {Null}
  BY TurnApart
<1>2. \A f \in Dirs : f = d \/ f = o
  BY Sets
<1>3. N \subseteq Keys /\ N \subseteq Nodes /\ FalseRoot \notin N /\ FalseRoot \in Nodes /\ Null \notin N
      /\ \A x \in N, f \in Dirs : Slot(N, x, f) /\ u.child[x][f] \in N \cup {Null}
  BY Sets DEF Tree, Linked, Slot, Nodes
<1>4. /\ \A x \in Nodes, f \in Dirs :
             v.child[x][f] = IF x = n /\ f = o THEN c
                             ELSE IF x = r /\ f = d THEN n
                             ELSE IF x = m /\ f = e THEN r
                             ELSE u.child[x][f]
      /\ \A x \in Nodes :
             v.red[x] = IF x = r THEN FALSE ELSE IF x = n THEN TRUE ELSE u.red[x]
  BY Zenon DEF IsTurned
<1>5. ~v.red[FalseRoot]
  BY Zenon, <1>1, <1>3, <1>4
<1>6. \A y \in N \cup {Null} : y # n /\ ~Red(u, y) => ~Red(v, y)
  BY Zenon, <1>1, <1>3, <1>4 DEF Red
<1> HIDE DEF r, c
<1>7. ASSUME NEW x \in N, NEW f \in Dirs, v.red[x] PROVE ~Red(v, v.child[x][f])
  <2>1. x # r
    BY Zenon, <1>3, <1>4, <1>7
  <2>2. CASE x = n
    <3>1. CASE f = o
      BY <1>1, <1>3, <1>4, <1>6, <2>2, <3>1 DEF c, r
    <3>2. CASE f = d
      <4>1. v.child[x][f] = u.child[n][d]
        BY <1>1, <1>3, <1>4, <2>2, <3>2
      <4>2. u.child[n][d] # n
        <5>1. u.child[n][d] # Null => u.child[n][d] # n
          BY Nested
        <5> QED BY <1>3, <5>1
      <4> QED BY <1>3, <1>6, <4>1, <4>2
    <3> QED BY <1>2, <3>1, <3>2
  <2>3. CASE x # n
    <3>1. u.red[x]
      BY Zenon, <1>3, <1>4, <1>7, <2>1, <2>3
    <3>2. CASE x = m /\ f = e
      <4>1. v.child[x][f] = r
        BY <1>1, <1>3, <1>4, <3>2
      <4>2. ~v.red[r]
        BY Zenon, <1>1, <1>3, <1>4
      <4> QED BY <4>1, <4>2 DEF Red
    <3>3. CASE ~(x = m /\ f = e)
      <4>1. v.child[x][f] = u.child[x][f]
        BY <1>3, <1>4, <2>1, <2>3, <3>3
      <4>2. u.child[x][f] # n
        <5>1. u.child[m][e] # Null
          BY <1>3
        <5> QED BY <1>3, <3>3, <5>1, OnlyThere
      <4>3. ~Red(u, u.child[x][f])
        BY <2>1, <3>1 DEF r
      <4> QED BY <1>3, <1>6, <4>1, <4>2, <4>3
    <3> QED BY <3>2, <3>3
  <2> QED BY <2>2, <2>3
<1> QED BY <1>5, <1>7 DEF Cool

(* No key between those around n hangs above n. *)
LEMMA Above ==
    ASSUME NEW u, NEW N, NEW lo, NEW hi, Tree(u, N, lo, hi),
           NEW m, NEW e, e \in Dirs, Slot(N, m, e), u.child[m][e] # Null,
           NEW x, x \in N, lo[u.child[m][e]] <= lo[x], hi[x] <= hi[u.child[m][e]]
    PROVE  x # m
<1>1. CASE m = FalseRoot
  BY <1>1, Sets DEF Tree
<1>2. CASE m \in N
  <2> DEFINE n == u.child[m][e]
  <2>1. /\ {n, m, lo[n], hi[n]} \subseteq Int /\ (e = 0 => hi[n] = m) /\ (e = 1 => lo[n] = m) /\ e \in {0, 1}
    BY <1>2, Nested, Sets
  <2>2. lo[x] < x /\ x < hi[x] /\ {x, lo[x], hi[x]} \subseteq Int
    BY Sets DEF Tree, Sorted
  <2> HIDE DEF n
  <2>3. lo[n] <= lo[x] /\ hi[x] <= hi[n]
    BY DEF n
  <2> QED BY <2>1, <2>2, <2>3
<1> QED BY <1>1, <1>2 DEF Slot

(* Which nodes are around n, and that they hang nowhere else. *)
Kin(u, N, m, e, n, d, o) ==
    LET r == u.child[n][o]
        q == u.child[n][d]
        c == u.child[r][d]
        a == u.child[r][o]
    IN /\ {n, r} \subseteq N /\ {q, c, a} \subseteq N \cup {Null}
       /\ m \notin {n, r, q, c, a} /\ n # r
       /\ q \notin {n, r} /\ c \notin {n, r} /\ a \notin {n, r}
       /\ q # Null => q # c /\ q # a
       /\ c # Null => c # a
       /\ \A x \in N, f \in Dirs :
             /\ u.child[x][f] = n => x = m /\ f = e
             /\ u.child[x][f] = r => x = n /\ f = o
             /\ q # Null /\ u.child[x][f] = q => x = n /\ f = d
             /\ c # Null /\ u.child[x][f] = c => x = r /\ f = d
             /\ a # Null /\ u.child[x][f] = a => x = r /\ f = o

(* The nodes below n, with d the one side and o the other, are different    *)
(* ones and hang nowhere else.                                             *)
LEMMA Family ==
    ASSUME NEW u, NEW N, NEW lo, NEW hi, Tree(u, N, lo, hi),
           NEW m, NEW e, e \in Dirs, Slot(N, m, e), NEW n, n \in N, u.child[m][e] = n,
           NEW d, d \in Dirs, NEW o, o \in Dirs, o # d, u.child[n][o] # Null
    PROVE  Kin(u, N, m, e, n, d, o)
<1> DEFINE r == u.child[n][o]
           q == u.child[n][d]
           c == u.child[r][d]
           a == u.child[r][o]
<1>0. N \subseteq Keys /\ N \subseteq Nodes /\ FalseRoot \notin N /\ Null \notin N /\ m # Null
      /\ \A x \in N, f \in Dirs : Slot(N, x, f) /\ x \in Nodes /\ u.child[x][f] \in N \cup {Null}
  BY Sets DEF Tree, Linked, Slot, Nodes
<1>1. r \in N /\ q \in N \cup {Null} /\ c \in N \cup {Null} /\ a \in N \cup {Null}
  BY <1>0
<1>2. \A x \in N, f \in Dirs : LET y == u.child[x][f] IN
        y # Null => y \in N /\ y # x /\ lo[x] <= lo[y] /\ hi[y] <= hi[x] /\ {lo[x], lo[y], hi[x], hi[y]} \subseteq Int
                    /\ lo[y] < y /\ y < hi[y] /\ y \in Int /\ x \in Int
                    /\ (f = 0 => hi[y] = x) /\ (f = 1 => lo[y] = x)
  BY Nested
<1>3. \A x \in N, f \in Dirs, y \in Nodes, g \in Dirs :
         Slot(N, y, g) /\ u.child[y][g] # Null /\ u.child[x][f] = u.child[y][g] => x = y /\ f = g
  BY <1>0, OnePlace
<1>4. m \in Nodes /\ u.child[m][e] # Null
  BY <1>0, Sets DEF Slot
<1>5. \A x \in N : lo[n] <= lo[x] /\ hi[x] <= hi[n] => x # m
  BY <1>4, Above
<1>6. lo[n] \in Int /\ hi[n] \in Int /\ r # Null /\ u.child[n][o] = r /\ u.child[n][d] = q
      /\ u.child[r][d] = c /\ u.child[r][o] = a
  BY <1>1, <1>2
<1> HIDE DEF r, q, c, a
<1>7. /\ r # n /\ lo[n] <= lo[r] /\ hi[r] <= hi[n] /\ {lo[r], hi[r]} \subseteq Int
  BY <1>2, <1>6
<1>8. q # Null => q # n /\ q # m
  BY <1>2, <1>5, <1>6
<1>9. ASSUME NEW f \in Dirs, u.child[r][f] # Null PROVE u.child[r][f] \notin {r, n, m}
  <2> DEFINE y == u.child[r][f]
  <2>1. y \in N /\ y # r /\ lo[r] <= lo[y] /\ hi[y] <= hi[r] /\ {lo[y], hi[y], y, n} \subseteq Int
        /\ lo[y] < y /\ y < hi[y]
    BY <1>1, <1>2, <1>9
  <2>2. (o = 0 => hi[r] = n) /\ (o = 1 => lo[r] = n) /\ o \in {0, 1}
    BY <1>2, <1>6, Sets
  <2> HIDE DEF y
  <2>3. lo[n] <= lo[y] /\ hi[y] <= hi[n]
    BY <1>6, <1>7, <2>1
  <2>4. y # m
    BY <1>5, <2>1, <2>3
  <2>5. y # n
    BY <1>7, <2>1, <2>2
  <2> QED BY <2>1, <2>4, <2>5 DEF y
<1>10. c # Null => c \notin {r, n, m}
  BY <1>6, <1>9
<1>11. a # Null => a \notin {r, n, m}
  BY <1>6, <1>9
<1>12. \A x \in N, f \in Dirs :
                    /\ u.child[x][f] = n => x = m /\ f = e
                    /\ u.child[x][f] = r => x = n /\ f = o
                    /\ q # Null /\ u.child[x][f] = q => x = n /\ f = d
                    /\ c # Null /\ u.child[x][f] = c => x = r /\ f = d
                    /\ a # Null /\ u.child[x][f] = a => x = r /\ f = o
  BY <1>0, <1>1, <1>3, <1>4, <1>6
<1>13. m # r
  BY <1>1, <1>5, <1>7
<1>14. m # n
  BY <1>5, <1>6
<1>15. q # r
  BY <1>6, <1>12
<1>16. q # Null => q # c /\ q # a
  BY <1>1, <1>6, <1>7, <1>12
<1>17. c # Null => c # a
  BY <1>1, <1>6, <1>12
<1>18. n # Null /\ r # Null
  BY <1>0, <1>1
<1> QED BY <1>0, <1>1, <1>7, <1>8, <1>10, <1>11, <1>12, <1>13, <1>14, <1>15, <1>16, <1>17, <1>18 DEF Kin, r, q, c, a

(* insert: q, red and below a red node, comes to the top, above both. *)
LEMMA TwiceEven ==
    ASSUME NEW u, NEW N, NEW lo, NEW hi, Tree(u, N, lo, hi), NEW bh, bh \in Heights, Even(u, N, bh),
           NEW m, NEW e, e \in Dirs, Slot(N, m, e), NEW n, n \in N, u.child[m][e] = n,
           NEW d, d \in Dirs, NEW o, o \in Dirs, o # d, u.child[n][o] # Null,
           u.child[u.child[n][o]][d] # Null,
           ~u.red[n], u.red[u.child[n][o]], u.red[u.child[u.child[n][o]][d]],
           NEW v, IsTurnedTwice(v, u, m, e, n, d, o)
    PROVE  LET r == u.child[n][o]
               s == u.child[r][d]
               bh2 == [bh EXCEPT ![s] = bh[n], ![n] = bh[r]]
           IN bh2 \in Heights /\ Even(v, N, bh2)
<1> DEFINE r == u.child[n][o]
           s == u.child[r][d]
           bh2 == [bh EXCEPT ![s] = bh[n], ![n] = bh[r]]
<1>1. /\ {n, r, s} \subseteq N /\ m \notin {n, r, s} /\ n # r /\ s \notin {n, r}
      /\ \A x \in N, f \in Dirs :
            /\ u.child[x][f] = n => x = m /\ f = e
            /\ u.child[x][f] = r => x = n /\ f = o
            /\ u.child[x][f] = s => x = r /\ f = d
  BY SMTT(30), Family DEF Kin
<1>2. \A f \in Dirs : f = d \/ f = o
  BY Sets
<1>3. \A x \in N : Level(u, bh, x)
  BY DEF Even, Level
<1>4. u.child[n][o] = r /\ u.child[r][d] = s /\ ~u.red[n] /\ u.red[r] /\ u.red[s]
  OBVIOUS
<1>5. /\ \A x \in Nodes, f \in Dirs :
             v.child[x][f] = IF x = n /\ f = o THEN u.child[s][d]
                             ELSE IF x = r /\ f = d THEN u.child[s][o]
                             ELSE IF x = s THEN IF f = d THEN n ELSE r
                             ELSE IF x = m /\ f = e THEN s
                             ELSE u.child[x][f]
      /\ \A x \in Nodes :
             v.red[x] = IF x = s THEN FALSE ELSE IF x \in {n, r} THEN TRUE ELSE u.red[x]
  BY Zenon DEF IsTurnedTwice
<1> HIDE DEF r, s
<1>6. bh2 \in Heights /\ bh2[n] = bh[r] /\ bh2[s] = bh[n] /\ \A x \in Keys \cup {Null} : x \notin {n, s} => bh2[x] = bh[x]
  <2>1. s \in Keys /\ n \in Keys /\ bh[r] \in Nat /\ bh[n] \in Nat
    BY <1>1, Children
  <2> QED BY <1>1, <2>1 DEF Heights
<1> HIDE DEF bh2
<1>7. \A x \in N, f \in Dirs : x \notin {m, r} /\ ~(x = m /\ f = e) => bh2[u.child[x][f]] = bh[u.child[x][f]]
  <2>1. \A x \in N, f \in Dirs : u.child[x][f] \in Keys \cup {Null}
    BY Children
  <2> QED BY <1>1, <1>6, <2>1
<1>8. bh2[u.child[r][o]] = bh[u.child[r][o]]
  <2>1. u.child[r][o] \in Keys \cup {Null}
    BY <1>1, Children
  <2>2. u.child[r][o] # s /\ u.child[r][o] # n
    BY <1>1
  <2> QED BY <1>6, <2>1, <2>2
<1>9. /\ v.child[n][o] = u.child[s][d] /\ v.child[n][d] = u.child[n][d]
      /\ v.child[r][d] = u.child[s][o] /\ v.child[r][o] = u.child[r][o]
      /\ v.child[s][d] = n /\ v.child[s][o] = r
  <2>1. {n, r, s} \subseteq Nodes
    BY <1>1, Children
  <2> QED BY <1>1, <1>5, <2>1
<1>10. v.red[n] /\ v.red[r] /\ ~v.red[s]
  <2>1. {n, r, s} \subseteq Nodes
    BY <1>1, Children
  <2> QED BY Zenon, <1>1, <1>5, <2>1
<1>11. /\ bh[r] = bh[s] /\ bh[n] = bh[r] + 1 /\ bh[u.child[n][d]] = bh[r] /\ bh[u.child[r][o]] = bh[r]
       /\ bh[u.child[s][d]] = bh[r] /\ bh[u.child[s][o]] = bh[r] /\ bh[r] \in Nat
  <2>1. Level(u, bh, n) /\ Level(u, bh, r) /\ Level(u, bh, s)
    BY <1>1, <1>3
  <2>2. d \in {0, 1} /\ o \in {0, 1} /\ bh[r] \in Nat /\ bh[s] \in Nat
    BY <1>1, Children, Sets
  <2> QED BY <1>1, <1>4, <2>1, <2>2, Children DEF Level
<1>12. Level(v, bh2, n)
  <2>1. bh2[u.child[s][d]] = bh[u.child[s][d]] /\ bh2[u.child[n][d]] = bh[u.child[n][d]]
    BY <1>1, <1>7
  <2> QED BY <1>2, <1>6, <1>9, <1>10, <1>11, <2>1, Sets DEF Level
<1>13. Level(v, bh2, r)
  <2>1. bh2[u.child[s][o]] = bh[u.child[s][o]] /\ bh2[r] = bh[r]
    BY <1>1, <1>6, <1>7, Children
  <2> QED BY <1>2, <1>8, <1>9, <1>10, <1>11, <2>1, Sets DEF Level
<1>14. Level(v, bh2, s)
  <2>1. bh2[r] = bh[r]
    BY <1>1, <1>6, Children
  <2> QED BY <1>2, <1>6, <1>9, <1>10, <1>11, <2>1, Sets DEF Level
<1>15. ASSUME NEW x \in N, x \notin {n, r, s} PROVE Level(v, bh2, x)
  <2>1. x \in Nodes /\ bh2[x] = bh[x]
    BY <1>6, <1>15, Children
  <2>2. v.red[x] = u.red[x]
    BY Zenon, <1>5, <1>15, <2>1
  <2>3. ASSUME NEW f \in Dirs PROVE bh2[v.child[x][f]] = bh[u.child[x][f]]
    <3>1. CASE x = m /\ f = e
      <4>1. v.child[x][f] = s /\ u.child[x][f] = n
        BY <1>5, <1>15, <2>1, <3>1
      <4> QED BY <1>6, <4>1
    <3>2. CASE ~(x = m /\ f = e)
      <4>1. v.child[x][f] = u.child[x][f]
        BY <1>5, <1>15, <2>1, <3>2
      <4>2. u.child[x][f] \notin {n, s} /\ u.child[x][f] \in Keys \cup {Null}
        BY <1>1, <1>15, <3>2, Children
      <4> QED BY <1>6, <4>1, <4>2
    <3> QED BY <3>1, <3>2
  <2>4. Level(u, bh, x)
    BY <1>3
  <2> QED BY <2>1, <2>2, <2>3, <2>4, Children DEF Level
<1>16. bh2[Null] = 0
  BY <1>1, <1>6, Children DEF Even
<1>17. Even(v, N, bh2)
  BY <1>12, <1>13, <1>14, <1>15, <1>16 DEF Even, Level
<1> QED BY <1>6, <1>17 DEF bh2, r, s

(* w is u with the nodes R painted red, then the nodes B black. *)
Recoloured(w, u, B, R) ==
    \A x \in Nodes : w.red[x] <=> x \notin B /\ (x \in R \/ u.red[x])

(* remove, below n: on side d a black node without a red child, on side o  *)
(* a black one; n is red, or the root.                                     *)
Lending(u, m, n, d, o) ==
    LET q == u.child[n][d]
        r == u.child[n][o]
    IN /\ q # Null /\ ~u.red[q] /\ \A f \in Dirs : ~Red(u, u.child[q][f])
       /\ r # Null /\ ~u.red[r]
       /\ m = FalseRoot \/ u.red[n]

(* Painting keeps the search tree. *)
LEMMA PaintTree ==
    ASSUME NEW u, NEW N, NEW lo, NEW hi, Tree(u, N, lo, hi),
           NEW w, w \in Links, w.child = u.child, w.parent = u.parent
    PROVE  Tree(w, N, lo, hi)
BY DEF Tree, Linked, Sorted

(* After a double rotation no red node has a red child. *)
LEMMA TwiceCool ==
    ASSUME NEW u, NEW N, NEW lo, NEW hi, Tree(u, N, lo, hi),
           NEW m, NEW e, e \in Dirs, Slot(N, m, e), NEW n, n \in N, u.child[m][e] = n,
           NEW d, d \in Dirs, NEW o, o \in Dirs, o # d, u.child[n][o] # Null,
           u.child[u.child[n][o]][d] # Null, u.red[u.child[u.child[n][o]][d]],
           ~u.red[FalseRoot],
           \A x \in N, f \in Dirs : x # u.child[n][o] /\ u.red[x] => ~Red(u, u.child[x][f]),
           ~Red(u, u.child[n][d]), ~Red(u, u.child[u.child[n][o]][o]),
           NEW v, IsTurnedTwice(v, u, m, e, n, d, o)
    PROVE  Cool(v, N)
<1> DEFINE r == u.child[n][o]
           s == u.child[r][d]
<1>1. /\ {n, r, s} \subseteq N /\ m \notin {n, r, s} /\ n # r /\ s \notin {n, r}
      /\ \A x \in N, f \in Dirs :
            /\ u.child[x][f] = n => x = m /\ f = e
            /\ u.child[x][f] = r => x = n /\ f = o
            /\ u.child[x][f] = s => x = r /\ f = d
  BY SMTT(30), Family DEF Kin
<1>2. \A f \in Dirs : f = d \/ f = o
  BY Sets
<1>3. N \subseteq Nodes /\ FalseRoot \notin N /\ FalseRoot \in Nodes /\ Null \notin N
      /\ \A x \in N, f \in Dirs : u.child[x][f] \in N \cup {Null}
  BY Sets DEF Tree, Linked, Slot, Nodes
<1>4. ~Red(u, u.child[n][d]) /\ ~Red(u, u.child[r][o])
      /\ \A x \in N, f \in Dirs : x # r /\ u.red[x] => ~Red(u, u.child[x][f])
  OBVIOUS
<1>5. \A f \in Dirs : ~Red(u, u.child[s][f])
  BY <1>1, <1>4
<1>6. /\ \A x \in Nodes, f \in Dirs :
             v.child[x][f] = IF x = n /\ f = o THEN u.child[s][d]
                             ELSE IF x = r /\ f = d THEN u.child[s][o]
                             ELSE IF x = s THEN IF f = d THEN n ELSE r
                             ELSE IF x = m /\ f = e THEN s
                             ELSE u.child[x][f]
      /\ \A x \in Nodes :
             v.red[x] = IF x = s THEN FALSE ELSE IF x \in {n, r} THEN TRUE ELSE u.red[x]
  BY Zenon DEF IsTurnedTwice
<1> HIDE DEF r, s
<1>7. ~v.red[FalseRoot] /\ ~v.red[s]
  BY ZenonT(40), <1>1, <1>3, <1>6
<1>8. \A y \in N \cup {Null} : y \notin {n, r} /\ ~Red(u, y) => ~Red(v, y)
  BY Zenon, <1>1, <1>3, <1>6 DEF Red
<1>9. ASSUME NEW x \in N, NEW f \in Dirs, v.red[x] PROVE ~Red(v, v.child[x][f])
  <2>1. x # s
    BY <1>7, <1>9
  <2>2. CASE x = n
    <3>1. v.child[n][o] = u.child[s][d] /\ v.child[n][d] = u.child[n][d]
      BY <1>1, <1>3, <1>6
    <3>2. u.child[s][d] \notin {n, r} /\ u.child[n][d] \notin {n, r}
      BY <1>1
    <3> QED BY <1>1, <1>2, <1>3, <1>4, <1>5, <1>8, <2>2, <3>1, <3>2
  <2>3. CASE x = r
    <3>1. v.child[r][o] = u.child[r][o] /\ v.child[r][d] = u.child[s][o]
      BY <1>1, <1>3, <1>6
    <3>2. u.child[s][o] \notin {n, r} /\ u.child[r][o] \notin {n, r}
      BY <1>1
    <3> QED BY <1>1, <1>2, <1>3, <1>4, <1>5, <1>8, <2>3, <3>1, <3>2
  <2>4. CASE x \notin {n, r}
    <3>1. u.red[x]
      BY Zenon, <1>3, <1>6, <1>9, <2>1, <2>4
    <3>2. CASE x = m /\ f = e
      <4>1. v.child[x][f] = s
        BY <1>1, <1>3, <1>6, <3>2
      <4> QED BY <1>7, <4>1 DEF Red
    <3>3. CASE ~(x = m /\ f = e)
      <4>1. v.child[x][f] = u.child[x][f]
        BY <1>3, <1>6, <2>1, <2>4, <3>3
      <4>2. u.child[x][f] \notin {n, r}
        BY <1>1, <2>4, <3>3
      <4> QED BY <1>3, <1>4, <1>8, <2>4, <3>1, <4>1, <4>2
    <3> QED BY <3>2, <3>3
  <2> QED BY <2>2, <2>3, <2>4
<1> QED BY <1>7, <1>9 DEF Cool

(* remove: the sibling r of q, black, has a red child on the far side. *)
LEMMA BorrowOnce ==
    ASSUME NEW u, NEW N, NEW lo, NEW hi, Tree(u, N, lo, hi), NEW bh, bh \in Heights, Even(u, N, bh),
           Cool(u, N),
           NEW m, NEW e, e \in Dirs, Slot(N, m, e), NEW n, n \in N, u.child[m][e] = n,
           NEW d, d \in Dirs, NEW o, o \in Dirs, o # d, Lending(u, m, n, d, o),
           ~Red(u, u.child[u.child[n][o]][d]), Red(u, u.child[u.child[n][o]][o]),
           NEW v, IsTurned(v, u, m, e, n, d, o),
           NEW w, w \in Links, w.child = v.child,
           Recoloured(w, u, {n, u.child[u.child[n][o]][o]}, {u.child[n][d], u.child[n][o]})
    PROVE  /\ \E bh2 \in Heights : Even(w, N, bh2)
           /\ Cool(w, N)
<1> DEFINE r == u.child[n][o]
           q == u.child[n][d]
           c == u.child[r][d]
           a == u.child[r][o]
           bh2 == [bh EXCEPT ![q] = bh[q] - 1, ![n] = bh[q], ![a] = bh[r], ![r] = bh[q]]
<1>0. a # Null /\ q # Null /\ r # Null
  BY DEF Red, Lending
<1>1. /\ {n, r, q, a} \subseteq N /\ c \in N \cup {Null}
      /\ m \notin {n, r, q, c, a} /\ n # r
      /\ q \notin {n, r} /\ c \notin {n, r} /\ a \notin {n, r}
      /\ q # c /\ q # a /\ c # a
      /\ \A x \in N, f \in Dirs :
            /\ u.child[x][f] = n => x = m /\ f = e
            /\ u.child[x][f] = r => x = n /\ f = o
            /\ u.child[x][f] = q => x = n /\ f = d
            /\ u.child[x][f] = a => x = r /\ f = o
  <2> HIDE DEF bh2
  <2>1. Kin(u, N, m, e, n, d, o)
    BY <1>0, Family
  <2> QED BY ZenonT(40), <1>0, <2>1 DEF Kin
<1>2. \A f \in Dirs : f = d \/ f = o
  BY Sets
<1>3. N \subseteq Nodes /\ FalseRoot \notin N /\ FalseRoot \in Nodes /\ Null \notin N /\ N \subseteq Keys
      /\ \A x \in N, f \in Dirs : u.child[x][f] \in N \cup {Null}
  BY Sets DEF Tree, Linked, Slot, Nodes
<1>4. /\ ~u.red[q] /\ ~u.red[r] /\ u.red[a] /\ ~Red(u, c) /\ \A f \in Dirs : ~Red(u, u.child[q][f])
  BY Zenon DEF Red, Lending
<1>5. /\ \A x \in Nodes, f \in Dirs :
             w.child[x][f] = IF x = n /\ f = o THEN c
                             ELSE IF x = r /\ f = d THEN n
                             ELSE IF x = m /\ f = e THEN r
                             ELSE u.child[x][f]
      /\ \A x \in Nodes : w.red[x] <=> x \notin {n, a} /\ (x \in {q, r} \/ u.red[x])
  <2>1. \A x \in Nodes, f \in Dirs :
             v.child[x][f] = IF x = n /\ f = o THEN c
                             ELSE IF x = r /\ f = d THEN n
                             ELSE IF x = m /\ f = e THEN r
                             ELSE u.child[x][f]
    BY DEF IsTurned
  <2>2. Recoloured(w, u, {n, a}, {q, r})
    OBVIOUS
  <2> HIDE DEF a, q, r, c
  <2> QED BY <2>1, <2>2 DEF Recoloured
<1>6. u.child[n][o] = r /\ u.child[n][d] = q /\ u.child[r][d] = c /\ u.child[r][o] = a
  OBVIOUS
<1> HIDE DEF r, q, c, a
<1>7. \A x \in N : Level(u, bh, x)
  BY DEF Even, Level
<1>8. /\ bh[q] = bh[r] /\ bh[n] = bh[q] + IF u.red[n] THEN 0 ELSE 1
      /\ bh[c] = bh[a] /\ bh[r] = bh[a] + 1 /\ {bh[q], bh[a], bh[r], bh[n], bh[c]} \subseteq Nat
  <2>1. Level(u, bh, n) /\ Level(u, bh, r)
    BY <1>1, <1>7
  <2>2. d \in {0, 1} /\ o \in {0, 1}
    BY Sets
  <2> QED BY <1>1, <1>4, <1>6, <2>1, <2>2, Children DEF Level
<1>9. /\ bh2 \in Heights
      /\ bh2[q] = bh[q] - 1 /\ bh2[n] = bh[q] /\ bh2[a] = bh[r] /\ bh2[r] = bh[q]
      /\ \A x \in Keys \cup {Null} : x \notin {q, n, a, r} => bh2[x] = bh[x]
  <2>1. {n, r, q, a} \subseteq Keys /\ bh[q] - 1 \in Nat
    BY <1>1, <1>3, <1>8
  <2> QED BY <1>1, <1>8, <2>1 DEF Heights
<1> HIDE DEF bh2
<1>10. /\ w.child[n][o] = c /\ w.child[n][d] = q /\ w.child[r][d] = n /\ w.child[r][o] = a
       /\ \A f \in Dirs : w.child[q][f] = u.child[q][f] /\ w.child[a][f] = u.child[a][f]
  BY <1>1, <1>3, <1>5, <1>6
<1>11. ~w.red[n] /\ ~w.red[a] /\ w.red[q] /\ w.red[r]
  BY <1>1, <1>3, <1>5
<1>12. ASSUME NEW x \in N, NEW f \in Dirs, x \notin {n, r}, ~(x = m /\ f = e)
       PROVE  /\ u.child[x][f] \notin {n, r, q, a} /\ w.child[x][f] = u.child[x][f]
              /\ bh2[u.child[x][f]] = bh[u.child[x][f]]
  <2>1. u.child[x][f] \notin {n, r, q, a}
    BY <1>1, <1>12
  <2> QED BY <1>3, <1>5, <1>9, <1>12, <2>1
<1>13. Level(w, bh2, n)
  <2>1. bh2[c] = bh[c]
    BY <1>1, <1>3, <1>9
  <2> QED BY <1>2, <1>8, <1>9, <1>10, <1>11, <2>1, Sets DEF Level
<1>14. Level(w, bh2, r)
  BY <1>2, <1>8, <1>9, <1>10, <1>11, Sets DEF Level
<1>15. Level(w, bh2, q)
  <2>1. \A f \in Dirs : bh2[w.child[q][f]] = bh[u.child[q][f]]
    BY <1>1, <1>12
  <2>2. Level(u, bh, q)
    BY <1>1, <1>7
  <2> QED BY SMTT(30), <1>1, <1>4, <1>8, <1>9, <1>11, <2>1, <2>2, Children DEF Level
<1>16. Level(w, bh2, a)
  <2>1. \A f \in Dirs : bh2[w.child[a][f]] = bh[u.child[a][f]]
    BY <1>1, <1>12
  <2>2. Level(u, bh, a)
    BY <1>1, <1>7
  <2> QED BY <1>1, <1>4, <1>8, <1>9, <1>11, <2>1, <2>2, Children DEF Level
<1>17. ASSUME NEW x \in N, x \notin {n, r, q, a} PROVE Level(w, bh2, x)
  <2>0. w.red[x] <=> u.red[x]
    BY <1>3, <1>5, <1>17
  <2>1. bh2[x] = bh[x] /\ (w.red[x] <=> u.red[x])
    BY <1>3, <1>9, <1>17, <2>0
  <2>2. ASSUME NEW f \in Dirs PROVE bh2[w.child[x][f]] = bh[u.child[x][f]]
    <3>1. CASE x = m /\ f = e
      <4>1. w.child[x][f] = r /\ u.child[x][f] = n
        BY <1>3, <1>5, <1>17, <3>1
      <4>2. u.red[n]
        BY <1>3, <3>1 DEF Lending
      <4> QED BY <1>8, <1>9, <4>1, <4>2
    <3>2. CASE ~(x = m /\ f = e)
      BY <1>12, <1>17, <3>2
    <3> QED BY <3>1, <3>2
  <2>3. Level(u, bh, x)
    BY <1>7
  <2> QED BY <2>1, <2>2, <2>3, Children DEF Level
<1>18. Even(w, N, bh2)
  <2>1. bh2[Null] = 0
    BY <1>1, <1>3, <1>9 DEF Even
  <2> QED BY <1>13, <1>14, <1>15, <1>16, <1>17, <2>1 DEF Even, Level
<1>19. \A y \in N \cup {Null} : y \notin {q, r} /\ ~Red(u, y) => ~Red(w, y)
  BY <1>3, <1>5 DEF Red
<1>a. m = FalseRoot \/ u.red[n]
  BY DEF Lending
<1>20. ASSUME NEW x \in N, NEW f \in Dirs, w.red[x] PROVE ~Red(w, w.child[x][f])
  <2>1. x # n /\ x # a
    BY <1>11, <1>20
  <2>2. CASE x = r
    BY <1>2, <1>10, <1>11, <2>2 DEF Red
  <2>3. CASE x = q
    BY <1>1, <1>3, <1>4, <1>10, <1>19, <2>3
  <2>4. CASE x \notin {r, q}
    <3>1. u.red[x]
      BY <1>3, <1>5, <1>20, <2>1, <2>4
    <3>2. ~(x = m /\ f = e)
      <4> SUFFICES ASSUME x = m, f = e PROVE FALSE
        OBVIOUS
      <4>1. u.red[n]
        BY <1>3, <1>a
      <4>2. ~Red(u, n)
        BY <3>1 DEF Cool
      <4> QED BY <1>1, <1>3, <4>1, <4>2 DEF Red
    <3>3. ~Red(u, u.child[x][f])
      BY <3>1 DEF Cool
    <3> QED BY <1>3, <1>12, <1>19, <2>1, <2>4, <3>2, <3>3
  <2> QED BY <2>1, <2>2, <2>3, <2>4
<1>21. ~w.red[FalseRoot]
  <2>1. FalseRoot \notin {n, a, q, r} /\ ~u.red[FalseRoot]
    BY <1>1, <1>3 DEF Cool
  <2> QED BY <1>3, <1>5, <2>1
<1> QED BY <1>9, <1>18, <1>20, <1>21 DEF Cool

(* remove: the sibling r of q, black, has a red child on the near side. *)
LEMMA BorrowTwice ==
    ASSUME NEW u, NEW N, NEW lo, NEW hi, Tree(u, N, lo, hi), NEW bh, bh \in Heights, Even(u, N, bh),
           Cool(u, N),
           NEW m, NEW e, e \in Dirs, Slot(N, m, e), NEW n, n \in N, u.child[m][e] = n,
           NEW d, d \in Dirs, NEW o, o \in Dirs, o # d, Lending(u, m, n, d, o),
           Red(u, u.child[u.child[n][o]][d]),
           NEW v, IsTurnedTwice(v, u, m, e, n, d, o),
           NEW w, w \in Links, w.child = v.child,
           Recoloured(w, u, {n, u.child[n][o]}, {u.child[n][d], u.child[u.child[n][o]][d]})
    PROVE  /\ \E bh2 \in Heights : Even(w, N, bh2)
           /\ Cool(w, N)
<1> DEFINE r == u.child[n][o]
           q == u.child[n][d]
           s == u.child[r][d]
           a == u.child[r][o]
           bh2 == [bh EXCEPT ![q] = bh[q] - 1, ![n] = bh[q], ![s] = bh[q]]
<1>0. s # Null /\ q # Null /\ r # Null
  BY DEF Red, Lending
<1>1. /\ {n, r, q, s} \subseteq N /\ a \in N \cup {Null}
      /\ m \notin {n, r, q, s, a} /\ n # r
      /\ q \notin {n, r} /\ s \notin {n, r} /\ a \notin {n, r}
      /\ q # s /\ q # a /\ s # a
      /\ \A x \in N, f \in Dirs :
            /\ u.child[x][f] = n => x = m /\ f = e
            /\ u.child[x][f] = r => x = n /\ f = o
            /\ u.child[x][f] = q => x = n /\ f = d
            /\ u.child[x][f] = s => x = r /\ f = d
  <2> HIDE DEF bh2
  <2>1. Kin(u, N, m, e, n, d, o)
    BY <1>0, Family
  <2> QED BY ZenonT(40), <1>0, <2>1 DEF Kin
<1>2. \A f \in Dirs : f = d \/ f = o
  BY Sets
<1>3. N \subseteq Nodes /\ FalseRoot \notin N /\ FalseRoot \in Nodes /\ Null \notin N /\ N \subseteq Keys
      /\ \A x \in N, f \in Dirs : u.child[x][f] \in N \cup {Null}
  BY Sets DEF Tree, Linked, Slot, Nodes
<1>4. /\ ~u.red[q] /\ ~u.red[r] /\ u.red[s] /\ (\A f \in Dirs : ~Red(u, u.child[q][f]))
      /\ \A f \in Dirs : ~Red(u, u.child[s][f])
  <2>1. ~u.red[q] /\ ~u.red[r] /\ u.red[s] /\ (\A f \in Dirs : ~Red(u, u.child[q][f]))
    BY DEF Red, Lending
  <2> QED BY Zenon, <1>1, <2>1 DEF Cool
<1>5. /\ \A x \in Nodes, f \in Dirs :
             w.child[x][f] = IF x = n /\ f = o THEN u.child[s][d]
                             ELSE IF x = r /\ f = d THEN u.child[s][o]
                             ELSE IF x = s THEN IF f = d THEN n ELSE r
                             ELSE IF x = m /\ f = e THEN s
                             ELSE u.child[x][f]
      /\ \A x \in Nodes : w.red[x] <=> x \notin {n, r} /\ (x \in {q, s} \/ u.red[x])
  <2>1. \A x \in Nodes, f \in Dirs :
             v.child[x][f] = IF x = n /\ f = o THEN u.child[s][d]
                             ELSE IF x = r /\ f = d THEN u.child[s][o]
                             ELSE IF x = s THEN IF f = d THEN n ELSE r
                             ELSE IF x = m /\ f = e THEN s
                             ELSE u.child[x][f]
    BY DEF IsTurnedTwice
  <2>2. Recoloured(w, u, {n, r}, {q, s})
    OBVIOUS
  <2> HIDE DEF a, q, r, s
  <2> QED BY <2>1, <2>2 DEF Recoloured
<1>6. u.child[n][o] = r /\ u.child[n][d] = q /\ u.child[r][d] = s /\ u.child[r][o] = a
  OBVIOUS
<1> HIDE DEF r, q, s, a
<1>7. \A x \in N : Level(u, bh, x)
  BY DEF Even, Level
<1>8. /\ bh[q] = bh[r] /\ bh[n] = bh[q] + IF u.red[n] THEN 0 ELSE 1
      /\ bh[s] = bh[a] /\ bh[r] = bh[s] + 1 /\ {bh[q], bh[a], bh[r], bh[n], bh[s]} \subseteq Nat
      /\ \A f \in Dirs : bh[u.child[s][f]] = bh[s]
  <2>1. Level(u, bh, n) /\ Level(u, bh, r) /\ Level(u, bh, s)
    BY <1>1, <1>7
  <2>2. d \in {0, 1} /\ o \in {0, 1}
    BY Sets
  <2>3. {bh[q], bh[a], bh[r], bh[n], bh[s]} \subseteq Nat /\ \A f \in Dirs : bh[u.child[s][f]] \in Nat
    BY <1>1, Children
  <2>4. \A f \in Dirs : bh[u.child[s][f]] = bh[s]
    BY <1>4, <2>1, <2>3, Sets DEF Level
  <2> QED BY <1>4, <1>6, <2>1, <2>2, <2>3, <2>4 DEF Level
<1>9. /\ bh2 \in Heights
      /\ bh2[q] = bh[q] - 1 /\ bh2[n] = bh[q] /\ bh2[s] = bh[q]
      /\ \A x \in Keys \cup {Null} : x \notin {q, n, s} => bh2[x] = bh[x]
  <2>1. {n, s, q} \subseteq Keys /\ bh[q] - 1 \in Nat
    BY <1>1, <1>3, <1>8
  <2> QED BY <1>1, <1>8, <2>1 DEF Heights
<1> HIDE DEF bh2
<1>10. /\ w.child[n][o] = u.child[s][d] /\ w.child[n][d] = q
       /\ w.child[r][d] = u.child[s][o] /\ w.child[r][o] = a
       /\ w.child[s][d] = n /\ w.child[s][o] = r
       /\ \A f \in Dirs : w.child[q][f] = u.child[q][f]
  BY <1>1, <1>3, <1>5, <1>6
<1>11. ~w.red[n] /\ ~w.red[r] /\ w.red[q] /\ w.red[s]
  BY <1>1, <1>3, <1>5
<1>12. ASSUME NEW x \in N, NEW f \in Dirs, x \notin {n, r}, ~(x = m /\ f = e)
       PROVE  /\ u.child[x][f] \notin {n, r, q, s}
              /\ bh2[u.child[x][f]] = bh[u.child[x][f]]
              /\ x # s => w.child[x][f] = u.child[x][f]
  <2>1. u.child[x][f] \notin {n, r, q, s}
    BY <1>1, <1>12
  <2> QED BY <1>3, <1>5, <1>9, <1>12, <2>1
<1>13. Level(w, bh2, n)
  <2>1. bh2[u.child[s][d]] = bh[u.child[s][d]]
    BY <1>1, <1>12
  <2> QED BY <1>2, <1>8, <1>9, <1>10, <1>11, <2>1, Sets DEF Level
<1>14. Level(w, bh2, r)
  <2>1. bh2[u.child[s][o]] = bh[u.child[s][o]] /\ bh2[r] = bh[r]
    BY <1>1, <1>3, <1>9, <1>12
  <2>2. bh2[a] = bh[a]
    BY <1>1, <1>3, <1>9
  <2> QED BY <1>2, <1>8, <1>9, <1>10, <1>11, <2>1, <2>2, Sets DEF Level
<1>15. Level(w, bh2, q)
  <2>1. \A f \in Dirs : bh2[w.child[q][f]] = bh[u.child[q][f]]
    BY <1>1, <1>12
  <2>2. Level(u, bh, q)
    BY <1>1, <1>7
  <2> QED BY <1>1, <1>4, <1>8, <1>9, <1>11, <2>1, <2>2, Children DEF Level
<1>16. Level(w, bh2, s)
  <2>1. bh2[r] = bh[r]
    BY <1>1, <1>3, <1>9
  <2> QED BY <1>2, <1>8, <1>9, <1>10, <1>11, <2>1, Sets DEF Level
<1>17. ASSUME NEW x \in N, x \notin {n, r, q, s} PROVE Level(w, bh2, x)
  <2>1. bh2[x] = bh[x] /\ (w.red[x] <=> u.red[x])
    BY <1>3, <1>5, <1>9, <1>17
  <2>2. ASSUME NEW f \in Dirs PROVE bh2[w.child[x][f]] = bh[u.child[x][f]]
    <3>1. CASE x = m /\ f = e
      <4>1. w.child[x][f] = s /\ u.child[x][f] = n
        BY <1>3, <1>5, <1>17, <3>1
      <4>2. u.red[n]
        BY <1>3, <3>1 DEF Lending
      <4> QED BY <1>8, <1>9, <4>1, <4>2
    <3>2. CASE ~(x = m /\ f = e)
      BY <1>12, <1>17, <3>2
    <3> QED BY <3>1, <3>2
  <2>3. Level(u, bh, x)
    BY <1>7
  <2> QED BY <2>1, <2>2, <2>3, Children DEF Level
<1>18. Even(w, N, bh2)
  <2>1. bh2[Null] = 0
    BY <1>1, <1>3, <1>9 DEF Even
  <2> QED BY <1>13, <1>14, <1>15, <1>16, <1>17, <2>1 DEF Even, Level
<1>19. \A y \in N \cup {Null} : y \notin {q, s} /\ ~Red(u, y) => ~Red(w, y)
  BY <1>3, <1>5 DEF Red
<1>20. m = FalseRoot \/ u.red[n]
  BY DEF Lending
<1>21. ASSUME NEW x \in N, NEW f \in Dirs, w.red[x] PROVE ~Red(w, w.child[x][f])
  <2>1. x # n /\ x # r
    BY <1>11, <1>21
  <2>2. CASE x = s
    BY <1>2, <1>10, <1>11, <2>2 DEF Red
  <2>3. CASE x = q
    BY <1>1, <1>3, <1>4, <1>10, <1>19, <2>3
  <2>4. CASE x \notin {s, q}
    <3>1. u.red[x]
      BY <1>3, <1>5, <1>21, <2>1, <2>4
    <3>2. ~(x = m /\ f = e)
      <4> SUFFICES ASSUME x = m, f = e PROVE FALSE
        OBVIOUS
      <4>1. u.red[n]
        BY <1>3, <1>20
      <4>2. ~Red(u, n)
        BY <3>1 DEF Cool
      <4> QED BY <1>1, <1>3, <4>1, <4>2 DEF Red
    <3>3. ~Red(u, u.child[x][f])
      BY <3>1 DEF Cool
    <3> QED BY <1>3, <1>12, <1>19, <2>1, <2>4, <3>2, <3>3
  <2> QED BY <2>1, <2>2, <2>3, <2>4
<1>22. ~w.red[FalseRoot]
  <2>1. FalseRoot \notin {n, r, q, s} /\ ~u.red[FalseRoot]
    BY <1>1, <1>3 DEF Cool
  <2> QED BY <1>3, <1>5, <2>1
<1> QED BY <1>9, <1>18, <1>21, <1>22 DEF Cool

(* Painting n black and its two children red. *)
LEMMA FlipBlack ==
    ASSUME NEW u, NEW N, NEW lo, NEW hi, Tree(u, N, lo, hi), NEW bh, bh \in Heights, Even(u, N, bh),
           Cool(u, N),
           NEW m, NEW e, e \in Dirs, Slot(N, m, e), NEW n, n \in N, u.child[m][e] = n,
           NEW d, d \in Dirs, NEW o, o \in Dirs, o # d, Lending(u, m, n, d, o),
           \A f \in Dirs : ~Red(u, u.child[u.child[n][o]][f]),
           NEW w, w \in Links, w.child = u.child,
           Recoloured(w, u, {n}, {u.child[n][d], u.child[n][o]})
    PROVE  /\ \E bh2 \in Heights : Even(w, N, bh2)
           /\ Cool(w, N)
<1> DEFINE r == u.child[n][o]
           q == u.child[n][d]
           bh2 == [bh EXCEPT ![q] = bh[q] - 1, ![n] = bh[q], ![r] = bh[r] - 1]
<1>0. q # Null /\ r # Null
  BY DEF Lending
<1>1. /\ {n, r, q} \subseteq N /\ m \notin {n, r, q} /\ n # r /\ q \notin {n, r}
      /\ \A x \in N, f \in Dirs :
            /\ u.child[x][f] = n => x = m /\ f = e
            /\ u.child[x][f] = r => x = n /\ f = o
            /\ u.child[x][f] = q => x = n /\ f = d
  <2> HIDE DEF bh2
  <2>1. Kin(u, N, m, e, n, d, o)
    BY <1>0, Family
  <2> QED BY <1>0, <2>1 DEF Kin
<1>2. \A f \in Dirs : f = d \/ f = o
  BY Sets
<1>3. N \subseteq Nodes /\ FalseRoot \notin N /\ FalseRoot \in Nodes /\ Null \notin N /\ N \subseteq Keys
      /\ \A x \in N, f \in Dirs : u.child[x][f] \in N \cup {Null}
  BY Sets DEF Tree, Linked, Slot, Nodes
<1>4. /\ ~u.red[q] /\ ~u.red[r] /\ (m = FalseRoot \/ u.red[n])
      /\ (\A f \in Dirs : ~Red(u, u.child[q][f])) /\ (\A f \in Dirs : ~Red(u, u.child[r][f]))
  BY DEF Red, Lending
<1>5. \A x \in Nodes : w.red[x] <=> x \notin {n} /\ (x \in {q, r} \/ u.red[x])
  <2>1. Recoloured(w, u, {n}, {q, r})
    OBVIOUS
  <2> HIDE DEF q, r
  <2> QED BY <2>1 DEF Recoloured
<1>6. u.child[n][o] = r /\ u.child[n][d] = q
  OBVIOUS
<1> HIDE DEF r, q
<1>7. \A x \in N : Level(u, bh, x)
  BY DEF Even, Level
<1>8. /\ bh[q] = bh[r] /\ bh[n] = bh[q] + (IF u.red[n] THEN 0 ELSE 1)
      /\ {bh[q], bh[r], bh[n]} \subseteq Nat /\ bh[q] - 1 \in Nat /\ bh[r] - 1 \in Nat
  <2>1. Level(u, bh, n) /\ Level(u, bh, r)
    BY <1>1, <1>7
  <2>2. d \in {0, 1} /\ o \in {0, 1}
    BY Sets
  <2> QED BY <1>1, <1>4, <1>6, <2>1, <2>2, Children DEF Level
<1>9. /\ bh2 \in Heights
      /\ bh2[q] = bh[q] - 1 /\ bh2[n] = bh[q] /\ bh2[r] = bh[r] - 1
      /\ \A x \in Keys \cup {Null} : x \notin {q, n, r} => bh2[x] = bh[x]
  <2>1. {n, r, q} \subseteq Keys
    BY <1>1, <1>3
  <2> QED BY <1>1, <1>8, <2>1 DEF Heights
<1> HIDE DEF bh2
<1>11. ~w.red[n] /\ w.red[q] /\ w.red[r]
  BY <1>1, <1>3, <1>5
<1>12. ASSUME NEW x \in N, NEW f \in Dirs, x # n, ~(x = m /\ f = e)
       PROVE  /\ u.child[x][f] \notin {n, r, q}
              /\ bh2[u.child[x][f]] = bh[u.child[x][f]]
  <2>1. u.child[x][f] \notin {n, r, q}
    BY <1>1, <1>12
  <2> QED BY <1>3, <1>9, <1>12, <2>1
<1>13. Level(w, bh2, n)
  BY <1>2, <1>6, <1>8, <1>9, <1>11, Sets DEF Level
<1>14. ASSUME NEW x \in {q, r} PROVE Level(w, bh2, x)
  <2>1. \A f \in Dirs : bh2[u.child[x][f]] = bh[u.child[x][f]]
    BY <1>1, <1>12, <1>14
  <2>2. Level(u, bh, x)
    BY <1>1, <1>7, <1>14
  <2> QED BY <1>1, <1>4, <1>8, <1>9, <1>11, <1>14, <2>1, <2>2, Children DEF Level
<1>17. ASSUME NEW x \in N, x \notin {n, r, q} PROVE Level(w, bh2, x)
  <2>1. bh2[x] = bh[x] /\ (w.red[x] <=> u.red[x])
    BY <1>3, <1>5, <1>9, <1>17
  <2>2. ASSUME NEW f \in Dirs PROVE bh2[u.child[x][f]] = bh[u.child[x][f]]
    <3>1. CASE x = m /\ f = e
      <4>1. u.child[x][f] = n /\ u.red[n]
        BY <1>3, <1>4, <1>17, <3>1
      <4> QED BY <1>8, <1>9, <4>1
    <3>2. CASE ~(x = m /\ f = e)
      BY <1>12, <1>17, <3>2
    <3> QED BY <3>1, <3>2
  <2>3. Level(u, bh, x)
    BY <1>7
  <2> QED BY <2>1, <2>2, <2>3, Children DEF Level
<1>18. Even(w, N, bh2)
  <2>1. bh2[Null] = 0
    BY <1>1, <1>3, <1>9 DEF Even
  <2> QED BY <1>13, <1>14, <1>17, <2>1 DEF Even, Level
<1>19. \A y \in N \cup {Null} : y \notin {q, r} /\ ~Red(u, y) => ~Red(w, y)
  BY <1>3, <1>5 DEF Red
<1>21. ASSUME NEW x \in N, NEW f \in Dirs, w.red[x] PROVE ~Red(w, u.child[x][f])
  <2>1. x # n
    BY <1>11, <1>21
  <2>2. ~(x = m /\ f = e)
    <3> SUFFICES ASSUME x = m, f = e PROVE FALSE
      OBVIOUS
    <3>1. u.red[n] /\ u.red[x]
      BY <1>1, <1>3, <1>4, <1>5, <1>21
    <3>2. ~Red(u, n)
      BY <3>1 DEF Cool
    <3> QED BY <1>1, <1>3, <3>1, <3>2 DEF Red
  <2>3. ~Red(u, u.child[x][f])
    <3>1. CASE x \in {q, r}
      BY <1>4, <3>1
    <3>2. CASE x \notin {q, r}
      <4>1. u.red[x]
        BY <1>3, <1>5, <1>21, <3>2
      <4> QED BY <4>1 DEF Cool
    <3> QED BY <3>1, <3>2
  <2> QED BY <1>3, <1>12, <1>19, <2>1, <2>2, <2>3
<1>22. ~w.red[FalseRoot]
  <2>1. FalseRoot \notin {n, r, q} /\ ~u.red[FalseRoot]
    BY <1>1, <1>3 DEF Cool
  <2> QED BY <1>3, <1>5, <2>1
<1> QED BY <1>9, <1>18, <1>21, <1>22 DEF Cool

(* Painting q red and its two red children black, as insert does: only q's *)
(* parent may now be red as well.                                          *)
LEMMA FlipRed ==
    ASSUME NEW u, NEW N, NEW lo, NEW hi, Tree(u, N, lo, hi), NEW bh, bh \in Heights, Even(u, N, bh),
           Cool(u, N),
           NEW q, q \in N, Red(u, u.child[q][0]), Red(u, u.child[q][1]),
           NEW w, w \in Links, w.child = u.child,
           Recoloured(w, u, {u.child[q][0], u.child[q][1]}, {q})
    PROVE  /\ \E bh2 \in Heights : Even(w, N, bh2)
           /\ ~w.red[FalseRoot] /\ w.red[q]
           /\ \A x \in N, f \in Dirs : w.red[x] /\ u.child[x][f] # q => ~Red(w, u.child[x][f])
           /\ ~Red(w, u.child[q][0]) /\ ~Red(w, u.child[q][1])
<1> DEFINE a == u.child[q][0]
           b == u.child[q][1]
           bh2 == [bh EXCEPT ![a] = bh[a] + 1, ![b] = bh[b] + 1]
<1>0. a # Null /\ b # Null /\ u.red[a] /\ u.red[b] /\ 0 \in Dirs /\ 1 \in Dirs /\ Slot(N, q, 0) /\ Slot(N, q, 1)
  BY Sets DEF Red, Slot
<1>3. N \subseteq Nodes /\ FalseRoot \notin N /\ FalseRoot \in Nodes /\ Null \notin N /\ N \subseteq Keys
      /\ \A x \in N, f \in Dirs : u.child[x][f] \in N \cup {Null} /\ Slot(N, x, f)
  BY Sets DEF Tree, Linked, Slot, Nodes
<1>1. /\ {a, b} \subseteq N /\ a # b /\ q \notin {a, b}
      /\ \A x \in N, f \in Dirs : u.child[x][f] \in {a, b} => x = q
  <2>1. {a, b} \subseteq N
    BY <1>0, <1>3
  <2>2. a # b
    <3>1. ASSUME a = b PROVE 0 = 1
      BY <1>0, <3>1, OnePlace
    <3> QED BY <3>1
  <2>3. a # q /\ b # q
    BY <1>0, Nested
  <2>4. \A x \in N, f \in Dirs : u.child[x][f] = a => x = q
    BY <1>0, <1>3, OnePlace
  <2>5. \A x \in N, f \in Dirs : u.child[x][f] = b => x = q
    BY <1>0, <1>3, OnePlace
  <2> QED BY <2>1, <2>2, <2>3, <2>4, <2>5
<1>5. \A x \in Nodes : w.red[x] <=> x \notin {a, b} /\ (x \in {q} \/ u.red[x])
  <2>1. Recoloured(w, u, {a, b}, {q})
    OBVIOUS
  <2> HIDE DEF a, b
  <2> QED BY <2>1 DEF Recoloured
<1>6. u.child[q][0] = a /\ u.child[q][1] = b
  OBVIOUS
<1> HIDE DEF a, b
<1>7. \A x \in N : Level(u, bh, x)
  BY DEF Even, Level
<1>8. ~u.red[q] /\ \A f \in Dirs : ~Red(u, u.child[a][f]) /\ ~Red(u, u.child[b][f])
  <2>1. ~u.red[q]
    BY <1>0, <1>6 DEF Cool, Red
  <2>2. \A f \in Dirs : ~Red(u, u.child[a][f]) /\ ~Red(u, u.child[b][f])
    BY <1>0, <1>1 DEF Cool
  <2> QED BY <2>1, <2>2
<1>9. /\ bh2 \in Heights /\ bh2[a] = bh[a] + 1 /\ bh2[b] = bh[b] + 1 /\ {bh[a], bh[b], bh[q]} \subseteq Nat
      /\ \A x \in Keys \cup {Null} : x \notin {a, b} => bh2[x] = bh[x]
  <2>1. {a, b} \subseteq Keys /\ {bh[a], bh[b], bh[q]} \subseteq Nat
    BY <1>1, <1>3, Children
  <2> QED BY <1>1, <2>1 DEF Heights
<1> HIDE DEF bh2
<1>11. w.red[q] /\ ~w.red[a] /\ ~w.red[b]
  BY <1>1, <1>3, <1>5
<1>12. Level(w, bh2, q)
  <2>1. Level(u, bh, q) /\ bh2[q] = bh[q]
    BY <1>1, <1>3, <1>7, <1>9
  <2> QED BY <1>6, <1>8, <1>9, <1>11, <2>1 DEF Level
<1>13. \A x \in N \ {q}, f \in Dirs : bh2[u.child[x][f]] = bh[u.child[x][f]]
  <2>1. \A x \in N \ {q}, f \in Dirs : u.child[x][f] \notin {a, b} /\ u.child[x][f] \in Keys \cup {Null}
    BY <1>1, <1>3
  <2> QED BY <1>9, <2>1
<1>14. ASSUME NEW x \in {a, b} PROVE Level(w, bh2, x)
  <2>1. Level(u, bh, x) /\ u.red[x]
    BY <1>0, <1>1, <1>7, <1>14
  <2>2. bh2[u.child[x][0]] = bh[u.child[x][0]] /\ bh2[u.child[x][1]] = bh[u.child[x][1]]
    BY <1>0, <1>1, <1>13, <1>14
  <2> QED BY <1>1, <1>9, <1>11, <1>14, <2>1, <2>2, Children DEF Level
<1>15. ASSUME NEW x \in N, x \notin {q, a, b} PROVE Level(w, bh2, x)
  <2>1. Level(u, bh, x) /\ bh2[x] = bh[x] /\ (w.red[x] <=> u.red[x])
    BY <1>3, <1>5, <1>7, <1>9, <1>15
  <2>2. bh2[u.child[x][0]] = bh[u.child[x][0]] /\ bh2[u.child[x][1]] = bh[u.child[x][1]]
    BY <1>0, <1>13, <1>15
  <2> QED BY <2>1, <2>2, Children DEF Level
<1>16. Even(w, N, bh2)
  <2>1. bh2[Null] = 0
    BY <1>1, <1>3, <1>9 DEF Even
  <2> QED BY <1>12, <1>14, <1>15, <2>1 DEF Even, Level
<1>17. ASSUME NEW x \in N, NEW f \in Dirs, w.red[x], u.child[x][f] # q PROVE ~Red(w, u.child[x][f])
  <2>1. CASE x = q
    <3>1. f = 0 \/ f = 1
      BY Sets
    <3> QED BY <1>6, <1>11, <2>1, <3>1 DEF Red
  <2>2. CASE x # q
    <3>1. u.red[x]
      BY <1>3, <1>5, <1>17, <2>2
    <3>2. ~Red(u, u.child[x][f])
      BY <3>1 DEF Cool
    <3> QED BY <1>3, <1>5, <1>17, <3>2 DEF Red
  <2> QED BY <2>1, <2>2
<1>18. ~w.red[FalseRoot]
  <2>1. FalseRoot \notin {q, a, b} /\ ~u.red[FalseRoot]
    BY <1>1, <1>3 DEF Cool
  <2> QED BY <1>3, <1>5, <2>1
<1>19. ~Red(w, a) /\ ~Red(w, b)
  BY <1>11 DEF Red
<1> QED BY <1>6, <1>9, <1>11, <1>16, <1>17, <1>18, <1>19

(* The root may always be painted black. *)
LEMMA BlackRoot ==
    ASSUME NEW u, NEW N, NEW lo, NEW hi, Tree(u, N, lo, hi), NEW bh, bh \in Heights, Even(u, N, bh),
           Cool(u, N), u.child[FalseRoot][1] # Null,
           NEW w, w \in Links, w.child = u.child, Recoloured(w, u, {u.child[FalseRoot][1]}, {})
    PROVE  /\ \E bh2 \in Heights : Even(w, N, bh2)
           /\ Cool(w, N)
<1> DEFINE r == u.child[FalseRoot][1]
           bh2 == [bh EXCEPT ![r] = bh[u.child[r][0]] + 1]
<1>1. /\ 0 \in Dirs /\ 1 \in Dirs /\ Slot(N, FalseRoot, 1) /\ r \in N /\ FalseRoot \notin N
      /\ N \subseteq Nodes /\ FalseRoot \in Nodes /\ N \subseteq Keys /\ Null \notin N
      /\ \A x \in N, f \in Dirs : u.child[x][f] \in N \cup {Null} /\ Slot(N, x, f)
  BY Sets DEF Tree, Linked, Slot, Nodes
<1>2. \A x \in N, f \in Dirs : u.child[x][f] # r
  BY <1>1, OnePlace
<1>3. \A x \in Nodes : w.red[x] <=> x # r /\ u.red[x]
  BY DEF Recoloured
<1> HIDE DEF r
<1>4. bh2 \in Heights /\ bh2[r] = bh[u.child[r][0]] + 1 /\ bh[u.child[r][0]] \in Nat
      /\ \A x \in Keys \cup {Null} : x # r => bh2[x] = bh[x]
  <2>1. bh[u.child[r][0]] + 1 \in Nat /\ bh[u.child[r][0]] \in Nat /\ r \in Keys
    BY <1>1, Children
  <2> QED BY <2>1 DEF Heights
<1> HIDE DEF bh2
<1>5. ASSUME NEW x \in N PROVE Level(w, bh2, x)
  <2>1. bh2[u.child[x][0]] = bh[u.child[x][0]] /\ bh2[u.child[x][1]] = bh[u.child[x][1]]
    BY <1>1, <1>2, <1>4
  <2>2. Level(u, bh, x)
    BY DEF Even, Level
  <2>3. CASE x = r
    BY <1>1, <1>3, <1>4, <2>1, <2>2, <2>3 DEF Level
  <2>4. CASE x # r
    <3>1. bh2[x] = bh[x] /\ (w.red[x] <=> u.red[x])
      BY <1>1, <1>3, <1>4, <2>4
    <3> QED BY <2>1, <2>2, <3>1, Children DEF Level
  <2> QED BY <2>3, <2>4
<1>6. Even(w, N, bh2)
  <2>1. bh2[Null] = 0
    BY <1>1, <1>4 DEF Even
  <2> QED BY <1>5, <2>1 DEF Even, Level
<1>7. Cool(w, N)
  <2>1. ~w.red[FalseRoot]
    BY <1>1, <1>3 DEF Cool
  <2>2. ASSUME NEW x \in N, NEW f \in Dirs, w.red[x] PROVE ~Red(w, u.child[x][f])
    <3>1. ~Red(u, u.child[x][f])
      BY <1>1, <1>3, <2>2 DEF Cool
    <3> QED BY <1>1, <1>3, <3>1 DEF Red
  <2> QED BY <2>1, <2>2 DEF Cool
<1> QED BY <1>4, <1>6, <1>7

(* A red-black tree of the nodes N. *)
Shape(u, N, lo, hi) ==
    /\ Tree(u, N, lo, hi)
    /\ \E bh \in Heights : Even(u, N, bh)
    /\ Cool(u, N)

(* A shape but for q, which may be a red child of a red parent. *)
Heated(u, N, lo, hi, q) ==
    /\ Tree(u, N, lo, hi)
    /\ \E bh \in Heights : Even(u, N, bh)
    /\ ~u.red[FalseRoot]
    /\ \A x \in N, f \in Dirs : u.red[x] /\ u.child[x][f] # q => ~Red(u, u.child[x][f])

(* q is black and has no two red children. *)
Calm(u, q) == q # Null /\ ~u.red[q] /\ ~(Red(u, u.child[q][0]) /\ Red(u, u.child[q][1]))

(* c hangs below m. *)
Under(u, N, c, m) == \E d \in Dirs : Slot(N, m, d) /\ u.child[m][d] = c

(* Painted twice *)
LEMMA RecolouredFacts ==
    ASSUME NEW u, u \in Links, NEW B, NEW R
    PROVE  LET w == Painted(Painted(u, R, TRUE), B, FALSE)
           IN w \in Links /\ w.child = u.child /\ w.parent = u.parent /\ Recoloured(w, u, B, R)
<1> DEFINE v == Painted(u, R, TRUE)
           w == Painted(v, B, FALSE)
<1>1. IsPainted(v, u, R, TRUE)
  BY Zenon, PaintedFacts
<1>2. IsPainted(w, v, B, FALSE)
  <2>1. v \in Links
    BY Zenon, <1>1 DEF IsPainted
  <2> HIDE DEF v
  <2> QED BY Zenon, <2>1, PaintedFacts
<1> HIDE DEF v, w
<1>3. w \in Links /\ w.child = u.child /\ w.parent = u.parent
  BY <1>1, <1>2 DEF IsPainted
<1>4. Recoloured(w, u, B, R)
  <2> SUFFICES ASSUME NEW x \in Nodes PROVE w.red[x] <=> x \notin B /\ (x \in R \/ u.red[x])
    BY DEF Recoloured
  <2>1. v.red[x] = IF x \in R THEN TRUE ELSE u.red[x]
    BY Zenon, <1>1 DEF IsPainted
  <2>2. w.red[x] = IF x \in B THEN FALSE ELSE v.red[x]
    BY Zenon, <1>2 DEF IsPainted
  <2> QED BY <2>1, <2>2
<1> QED BY Zenon, <1>3, <1>4 DEF w, v

(* insert's first half at an existing node *)
LEMMA FlippedHot ==
    ASSUME NEW N, NEW lo, NEW hi, Shape(t, N, lo, hi), NEW q, q \in N, at.q = q,
           NEW w, w = MadeOrFlipped(q)
    PROVE  /\ Heated(w, N, lo, hi, q) /\ w \in Links /\ w.child = t.child
           /\ Red(t, t.child[q][0]) /\ Red(t, t.child[q][1]) =>
                 /\ w.red[q] /\ ~t.red[q]
                 /\ \A f \in Dirs : Calm(w, w.child[q][f]) /\ t.red[w.child[q][f]]
                 /\ \A x \in Nodes : x # q /\ w.red[x] => t.red[x]
                 /\ \A x \in Nodes : t.red[x] /\ (\A f \in Dirs : x # t.child[q][f]) => w.red[x]
           /\ ~(Red(t, t.child[q][0]) /\ Red(t, t.child[q][1])) => w = t
<1> DEFINE a == t.child[q][0]
           b == t.child[q][1]
<1>1. /\ t \in Links /\ q # Null /\ q \in Nodes
      /\ Tree(t, N, lo, hi) /\ Cool(t, N) /\ \E bh \in Heights : Even(t, N, bh)
  BY Sets DEF Shape, Tree
<1>2. CASE ~(Red(t, a) /\ Red(t, b))
  <2>1. w = t
    BY Zenon, <1>1, <1>2 DEF MadeOrFlipped
  <2>2. Heated(t, N, lo, hi, q)
    BY <1>1 DEF Heated, Cool
  <2> QED BY <1>1, <1>2, <2>1, <2>2
<1>3. CASE Red(t, a) /\ Red(t, b)
  <2>1. w = Painted(Painted(t, {q}, TRUE), {a, b}, FALSE)
    BY <1>1, <1>3 DEF MadeOrFlipped
  <2>2. w \in Links /\ w.child = t.child /\ w.parent = t.parent /\ Recoloured(w, t, {a, b}, {q})
    <3> DEFINE x == Painted(Painted(t, {q}, TRUE), {a, b}, FALSE)
    <3>1. x \in Links /\ x.child = t.child /\ x.parent = t.parent /\ Recoloured(x, t, {a, b}, {q})
      BY Zenon, <1>1, RecolouredFacts
    <3> QED BY Zenon, <2>1, <3>1
  <2>3. Tree(w, N, lo, hi)
    BY <1>1, <2>2, PaintTree
  <2>4. PICK bh \in Heights : Even(t, N, bh)
    BY <1>1
  <2>5. /\ \E bh2 \in Heights : Even(w, N, bh2)
        /\ ~w.red[FalseRoot] /\ w.red[q]
        /\ \A x \in N, f \in Dirs : w.red[x] /\ t.child[x][f] # q => ~Red(w, t.child[x][f])
        /\ ~Red(w, a) /\ ~Red(w, b)
    BY ZenonT(40), <1>1, <1>3, <2>2, <2>4, FlipRed
  <2>6. Heated(w, N, lo, hi, q)
    BY <2>2, <2>3, <2>5 DEF Heated
  <2>7. a \in N /\ b \in N /\ a # Null /\ b # Null /\ t.red[a] /\ t.red[b]
        /\ \A f \in Dirs : t.child[q][f] \in {a, b}
    <3>1. \A f \in Dirs : t.child[q][f] \in {a, b}
      BY Sets
    <3> QED BY <1>1, <1>3, <3>1, Sets DEF Tree, Linked, Slot, Red
  <2>8. ~t.red[q]
    BY <1>1, <1>3, Sets DEF Cool
  <2>9. ASSUME NEW c \in {a, b}, NEW f \in Dirs PROVE ~Red(w, t.child[c][f])
    <3>1. ~Red(t, t.child[c][f])
      BY <1>1, <2>7, <2>9 DEF Cool
    <3>2. t.child[c][f] # q
      <4>1. PICK e \in Dirs : c = t.child[q][e]
        BY <2>9, Sets
      <4>2. q \in Int /\ (e = 0 => hi[c] = q) /\ (e = 1 => lo[c] = q)
        BY <1>1, <2>7, <2>9, <4>1, Nested
      <4>3. t.child[c][f] # Null =>
              LET y == t.child[c][f] IN y \in Int /\ lo[y] \in Int /\ hi[y] \in Int
                 /\ lo[c] \in Int /\ hi[c] \in Int
                 /\ lo[c] <= lo[y] /\ hi[y] <= hi[c] /\ lo[y] < y /\ y < hi[y]
        BY <1>1, <2>7, <2>9, Nested
      <4>4. e = 0 \/ e = 1
        BY Sets
      <4> QED BY <1>1, <4>2, <4>3, <4>4
    <3>3. t.child[c][f] \in Nodes \cup {Null}
      BY <1>1, <2>7, <2>9, Sets DEF Tree, Linked, Slot
    <3> QED BY <2>2, <3>1, <3>2, <3>3 DEF Red, Recoloured
  <2>10. \A f \in Dirs : Calm(w, w.child[q][f]) /\ t.red[w.child[q][f]]
    <3> SUFFICES ASSUME NEW f \in Dirs PROVE Calm(w, w.child[q][f]) /\ t.red[w.child[q][f]]
      OBVIOUS
    <3> DEFINE c == t.child[q][f]
    <3>1. c \in {a, b} /\ c # Null /\ t.red[c] /\ ~Red(w, c)
      BY <2>5, <2>7
    <3> HIDE DEF c, a, b
    <3>2. ~Red(w, t.child[c][0]) /\ ~Red(w, t.child[c][1])
      BY <2>9, <3>1, Sets
    <3>3. Calm(w, c)
      BY <2>2, <3>1, <3>2 DEF Calm, Red
    <3> QED BY <2>2, <3>1, <3>3 DEF c
  <2>11. /\ \A x \in Nodes : x # q /\ w.red[x] => t.red[x]
         /\ \A x \in Nodes : t.red[x] /\ (\A f \in Dirs : x # t.child[q][f]) => w.red[x]
    BY <2>2, Sets DEF Recoloured
  <2> QED BY <1>3, <2>2, <2>5, <2>6, <2>8, <2>10, <2>11
<1> QED BY <1>2, <1>3

(* What the second half of an iteration of insert does to links and      *)
(* bounds: nothing, one rotation or two.                                 *)
IsRepaired(w, lo2, hi2, u, lo, hi, q) ==
    LET g == at.g
        p == at.p
        o == at.last
        d == 1 - o
    IN \/ ~(Red(u, q) /\ Red(u, p)) /\ w = u /\ lo2 = lo /\ hi2 = hi
       \/ /\ Red(u, q) /\ Red(u, p) /\ at.dir = o
          /\ \E e \in Dirs : IsTurned(w, u, at.h, e, g, d, o)
          /\ lo2 = LoTurned(lo, g, p, d) /\ hi2 = HiTurned(hi, g, p, d)
       \/ /\ Red(u, q) /\ Red(u, p) /\ at.dir = d
          /\ \E e \in Dirs : IsTurnedTwice(w, u, at.h, e, g, d, o)
          /\ lo2 = LoTurned(LoTurned(lo, p, q, o), g, q, d)
          /\ hi2 = HiTurned(HiTurned(hi, p, q, o), g, q, d)

(* The locals of insert describe where q hangs, as far as the repair of  *)
(* a red q below a red parent needs it.                                  *)
Placed(u, N, q) ==
    /\ at.dir \in Dirs /\ at.last \in Dirs
    /\ at.p = Null => u.child[FalseRoot][1] = q
    /\ at.p # Null => at.p \in N /\ u.child[at.p][at.dir] = q
    /\ Red(u, q) /\ Red(u, at.p) =>
          /\ at.g \in N /\ u.child[at.g][at.last] = at.p /\ Under(u, N, at.g, at.h)
          /\ ~Red(u, u.child[at.g][1 - at.last])

(* The second half of an iteration of insert makes a red-black tree      *)
(* again.                                                                *)
LEMMA RepairedCool ==
    ASSUME NEW u, NEW N, NEW lo, NEW hi, NEW q, q \in N, Heated(u, N, lo, hi, q), Placed(u, N, q)
    PROVE  \E lo2, hi2 : Shape(Repaired(u, q), N, lo2, hi2)
                         /\ IsRepaired(Repaired(u, q), lo2, hi2, u, lo, hi, q)
<1> DEFINE g == at.g
           p == at.p
           o == at.last
           d == 1 - o
           h == at.h
           w == Repaired(u, q)
<1>0. /\ Tree(u, N, lo, hi) /\ ~u.red[FalseRoot] /\ N \subseteq Keys /\ q # Null
      /\ \A x \in N, f \in Dirs : u.red[x] /\ u.child[x][f] # q => ~Red(u, u.child[x][f])
  BY Sets DEF Heated, Tree
<1>00. PICK bh \in Heights : Even(u, N, bh)
  BY DEF Heated
<1>1. CASE ~(Red(u, q) /\ Red(u, p))
  <2>1. w = u
    BY <1>1 DEF Repaired
  <2>2. Cool(u, N)
    <3>1. ASSUME NEW x \in N, NEW f \in Dirs, u.red[x], u.child[x][f] = q, Red(u, q) PROVE FALSE
      <4>1. CASE p = Null
        <5>1. u.child[FalseRoot][1] = q /\ Slot(N, FalseRoot, 1) /\ Slot(N, x, f) /\ 1 \in Dirs /\ x # FalseRoot
          BY <1>0, <4>1, Sets DEF Placed, Slot
        <5> QED BY <1>0, <3>1, <5>1, OnePlace
      <4>2. CASE p # Null
        <5>1. u.child[p][at.dir] = q /\ at.dir \in Dirs /\ p \in N /\ Slot(N, p, at.dir) /\ Slot(N, x, f)
          BY <4>2 DEF Placed, Slot
        <5>2. x = p
          BY <1>0, <3>1, <5>1, OnePlace
        <5> QED BY <1>1, <3>1, <4>2, <5>2 DEF Red
      <4> QED BY <4>1, <4>2
    <3> QED BY <1>0, <3>1 DEF Cool
  <2>3. Shape(w, N, lo, hi)
    BY <1>0, <1>00, <2>1, <2>2 DEF Shape
  <2>4. IsRepaired(w, lo, hi, u, lo, hi, q)
    BY <1>1, <2>1 DEF IsRepaired
  <2> QED BY <2>3, <2>4
<1>2. CASE Red(u, q) /\ Red(u, p)
  <2>1. /\ g \in N /\ u.child[g][o] = p /\ Under(u, N, g, h) /\ ~Red(u, u.child[g][d])
        /\ at.p # Null /\ p \in N /\ u.child[p][at.dir] = q
        /\ o \in Dirs /\ d \in Dirs /\ o # d /\ at.dir \in Dirs /\ o = 1 - d /\ (at.dir = o \/ at.dir = d)
        /\ u.red[p] /\ u.red[q] /\ Slot(N, p, at.dir) /\ Slot(N, g, o)
    BY <1>2 DEF Placed, Red, Dirs, Slot
  <2> DEFINE e == IF u.child[h][1] = g THEN 1 ELSE 0
  <2>2. e \in Dirs /\ Slot(N, h, e) /\ u.child[h][e] = g
    <3>1. PICK e2 \in Dirs : Slot(N, h, e2) /\ u.child[h][e2] = g
      BY <2>1 DEF Under
    <3>2. e2 = 0 \/ e2 = 1
      BY Sets
    <3> QED BY <3>1, <3>2, Sets DEF Slot
  <2>3. ~u.red[g] /\ p # q
    <3>1. p # q
      BY <1>0, <2>1, Nested
    <3> QED BY <1>0, <1>2, <2>1, <3>1
  <2>4. \A f \in Dirs : f # at.dir => ~Red(u, u.child[p][f])
    <3> SUFFICES ASSUME NEW f \in Dirs, f # at.dir PROVE ~Red(u, u.child[p][f])
      OBVIOUS
    <3>1. u.child[p][f] # q
      <4> SUFFICES ASSUME u.child[p][f] = q PROVE FALSE
        OBVIOUS
      <4>1. Slot(N, p, f)
        BY <2>1 DEF Slot
      <4> QED BY <1>0, <2>1, <4>1, OnePlace
    <3> QED BY <1>0, <2>1, <3>1
  <2>5. \A x \in N, f \in Dirs : x # p /\ u.red[x] => ~Red(u, u.child[x][f])
    <3> SUFFICES ASSUME NEW x \in N, NEW f \in Dirs, x # p, u.red[x] PROVE ~Red(u, u.child[x][f])
      OBVIOUS
    <3>1. u.child[x][f] # q
      <4> SUFFICES ASSUME u.child[x][f] = q PROVE FALSE
        OBVIOUS
      <4>1. Slot(N, x, f)
        BY DEF Slot
      <4> QED BY <1>0, <2>1, <4>1, OnePlace
    <3> QED BY <1>0, <3>1
  <2>6. CASE at.dir = o
    <3>1. w = Turned(u, h, e, g, d)
      BY <1>2, <2>1, <2>6 DEF Repaired, Turned
    <3>2. IsTurned(w, u, h, e, g, d, o)
      <4> HIDE DEF w, e, d
      <4> QED BY <1>0, <2>1, <2>2, <3>1, TurnInTree
    <3> HIDE DEF w, e, d, g, p, o, h
    <3>a. /\ u.child[g][o] # Null /\ u.red[u.child[g][o]] /\ ~Red(u, u.child[g][d])
          /\ ~Red(u, u.child[u.child[g][o]][d])
          /\ \A x \in N, f \in Dirs : x # u.child[g][o] /\ u.red[x] => ~Red(u, u.child[x][f])
      <4>1. ~Red(u, u.child[p][d])
        BY <2>1, <2>4, <2>6
      <4>2. u.child[g][o] = p /\ p # Null /\ u.red[p] /\ ~Red(u, u.child[g][d])
        BY <2>1 DEF p
      <4> QED BY <2>5, <4>1, <4>2
    <3>b. Tree(w, N, LoTurned(lo, g, u.child[g][o], d), HiTurned(hi, g, u.child[g][o], d))
      BY Zenon, <1>0, <2>1, <2>2, <3>2, <3>a, TurnTree
    <3>3. Tree(w, N, LoTurned(lo, g, p, d), HiTurned(hi, g, p, d))
      BY <2>1, <3>b
    <3>4. \E bh2 \in Heights : Even(w, N, bh2)
      <4> DEFINE bh2 == [bh EXCEPT ![u.child[g][o]] = bh[g], ![g] = bh[u.child[g][o]]]
      <4>1. bh2 \in Heights /\ Even(w, N, bh2)
        BY <1>0, <1>00, <2>1, <2>2, <2>3, <3>2, <3>a, TurnEven
      <4> QED BY <4>1
    <3>5. Cool(w, N)
      BY <1>0, <2>1, <2>2, <3>2, <3>a, TurnCool
    <3>6. IsRepaired(w, LoTurned(lo, g, p, d), HiTurned(hi, g, p, d), u, lo, hi, q)
      BY <1>2, <2>2, <2>6, <3>2 DEF IsRepaired, g, p, d, o, h
    <3>7. Shape(w, N, LoTurned(lo, g, p, d), HiTurned(hi, g, p, d))
      BY <3>3, <3>4, <3>5 DEF Shape
    <3> QED BY <3>6, <3>7 DEF w
  <2>7. CASE at.dir = d
    <3>0. u.child[u.child[g][1 - d]][d] = q /\ u.child[g][1 - d] = p
      BY <2>1, <2>7
    <3>1. w = TurnedTwice(u, h, e, g, d)
      <4>1. q # u.child[p][o]
        BY <1>0, <2>1, <2>4, <2>7, <1>2
      <4> QED BY <1>2, <2>1, <4>1 DEF Repaired, TurnedTwice
    <3>2. LET r == u.child[g][1 - d]
              s == u.child[r][d]
          IN /\ IsTurnedTwice(TurnedTwice(u, h, e, g, d), u, h, e, g, d, 1 - d)
              /\ Tree(TurnedTwice(u, h, e, g, d), N,
                      LoTurned(LoTurned(lo, r, s, 1 - d), g, s, d),
                      HiTurned(HiTurned(hi, r, s, 1 - d), g, s, d))
              /\ {r, s} \subseteq N /\ r # s /\ r # g /\ s # g /\ h \notin {r, s, g}
      <4> HIDE DEF w, e, d, h, g
      <4> QED BY <1>0, <2>1, <2>2, <3>0, TwiceInTree
    <3>3. /\ IsTurnedTwice(w, u, h, e, g, d, o)
          /\ Tree(w, N, LoTurned(LoTurned(lo, p, q, o), g, q, d), HiTurned(HiTurned(hi, p, q, o), g, q, d))
      <4> HIDE DEF w, e, d, h, g
      <4> QED BY <2>1, <3>0, <3>1, <3>2
    <3> HIDE DEF w, e, d, g, p, o, h
    <3>a. /\ u.child[g][o] # Null /\ u.red[u.child[g][o]] /\ ~Red(u, u.child[g][d])
          /\ u.child[u.child[g][o]][d] # Null /\ u.red[u.child[u.child[g][o]][d]]
          /\ ~Red(u, u.child[u.child[g][o]][o])
          /\ \A x \in N, f \in Dirs : x # u.child[g][o] /\ u.red[x] => ~Red(u, u.child[x][f])
      <4>1. ~Red(u, u.child[p][o]) /\ u.child[p][d] = q
        BY <2>1, <2>4, <2>7
      <4>2. u.child[g][o] = p /\ p # Null /\ u.red[p] /\ u.red[q] /\ ~Red(u, u.child[g][d])
        BY <2>1 DEF p
      <4> QED BY <1>0, <2>5, <4>1, <4>2
    <3>4. \E bh2 \in Heights : Even(w, N, bh2)
      <4> DEFINE bh2 == [bh EXCEPT ![u.child[u.child[g][o]][d]] = bh[g], ![g] = bh[u.child[g][o]]]
      <4>1. bh2 \in Heights /\ Even(w, N, bh2)
        BY SMTT(30), <1>0, <1>00, <2>1, <2>2, <2>3, <3>3, <3>a, TwiceEven
      <4> QED BY <4>1
    <3>5. Cool(w, N)
      BY Zenon, <1>0, <2>1, <2>2, <3>3, <3>a, TwiceCool
    <3>6. IsRepaired(w, LoTurned(LoTurned(lo, p, q, o), g, q, d), HiTurned(HiTurned(hi, p, q, o), g, q, d), u, lo, hi, q)
      BY <1>2, <2>2, <2>7, <3>3 DEF IsRepaired, g, p, d, o, h
    <3>7. Shape(w, N, LoTurned(LoTurned(lo, p, q, o), g, q, d), HiTurned(HiTurned(hi, p, q, o), g, q, d))
      BY <3>3, <3>4, <3>5 DEF Shape
    <3> QED BY <3>6, <3>7 DEF w
  <2> QED BY <2>1, <2>6, <2>7
<1> QED BY <1>1, <1>2

(* The type of the local variables. *)
Locals == [key : Keys, g : Refs, h : Refs, p : Refs, q : Refs, f : Refs,
           dir : Dirs, last : Dirs, lefts : BOOLEAN]

(* insert: p hangs below g, which a rotation may have changed. *)
Straight(u, a) == a.g = Null \/ a.p = u.child[a.g][a.last]

(* A red p of insert may get a red child: g is above it and can be turned.  *)
Turnable(u, N, a) ==
    a.g # Null /\ a.p = u.child[a.g][a.last] /\ Under(u, N, a.g, a.h) /\ ~Red(u, u.child[a.g][1 - a.last])

(* insert below p: q is the next node on the way to key. After a         *)
(* rotation, at most one level is red.                                   *)
InsertingBelow(u, N, lo, hi, a) ==
    /\ a.p \in N /\ a.q = u.child[a.p][a.dir]
    /\ Lower(lo, a.p, a.dir) < a.key /\ a.key < Upper(hi, a.p, a.dir)
    /\ a.g = Null => a.p = u.child[FalseRoot][1] /\ a.h = FalseRoot
    /\ a.g # Null => a.g \in N
    /\ Straight(u, a) => ~(Red(u, u.child[a.p][0]) /\ Red(u, u.child[a.p][1]))
    /\ u.red[a.p] => Calm(u, a.q) \/ Turnable(u, N, a)
    /\ ~Straight(u, a) =>
         /\ ~u.red[a.p] /\ Red(u, a.q)
         /\ a.q # a.key => Calm(u, u.child[a.q][Less(a.q, a.key)])

(* What insert knows at the head of its loop. *)
Inserting(u, N, lo, hi, a) ==
    /\ a \in Locals
    /\ a.p = Null =>
         /\ a.g = Null /\ a.h = FalseRoot
         /\ a.q = u.child[FalseRoot][1] /\ a.q \in N /\ ~u.red[a.q]
         /\ a.dir = 0 /\ a.last = 0 /\ a.lefts
    /\ a.p # Null => InsertingBelow(u, N, lo, hi, a)
    /\ a.lefts => a.dir = 0 /\ a.last = 0 /\ (a.p # Null => lo[a.p] = 0)
    /\ ~a.lefts => \E n \in N : n < a.key

(* at after one iteration of insert's loop *)
Descended(a, w) ==
    /\ a \in Locals
    /\ a.key = at.key /\ a.last = at.dir /\ a.dir = Less(at.q, at.key)
    /\ a.lefts <=> at.lefts /\ a.dir = 0
    /\ a.h = IF at.g # Null THEN at.g ELSE at.h
    /\ a.g = at.p /\ a.p = at.q /\ a.q = w.child[at.q][a.dir]

(* The direction from a node to another key. *)
LEMMA LessFacts ==
    ASSUME NEW n \in Keys, NEW k \in Keys, n # k
    PROVE  Less(n, k) \in Dirs /\ (Less(n, k) = 1 => n < k) /\ (Less(n, k) = 0 => k < n)
           /\ (n < k => Less(n, k) = 1) /\ (k < n => Less(n, k) = 0)
BY DEF Less, Dirs, Keys

(* Where insert's q is. *)
LEMMA AtQ ==
    ASSUME NEW N, NEW lo, NEW hi, Shape(t, N, lo, hi), Inserting(t, N, lo, hi, at),
           NEW q, q = at.q, q # Null
    PROVE  /\ q \in N /\ q \in Keys /\ q \in Nodes /\ lo[q] < at.key /\ at.key < hi[q]
           /\ at.p = Null => t.child[FalseRoot][1] = q /\ lo[q] = 0
           /\ at.p # Null => at.p \in N /\ t.child[at.p][at.dir] = q /\ at.p # q
                             /\ (at.dir = 0 => lo[q] = lo[at.p])
           /\ at.dir \in Dirs /\ at.last \in Dirs /\ at.key \in Keys
<1>1. Tree(t, N, lo, hi) /\ N \subseteq Keys /\ Slot(N, FalseRoot, 1) /\ 1 \in Dirs
  BY Sets DEF Shape, Tree, Slot
<1>2. at \in Locals /\ at.dir \in Dirs /\ at.last \in Dirs /\ at.key \in Keys
  BY DEF Inserting, Locals
<1>3. CASE at.p = Null
  <2>1. t.child[FalseRoot][1] = q /\ q \in N
    BY <1>3 DEF Inserting
  <2>2. lo[q] = Lower(lo, FalseRoot, 1) /\ hi[q] = Upper(hi, FalseRoot, 1)
    BY <1>1, <2>1, SlotFacts
  <2>3. lo[q] = 0 /\ hi[q] = MaxKey + 1
    BY <2>2 DEF Lower, Upper
  <2> QED BY <1>1, <1>2, <1>3, <2>1, <2>3, Sets
<1>4. CASE at.p # Null
  <2>1. /\ at.p \in N /\ q = t.child[at.p][at.dir] /\ Slot(N, at.p, at.dir)
        /\ Lower(lo, at.p, at.dir) < at.key /\ at.key < Upper(hi, at.p, at.dir)
    BY <1>4 DEF Inserting, InsertingBelow, Slot
  <2>2. q \in N /\ lo[q] = Lower(lo, at.p, at.dir) /\ hi[q] = Upper(hi, at.p, at.dir)
    BY <1>1, <1>2, <2>1, SlotFacts
  <2>3. q # at.p
    BY <1>1, <1>2, <2>1, Nested
  <2>4. at.dir = 0 => lo[q] = lo[at.p]
    BY <1>1, <2>1, <2>2, Sets DEF Lower
  <2> QED BY <1>1, <1>2, <1>4, <2>1, <2>2, <2>3, <2>4, Sets
<1> QED BY <1>3, <1>4

(* A turn can repair what is red after the first half. *)
LEMMA DownPlaced ==
    ASSUME NEW N, NEW lo, NEW hi, Shape(t, N, lo, hi), Inserting(t, N, lo, hi, at),
           NEW q, q = at.q, q # Null, NEW w, w = MadeOrFlipped(q)
    PROVE  /\ Placed(w, N, q) /\ Heated(w, N, lo, hi, q) /\ w \in Links /\ w.child = t.child
           /\ Red(w, q) /\ Red(w, at.p) =>
                 /\ Red(t, t.child[q][0]) /\ Red(t, t.child[q][1])
                 /\ at.p # Null /\ Turnable(t, N, at) /\ at.g \in N
<1>1. /\ q \in N /\ q \in Keys /\ q \in Nodes /\ Tree(t, N, lo, hi) /\ Cool(t, N) /\ N \subseteq Keys
      /\ at.p = Null => t.child[FalseRoot][1] = q /\ lo[q] = 0
      /\ at.p # Null => at.p \in N /\ t.child[at.p][at.dir] = q /\ at.p # q
      /\ at.dir \in Dirs /\ at.last \in Dirs
  BY AtQ DEF Shape, Tree
<1>2. /\ Heated(w, N, lo, hi, q) /\ w \in Links /\ w.child = t.child
      /\ Red(t, t.child[q][0]) /\ Red(t, t.child[q][1]) =>
            /\ \A x \in Nodes : x # q /\ w.red[x] => t.red[x]
      /\ ~(Red(t, t.child[q][0]) /\ Red(t, t.child[q][1])) => w = t
  BY <1>1, FlippedHot
<1>3. ASSUME Red(w, q), Red(w, at.p)
      PROVE  /\ Red(t, t.child[q][0]) /\ Red(t, t.child[q][1])
             /\ at.p # Null /\ Turnable(t, N, at) /\ at.g \in N
             /\ at.g \in N /\ w.child[at.g][at.last] = at.p /\ Under(w, N, at.g, at.h)
             /\ ~Red(w, w.child[at.g][1 - at.last])
  <2>1. at.p # Null /\ at.p \in N /\ at.p \in Nodes
    BY <1>1, <1>3, Sets DEF Red
  <2>2. Red(t, t.child[q][0]) /\ Red(t, t.child[q][1])
    <3> SUFFICES ASSUME ~(Red(t, t.child[q][0]) /\ Red(t, t.child[q][1])) PROVE FALSE
      OBVIOUS
    <3>1. w = t /\ t.red[at.p] /\ Red(t, q)
      BY <1>2, <1>3 DEF Red
    <3>2. ~Red(t, t.child[at.p][at.dir])
      BY <1>1, <2>1, <3>1 DEF Cool
    <3> QED BY <1>1, <2>1, <3>1, <3>2
  <2>3. t.red[at.p]
    BY <1>1, <1>2, <1>3, <2>1, <2>2 DEF Red
  <2>4. Turnable(t, N, at) /\ at.g # Null /\ at.g \in N
    <3>1. ~Calm(t, at.q)
      BY <2>2 DEF Calm
    <3> QED BY <2>1, <2>3, <3>1 DEF Inserting, InsertingBelow, Turnable
  <2>5. t.child[at.g][at.last] = at.p /\ Under(w, N, at.g, at.h) /\ ~Red(t, t.child[at.g][1 - at.last])
    BY <1>2, <2>4 DEF Turnable, Under
  <2>6. 1 - at.last \in Dirs /\ Slot(N, at.p, at.dir) /\ Slot(N, at.g, 1 - at.last)
    BY <1>1, <2>1, <2>4 DEF Dirs, Slot
  <2>7. at.g # at.p
    BY <1>1, <2>1, <2>4, <2>5, Nested
  <2>8. t.child[at.g][1 - at.last] # q
    BY <1>1, <2>1, <2>6, <2>7, OnePlace
  <2>9. t.child[at.g][1 - at.last] \in Nodes \cup {Null}
    BY <1>1, <2>4, <2>6, Sets DEF Tree, Linked
  <2>10. ~Red(w, w.child[at.g][1 - at.last])
    BY <1>2, <2>2, <2>5, <2>8, <2>9 DEF Red
  <2> QED BY <1>2, <2>1, <2>2, <2>4, <2>5, <2>10
<1>4. Placed(w, N, q)
  BY <1>1, <1>2, <1>3 DEF Placed
<1> QED BY <1>2, <1>3, <1>4

(* What insert's locals become whichever turn was made. *)
LEMMA DescendedTo ==
    ASSUME NEW N, NEW lo, NEW hi, Shape(t, N, lo, hi), Inserting(t, N, lo, hi, at),
           NEW q, q = at.q, q # Null, q # at.key, NEW w, NEW a, Descended(a, w),
           NEW lo2, NEW hi2, lo2[q] \in Int, hi2[q] \in Int, lo2[q] <= lo[q], hi[q] <= hi2[q],
           at.lefts => lo2[q] = lo[q]
    PROVE  /\ a \in Locals /\ a.p = q /\ a.g = at.p /\ a.last = at.dir /\ a.dir \in Dirs
           /\ a.key = at.key /\ a.q = w.child[q][a.dir] /\ a.dir = Less(q, a.key)
           /\ Lower(lo2, q, a.dir) < a.key /\ a.key < Upper(hi2, q, a.dir)
           /\ a.lefts => a.dir = 0 /\ a.last = 0 /\ lo2[a.p] = 0
           /\ ~a.lefts => \E n \in N : n < a.key
           /\ a.g = Null => a.h = FalseRoot
<1>1. /\ q \in N /\ q \in Keys /\ lo[q] < at.key /\ at.key < hi[q] /\ at.key \in Keys
      /\ at.p = Null => lo[q] = 0
      /\ at.p # Null => (at.dir = 0 => lo[q] = lo[at.p])
  BY AtQ
<1>2. a.dir = Less(q, at.key) /\ a.dir \in Dirs /\ (a.dir = 1 => q < at.key) /\ (a.dir = 0 => at.key < q)
  BY <1>1, LessFacts DEF Descended
<1>3. /\ a \in Locals /\ a.p = q /\ a.g = at.p /\ a.last = at.dir /\ a.key = at.key
      /\ a.q = w.child[q][a.dir]
      /\ a.lefts => at.lefts /\ a.dir = 0
      /\ ~a.lefts => ~at.lefts \/ a.dir # 0
  BY DEF Descended
<1>4. Lower(lo2, q, a.dir) < a.key /\ a.key < Upper(hi2, q, a.dir)
  <2>1. q # FalseRoot /\ (a.dir = 0 \/ a.dir = 1) /\ q \in Int /\ at.key \in Int
    BY <1>1, <1>2, Sets
  <2>2. lo[q] \in Int /\ hi[q] \in Int
    BY <1>1 DEF Shape, Tree
  <2>3. CASE a.dir = 0
    BY <1>1, <1>2, <1>3, <2>1, <2>2, <2>3 DEF Lower, Upper
  <2>4. CASE a.dir = 1
    BY <1>1, <1>2, <1>3, <2>1, <2>2, <2>4 DEF Lower, Upper
  <2> QED BY <2>1, <2>3, <2>4
<1>5. a.lefts => a.dir = 0 /\ a.last = 0 /\ lo2[a.p] = 0
  <2> SUFFICES ASSUME a.lefts PROVE a.dir = 0 /\ a.last = 0 /\ lo2[a.p] = 0
    OBVIOUS
  <2>1. at.lefts /\ at.dir = 0 /\ (at.p # Null => lo[at.p] = 0)
    BY <1>3 DEF Inserting
  <2> QED BY <1>1, <1>3, <2>1
<1>6. ~a.lefts => \E n \in N : n < a.key
  <2>1. CASE ~at.lefts
    BY <1>3, <2>1 DEF Inserting
  <2>2. CASE a.dir # 0
    BY <1>1, <1>2, <1>3, <2>2, Sets
  <2> QED BY <1>3, <2>1, <2>2
<1>7. a.g = Null => a.h = FalseRoot
  BY <1>3 DEF Descended, Inserting
<1> QED BY <1>2, <1>3, <1>4, <1>5, <1>6, <1>7

(* No turn. *)
LEMMA DownSame ==
    ASSUME NEW N, NEW lo, NEW hi, Shape(t, N, lo, hi), Inserting(t, N, lo, hi, at),
           NEW q, q = at.q, q # Null, q # at.key, NEW w, w = MadeOrFlipped(q), NEW a, Descended(a, w)
    PROVE  Inserting(w, N, lo, hi, a)
<1>1. /\ q \in N /\ q \in Keys /\ q \in Nodes /\ lo[q] \in Int /\ hi[q] \in Int
      /\ Tree(t, N, lo, hi) /\ Cool(t, N) /\ N \subseteq Keys
      /\ at.p = Null => t.child[FalseRoot][1] = q
      /\ at.p # Null => at.p \in N /\ t.child[at.p][at.dir] = q /\ at.p # q
      /\ at.dir \in Dirs /\ at.last \in Dirs
  BY AtQ DEF Shape, Tree
<1>2. /\ w \in Links /\ w.child = t.child
      /\ Red(t, t.child[q][0]) /\ Red(t, t.child[q][1]) =>
            /\ \A f \in Dirs : Calm(w, w.child[q][f])
      /\ ~(Red(t, t.child[q][0]) /\ Red(t, t.child[q][1])) => w = t
  BY <1>1, FlippedHot
<1>3. /\ a \in Locals /\ a.p = q /\ a.g = at.p /\ a.last = at.dir /\ a.dir \in Dirs
      /\ a.key = at.key /\ a.q = w.child[q][a.dir] /\ a.dir = Less(q, a.key)
      /\ Lower(lo, q, a.dir) < a.key /\ a.key < Upper(hi, q, a.dir)
      /\ a.lefts => a.dir = 0 /\ a.last = 0 /\ lo[a.p] = 0
      /\ ~a.lefts => \E n \in N : n < a.key
      /\ a.g = Null => a.h = FalseRoot
  BY <1>1, DescendedTo
<1>4. Straight(w, a)
  BY <1>1, <1>2, <1>3 DEF Straight
<1>5. ~(Red(w, w.child[q][0]) /\ Red(w, w.child[q][1]))
  <2>1. CASE Red(t, t.child[q][0]) /\ Red(t, t.child[q][1])
    BY <1>2, <2>1, Sets DEF Calm, Red
  <2>2. CASE ~(Red(t, t.child[q][0]) /\ Red(t, t.child[q][1]))
    BY <1>2, <2>2
  <2> QED BY <2>1, <2>2
<1>6. ASSUME w.red[q] PROVE Calm(w, a.q) \/ Turnable(w, N, a)
  <2>1. CASE Red(t, t.child[q][0]) /\ Red(t, t.child[q][1])
    BY <1>2, <1>3, <2>1
  <2>2. CASE ~(Red(t, t.child[q][0]) /\ Red(t, t.child[q][1]))
    <3>1. w = t /\ t.red[q]
      BY <1>2, <1>6, <2>2
    <3>2. at.p # Null
      BY <1>1, <3>1 DEF Inserting
    <3>3. InsertingBelow(t, N, lo, hi, at) /\ at.p \in N /\ t.child[at.p][at.dir] = q
      BY <1>1, <3>2 DEF Inserting
    <3>4. CASE ~Straight(t, at)
      BY <1>3, <3>1, <3>3, <3>4 DEF InsertingBelow
    <3>5. CASE Straight(t, at)
      <4>1. ~Red(t, t.child[at.p][1 - at.dir])
        <5>1. ~(Red(t, t.child[at.p][0]) /\ Red(t, t.child[at.p][1])) /\ Red(t, t.child[at.p][at.dir])
          BY <1>1, <3>1, <3>3, <3>5 DEF InsertingBelow, Red
        <5>2. at.dir = 0 \/ at.dir = 1
          BY <1>1, Sets
        <5>3. CASE at.dir = 0
          BY <5>1, <5>3
        <5>4. CASE at.dir = 1
          BY <5>1, <5>4
        <5> QED BY <5>2, <5>3, <5>4
      <4>2. Under(t, N, at.p, a.h)
        <5>1. CASE at.g = Null
          <6>1. at.p = t.child[FalseRoot][1] /\ a.h = FalseRoot
            BY <3>3, <5>1 DEF InsertingBelow, Descended
          <6> QED BY <6>1, Sets DEF Under, Slot
        <5>2. CASE at.g # Null
          <6>1. at.p = t.child[at.g][at.last] /\ a.h = at.g /\ at.g \in N
            BY <3>3, <3>5, <5>2 DEF InsertingBelow, Descended, Straight
          <6> QED BY <1>1, <6>1 DEF Under, Slot
        <5> QED BY <5>1, <5>2
      <4> QED BY <1>3, <3>1, <3>2, <3>3, <4>1, <4>2 DEF Turnable
    <3> QED BY <3>4, <3>5
  <2> QED BY <2>1, <2>2
<1>7. a.g = Null => q = w.child[FalseRoot][1]
  BY <1>1, <1>2, <1>3
<1>8. InsertingBelow(w, N, lo, hi, a)
  BY <1>1, <1>3, <1>4, <1>5, <1>6, <1>7 DEF InsertingBelow
<1> QED BY <1>1, <1>3, <1>8 DEF Inserting

(* A single turn. *)
LEMMA DownOnce ==
    ASSUME NEW N, NEW lo, NEW hi, Shape(t, N, lo, hi), Inserting(t, N, lo, hi, at),
           NEW q, q = at.q, q # Null, q # at.key, NEW u, u = MadeOrFlipped(q),
           NEW p, p = at.p, NEW g, g = at.g, NEW h, h = at.h, NEW o, o = at.last, NEW d, d = 1 - o,
           Red(u, q), Red(u, p), at.dir = o,
           NEW w, NEW e \in Dirs, IsTurned(w, u, h, e, g, d, o),
           NEW a, Descended(a, w),
           NEW lo2, lo2 = LoTurned(lo, g, p, d), NEW hi2, hi2 = HiTurned(hi, g, p, d)
    PROVE  Inserting(w, N, lo2, hi2, a)
<1>1. /\ q \in N /\ q \in Keys /\ q \in Nodes /\ lo[q] \in Int /\ hi[q] \in Int
      /\ Tree(t, N, lo, hi) /\ N \subseteq Keys
      /\ p # Null => p \in N /\ t.child[p][o] = q /\ p # q
      /\ o \in Dirs /\ d \in Dirs /\ o # d
      /\ lo \in [Keys -> Int] /\ hi \in [Keys -> Int]
  BY AtQ DEF Shape, Tree, Dirs
<1>2. /\ u.child = t.child /\ u \in Links /\ Tree(u, N, lo, hi)
      /\ Red(t, t.child[q][0]) /\ Red(t, t.child[q][1])
      /\ p # Null /\ Turnable(t, N, at) /\ g \in N /\ t.child[g][o] = p
  BY DownPlaced DEF Heated, Turnable
<1>3. \A f \in Dirs : Calm(u, u.child[q][f])
  BY <1>1, <1>2, FlippedHot
<1>4. PICK e1 \in Dirs : Slot(N, h, e1) /\ u.child[h][e1] = g
  BY <1>2 DEF Turnable, Under
<1>5. Kin(u, N, h, e1, g, d, o)
  <2>1. u.child[g][o] # Null
    BY <1>2
  <2> QED BY <1>1, <1>2, <1>4, <2>1, Family
<1>6. /\ u.child[g][o] = p /\ u.child[p][o] = q /\ p \in N /\ q \in N /\ g \in N
      /\ h \notin {g, p, q} /\ q \notin {g, p} /\ g # p
      /\ \A x \in N, f \in Dirs : u.child[x][f] = g => x = h
      /\ \A x \in N, f \in Dirs : u.child[x][f] = p => x = g
  <2>1. u.child[g][o] = p /\ u.child[p][o] = q /\ q # Null
    BY <1>1, <1>2
  <2> QED BY <1>1, <1>2, <1>5, <2>1 DEF Kin
<1>7. /\ \A x \in Nodes, f \in Dirs : x \notin {g, p, h} => w.child[x][f] = u.child[x][f]
      /\ w.child[p][o] = q
      /\ \A x \in Nodes : x # g /\ w.red[x] => u.red[x]
  <2>1. \A x \in Nodes, f \in Dirs :
             w.child[x][f] = IF x = g /\ f = o THEN u.child[p][d]
                             ELSE IF x = p /\ f = d THEN g
                             ELSE IF x = h /\ f = e THEN p
                             ELSE u.child[x][f]
    BY <1>6 DEF IsTurned
  <2>2. p \in Nodes
    BY <1>1, <1>6, Sets
  <2>3. ASSUME NEW x \in Nodes, x # g, w.red[x] PROVE u.red[x]
    <3>1. w.red[x] = IF x = u.child[g][o] THEN FALSE ELSE IF x = g THEN TRUE ELSE u.red[x]
      BY Zenon DEF IsTurned
    <3> QED BY Zenon, <2>3, <3>1
  <2> QED BY <1>1, <1>6, <2>1, <2>2, <2>3
<1>8. ASSUME NEW f \in Dirs PROVE Calm(w, w.child[q][f])
  <2> DEFINE c == u.child[q][f]
  <2>1. Calm(u, c) /\ c # Null
    BY <1>3 DEF Calm
  <2>2. c \in N /\ w.child[q][f] = c /\ c \in Nodes
    BY <1>1, <1>2, <1>6, <1>7, <2>1, Sets DEF Tree, Linked, Slot
  <2>3. c # g /\ c # p
    BY <1>6
  <2>4. c # h
    <3>1. /\ lo[p] \in Int /\ lo[q] \in Int /\ lo[c] \in Int /\ lo[g] \in Int
          /\ hi[p] \in Int /\ hi[q] \in Int /\ hi[c] \in Int /\ hi[g] \in Int
          /\ lo[p] <= lo[q] /\ hi[q] <= hi[p] /\ lo[q] <= lo[c] /\ hi[c] <= hi[q]
          /\ lo[g] <= lo[p] /\ hi[p] <= hi[g]
      <4> HIDE DEF c
      <4>1. u.child[q][f] # Null /\ u.child[q][f] = c
        BY <2>1 DEF c
      <4>2. p # Null /\ q # Null
        BY <1>2
      <4>3. lo[p] <= lo[q] /\ hi[q] <= hi[p] /\ lo[q] \in Int /\ hi[q] \in Int
            /\ lo[p] \in Int /\ hi[p] \in Int
        BY <1>1, <1>2, <1>6, <4>2, Nested
      <4>4. lo[q] <= lo[c] /\ hi[c] <= hi[q] /\ lo[c] \in Int /\ hi[c] \in Int
        BY <1>1, <1>2, <1>6, <4>1, Nested
      <4>5. lo[g] <= lo[p] /\ hi[p] <= hi[g] /\ lo[g] \in Int /\ hi[g] \in Int
        BY <1>1, <1>2, <1>6, <4>2, Nested
      <4> QED BY <4>3, <4>4, <4>5
    <3>2. u.child[h][e1] # Null /\ lo[u.child[h][e1]] <= lo[c] /\ hi[c] <= hi[u.child[h][e1]]
      BY <1>1, <1>4, <1>6, <3>1, Sets
    <3> HIDE DEF c
    <3> QED BY <1>2, <1>4, <2>2, <3>2, Above
  <2>5. \A i \in Dirs : w.child[c][i] = u.child[c][i]
    BY <1>7, <2>2, <2>3, <2>4
  <2>6. ASSUME NEW i \in Dirs, Red(w, u.child[c][i]) PROVE Red(u, u.child[c][i])
    <3>1. u.child[c][i] # g /\ u.child[c][i] \in Nodes
      BY <1>1, <1>2, <1>6, <2>2, <2>4, <2>6, Sets DEF Tree, Linked, Slot, Red
    <3> QED BY <1>7, <2>6, <3>1 DEF Red
  <2>7. ~w.red[c]
    BY <1>7, <2>1, <2>2, <2>3 DEF Calm
  <2> HIDE DEF c
  <2>8. Calm(w, c)
    BY <2>1, <2>5, <2>6, <2>7, Sets DEF Calm
  <2> QED BY <2>2, <2>8
<1>9. lo2[q] = lo[q] /\ hi2[q] = hi[q]
  BY <1>1, <1>6 DEF LoTurned, HiTurned
<1>10. /\ a \in Locals /\ a.p = q /\ a.g = at.p /\ a.last = at.dir /\ a.dir \in Dirs
       /\ a.key = at.key /\ a.q = w.child[q][a.dir] /\ a.dir = Less(q, a.key)
       /\ Lower(lo2, q, a.dir) < a.key /\ a.key < Upper(hi2, q, a.dir)
       /\ a.lefts => a.dir = 0 /\ a.last = 0 /\ lo2[a.p] = 0
       /\ ~a.lefts => \E n \in N : n < a.key
       /\ a.g = Null => a.h = FalseRoot
  BY <1>1, <1>9, DescendedTo
<1>14. a.g = p /\ a.last = o /\ a.p = q /\ a.key = at.key
  BY <1>10
<1>11. Straight(w, a)
  <2>1. w.child[p][o] = q
    BY <1>7
  <2>2. a.p = w.child[a.g][a.last]
    BY <1>14, <2>1
  <2> QED BY <2>2 DEF Straight
<1>12. ~Red(w, w.child[q][0]) /\ ~Red(w, w.child[q][1])
  BY <1>8, Sets DEF Calm, Red
<1>13. InsertingBelow(w, N, lo2, hi2, a)
  <2>1. /\ a.p \in N /\ a.q = w.child[a.p][a.dir] /\ a.g # Null /\ a.g \in N
        /\ Lower(lo2, a.p, a.dir) < a.key /\ a.key < Upper(hi2, a.p, a.dir)
    BY <1>1, <1>2, <1>6, <1>10, <1>14
  <2>2. Calm(w, a.q)
    BY <1>8, <1>10
  <2>3. ~Red(w, w.child[a.p][0])
    BY <1>12, <1>14
  <2> QED BY <1>11, <2>1, <2>2, <2>3 DEF InsertingBelow
<1>15. a.p # Null
  BY <1>1, <1>14
<1> QED BY <1>10, <1>13, <1>15 DEF Inserting

(* A double turn. *)
LEMMA DownTwice ==
    ASSUME NEW N, NEW lo, NEW hi, Shape(t, N, lo, hi), Inserting(t, N, lo, hi, at),
           NEW q, q = at.q, q # Null, q # at.key, NEW u, u = MadeOrFlipped(q),
           NEW p, p = at.p, NEW g, g = at.g, NEW h, h = at.h, NEW o, o = at.last, NEW d, d = 1 - o,
           Red(u, q), Red(u, p), at.dir = d,
           NEW w, NEW e \in Dirs, IsTurnedTwice(w, u, h, e, g, d, o),
           NEW a, Descended(a, w),
           NEW lo2, lo2 = LoTurned(LoTurned(lo, p, q, o), g, q, d),
           NEW hi2, hi2 = HiTurned(HiTurned(hi, p, q, o), g, q, d)
    PROVE  Inserting(w, N, lo2, hi2, a)
<1>1. /\ q \in N /\ q \in Keys /\ q \in Nodes /\ lo[q] \in Int /\ hi[q] \in Int
      /\ lo[q] < at.key /\ at.key < hi[q] /\ at.key \in Keys
      /\ Tree(t, N, lo, hi) /\ N \subseteq Keys
      /\ p # Null => p \in N /\ t.child[p][d] = q /\ p # q
      /\ o \in Dirs /\ d \in Dirs /\ o # d /\ o = 1 - d
      /\ lo \in [Keys -> Int] /\ hi \in [Keys -> Int]
  BY AtQ DEF Shape, Tree, Dirs
<1>2. /\ u.child = t.child /\ u \in Links /\ Tree(u, N, lo, hi)
      /\ Red(t, t.child[q][0]) /\ Red(t, t.child[q][1])
      /\ p # Null /\ Turnable(t, N, at) /\ g \in N /\ t.child[g][o] = p
  BY DownPlaced DEF Heated, Turnable
<1>3. \A f \in Dirs : Calm(u, u.child[q][f])
  BY <1>1, <1>2, FlippedHot
<1>4. PICK e1 \in Dirs : Slot(N, h, e1) /\ u.child[h][e1] = g
  BY <1>2 DEF Turnable, Under
<1>5. Kin(u, N, h, e1, g, d, o)
  <2>1. u.child[g][o] # Null
    BY <1>2
  <2> QED BY <1>1, <1>2, <1>4, <2>1, Family
<1>6. /\ u.child[g][o] = p /\ u.child[p][d] = q /\ p \in N /\ q \in N /\ g \in N
      /\ h \notin {g, p, q} /\ q \notin {g, p} /\ g # p
      /\ \A x \in N, f \in Dirs : u.child[x][f] = g => x = h
      /\ \A x \in N, f \in Dirs : u.child[x][f] = p => x = g
      /\ \A x \in N, f \in Dirs : u.child[x][f] = q => x = p
  <2>1. u.child[g][o] = p /\ u.child[p][d] = q /\ q # Null
    BY <1>1, <1>2
  <2> QED BY <1>1, <1>2, <1>5, <2>1 DEF Kin
<1>7. /\ \A x \in Nodes, f \in Dirs : x \notin {g, p, q, h} => w.child[x][f] = u.child[x][f]
      /\ w.child[q][d] = g /\ w.child[q][o] = p
      /\ w.child[g][o] = u.child[q][d] /\ w.child[p][d] = u.child[q][o]
      /\ w.red[g] /\ w.red[p] /\ ~w.red[q]
      /\ \A x \in Nodes : x # g /\ x # p /\ w.red[x] => u.red[x]
  <2>1. \A x \in Nodes, f \in Dirs :
             w.child[x][f] = IF x = g /\ f = o THEN u.child[q][d]
                             ELSE IF x = p /\ f = d THEN u.child[q][o]
                             ELSE IF x = q THEN IF f = d THEN g ELSE p
                             ELSE IF x = h /\ f = e THEN q
                             ELSE u.child[x][f]
    BY <1>6 DEF IsTurnedTwice
  <2>2. p \in Nodes /\ g \in Nodes /\ q \in Nodes
    BY <1>1, <1>6, Sets
  <2>3. \A x \in Nodes :
             w.red[x] = IF x = q THEN FALSE ELSE IF x \in {g, p} THEN TRUE ELSE u.red[x]
    <3> SUFFICES ASSUME NEW x \in Nodes
                 PROVE  w.red[x] = IF x = q THEN FALSE ELSE IF x \in {g, p} THEN TRUE ELSE u.red[x]
      BY Zenon
    <3>1. w.red[x] = IF x = u.child[u.child[g][o]][d] THEN FALSE
                     ELSE IF x \in {g, u.child[g][o]} THEN TRUE ELSE u.red[x]
      BY Zenon DEF IsTurnedTwice
    <3>2. u.child[g][o] = p /\ u.child[u.child[g][o]][d] = q
      BY <1>6
    <3> QED BY <3>1, <3>2
  <2>4. w.red[g] = TRUE /\ w.red[p] = TRUE /\ w.red[q] = FALSE
    BY Zenon, <1>6, <2>2, <2>3
  <2>5. ASSUME NEW x \in Nodes, x # g, x # p, w.red[x] PROVE u.red[x]
    <3>1. x # q
      BY <2>4, <2>5
    <3>2. w.red[x] = u.red[x]
      BY Zenon, <2>3, <2>5, <3>1
    <3> QED BY <2>5, <3>2
  <2>6. /\ \A x \in Nodes, f \in Dirs : x \notin {g, p, q, h} => w.child[x][f] = u.child[x][f]
        /\ w.child[q][d] = g /\ w.child[q][o] = p
        /\ w.child[g][o] = u.child[q][d] /\ w.child[p][d] = u.child[q][o]
    BY <1>1, <1>6, <2>1, <2>2
  <2> QED BY <2>4, <2>5, <2>6
<1>20. /\ lo[p] <= lo[q] /\ hi[q] <= hi[p] /\ lo[g] <= lo[p] /\ hi[p] <= hi[g]
       /\ {lo[p], lo[q], lo[g], hi[p], hi[q], hi[g]} \subseteq Int
       /\ o = 1 => lo[p] = g
       /\ o = 0 => hi[p] = g
       /\ d = 1 => lo[q] = p /\ hi[q] = hi[p]
       /\ d = 0 => hi[q] = p /\ lo[q] = lo[p]
  <2>1. p # Null /\ q # Null
    BY <1>2
  <2>2. lo[p] <= lo[q] /\ hi[q] <= hi[p] /\ lo[q] \in Int /\ hi[q] \in Int
            /\ lo[p] \in Int /\ hi[p] \in Int
            /\ (d = 0 => hi[q] = p /\ lo[q] = lo[p]) /\ (d = 1 => lo[q] = p /\ hi[q] = hi[p])
    BY <1>1, <1>2, <1>6, <2>1, Nested
  <2>3. lo[g] <= lo[p] /\ hi[p] <= hi[g] /\ lo[g] \in Int /\ hi[g] \in Int
            /\ (o = 0 => hi[p] = g) /\ (o = 1 => lo[p] = g)
    BY <1>1, <1>2, <1>6, <2>1, Nested
  <2> QED BY <2>2, <2>3
<1>8. ASSUME NEW f \in Dirs PROVE Calm(w, u.child[q][f])
  <2> DEFINE c == u.child[q][f]
  <2>1. Calm(u, c) /\ c # Null
    BY <1>3 DEF Calm
  <2>2. c \in N /\ c \in Nodes
    <3>1. Slot(N, q, f) /\ q \in Nodes
      BY <1>1 DEF Slot
    <3>2. c \in N \cup {Null}
      BY <1>2, <3>1 DEF Tree, Linked
    <3> QED BY <1>1, <2>1, <3>2, Sets
  <2>3. c # g /\ c # p /\ c # q
    BY <1>6
  <2>4. c # h
    <3>1. u.child[q][f] # Null /\ u.child[q][f] = c
        BY <2>1
    <3> HIDE DEF c
    <3>2. lo[q] <= lo[c] /\ hi[c] <= hi[q] /\ lo[c] \in Int /\ hi[c] \in Int
        BY <1>1, <1>2, <1>6, <3>1, Nested
    <3>3. lo[g] <= lo[c] /\ hi[c] <= hi[g]
        BY <1>20, <3>2
    <3>4. u.child[h][e1] # Null /\ lo[u.child[h][e1]] <= lo[c] /\ hi[c] <= hi[u.child[h][e1]]
      BY <1>1, <1>4, <1>6, <3>3, Sets
    <3> QED BY <1>2, <1>4, <2>2, <3>4, Above
  <2>5. \A i \in Dirs : w.child[c][i] = u.child[c][i]
    BY <1>7, <2>2, <2>3, <2>4
  <2>6. ASSUME NEW i \in Dirs, Red(w, u.child[c][i]) PROVE Red(u, u.child[c][i])
    <3> HIDE DEF c
    <3>1. u.child[c][i] # g /\ u.child[c][i] # p /\ u.child[c][i] \in Nodes
      <4>1. u.child[c][i] # g /\ u.child[c][i] # p
        BY <1>6, <2>2, <2>3, <2>4
      <4>2. u.child[c][i] \in N \cup {Null} /\ u.child[c][i] # Null
        BY <1>2, <2>2, <2>6 DEF Tree, Linked, Slot, Red
      <4> QED BY <1>1, <4>1, <4>2, Sets
    <3> QED BY <1>7, <2>6, <3>1 DEF Red
  <2>7. ~w.red[c]
    BY <1>7, <2>1, <2>2, <2>3 DEF Calm
  <2> HIDE DEF c
  <2>8. Calm(w, c)
    BY <2>1, <2>5, <2>6, <2>7, Sets DEF Calm
  <2> QED BY <2>8 DEF c
<1>9. lo2[q] = lo[g] /\ hi2[q] = hi[g]
  <2>1. LoTurned(lo, p, q, o)[g] = lo[g] /\ HiTurned(hi, p, q, o)[g] = hi[g]
        /\ LoTurned(lo, p, q, o) \in [Keys -> Int] /\ HiTurned(hi, p, q, o) \in [Keys -> Int]
    BY <1>1, <1>6, Sets DEF LoTurned, HiTurned
  <2> QED BY <1>1, <1>6, <2>1 DEF LoTurned, HiTurned
<1>b. at.lefts => lo2[q] = lo[q]
  <2>1. at.lefts => at.dir = 0 /\ at.last = 0
    BY DEF Inserting
  <2> QED BY <1>1, <2>1
<1>10. /\ a \in Locals /\ a.p = q /\ a.g = at.p /\ a.last = at.dir /\ a.dir \in Dirs
       /\ a.key = at.key /\ a.q = w.child[q][a.dir] /\ a.dir = Less(q, a.key)
       /\ Lower(lo2, q, a.dir) < a.key /\ a.key < Upper(hi2, q, a.dir)
       /\ a.lefts => a.dir = 0 /\ a.last = 0 /\ lo2[a.p] = 0
       /\ ~a.lefts => \E n \in N : n < a.key
       /\ a.g = Null => a.h = FalseRoot
  <2>1. lo2[q] \in Int /\ hi2[q] \in Int /\ lo2[q] <= lo[q] /\ hi[q] <= hi2[q]
    BY <1>9, <1>20
  <2> QED BY <1>1, <1>b, <2>1, DescendedTo
<1>14. a.g = p /\ a.last = d /\ a.p = q /\ a.key = at.key
  BY <1>10
<1>11. ~Straight(w, a)
  <2>1. w.child[a.g][a.last] = u.child[q][o]
    BY <1>7, <1>14
  <2>2. u.child[q][o] # q
    BY <1>1, <1>6
  <2> QED BY <1>1, <1>2, <1>14, <2>1, <2>2 DEF Straight
<1>12. Red(w, a.q) /\ Calm(w, w.child[a.q][Less(a.q, a.key)])
  <2>1. a.dir = d \/ a.dir = o
    BY <1>1, <1>10, Sets
  <2>2. (a.dir = 1 => q < at.key) /\ (a.dir = 0 => at.key < q)
    BY <1>1, <1>10, <1>14, LessFacts
  <2>3. o = 0 \/ o = 1
    BY <1>1, Sets
  <2>4. at.key \in Int /\ q \in Int /\ p \in Int /\ g \in Int /\ p \in Keys /\ g \in Keys /\ p # Null /\ g # Null
    BY <1>1, <1>6, Sets
  <2>5. CASE a.dir = d
    <3>1. a.q = g
      BY <1>7, <1>10, <2>5
    <3>2. (o = 1 => g < at.key) /\ (o = 0 => at.key < g)
      BY <1>1, <1>20, <2>2, <2>4, <2>5
    <3>3. Less(g, at.key) = o
      BY <1>1, <2>3, <2>4, <3>2, LessFacts
    <3>4. Calm(w, w.child[g][o])
      BY Zenon, <1>1, <1>7, <1>8
    <3> QED BY <1>7, <1>14, <2>4, <3>1, <3>3, <3>4 DEF Red
  <2>6. CASE a.dir = o
    <3>1. a.q = p
      BY <1>7, <1>10, <2>6
    <3>2. (d = 1 => p < at.key) /\ (d = 0 => at.key < p)
      BY <1>1, <1>20, <2>2, <2>4, <2>6
    <3>3. Less(p, at.key) = d
      BY <1>1, <2>3, <2>4, <3>2, LessFacts
    <3>4. Calm(w, w.child[p][d])
      BY <1>1, <1>7, <1>8
    <3> QED BY <1>7, <1>14, <2>4, <3>1, <3>3, <3>4 DEF Red
  <2> QED BY <2>1, <2>5, <2>6
<1>13. InsertingBelow(w, N, lo2, hi2, a)
  <2>1. /\ a.p \in N /\ a.q = w.child[a.p][a.dir] /\ a.g # Null /\ a.g \in N
        /\ Lower(lo2, a.p, a.dir) < a.key /\ a.key < Upper(hi2, a.p, a.dir)
    BY <1>1, <1>2, <1>6, <1>10, <1>14
  <2>2. ~w.red[a.p]
    BY <1>7, <1>14
  <2> QED BY <1>11, <1>12, <2>1, <2>2 DEF InsertingBelow
<1>15. a.p # Null
  BY <1>1, <1>14
<1> QED BY <1>10, <1>13, <1>15 DEF Inserting

(* One iteration of insert's loop. *)
LEMMA InsertDownShape ==
    ASSUME NEW N, NEW lo, NEW hi, Shape(t, N, lo, hi), Inserting(t, N, lo, hi, at),
           at.q # Null, at.q # at.key, NEW w, w = Repaired(MadeOrFlipped(at.q), at.q),
           NEW a, Descended(a, w)
    PROVE  \E lo2, hi2 : Shape(w, N, lo2, hi2) /\ Inserting(w, N, lo2, hi2, a)
<1> DEFINE q == at.q
           u == MadeOrFlipped(q)
           p == at.p
           g == at.g
           h == at.h
           o == at.last
           d == 1 - o
<1>1. q \in N /\ Heated(u, N, lo, hi, q) /\ Placed(u, N, q)
  BY AtQ, DownPlaced
<1>2. PICK lo2, hi2 : Shape(w, N, lo2, hi2) /\ IsRepaired(w, lo2, hi2, u, lo, hi, q)
  <2> HIDE DEF u
  <2>1. w = Repaired(u, q)
    BY DEF u
  <2> QED BY <1>1, <2>1, RepairedCool
<1>3. CASE ~(Red(u, q) /\ Red(u, p)) /\ w = u /\ lo2 = lo /\ hi2 = hi
  BY <1>2, <1>3, DownSame
<1>4. CASE /\ Red(u, q) /\ Red(u, p) /\ at.dir = o
           /\ \E e \in Dirs : IsTurned(w, u, h, e, g, d, o)
           /\ lo2 = LoTurned(lo, g, p, d) /\ hi2 = HiTurned(hi, g, p, d)
  <2>1. PICK e \in Dirs : IsTurned(w, u, h, e, g, d, o)
    BY <1>4
  <2>2. q = at.q /\ q # Null /\ q # at.key /\ u = MadeOrFlipped(q) /\ p = at.p /\ g = at.g /\ h = at.h
        /\ o = at.last /\ d = 1 - o
    OBVIOUS
  <2> HIDE DEF q, u, p, g, h, o, d
  <2>3. Inserting(w, N, lo2, hi2, a)
    BY <1>4, <2>1, <2>2, DownOnce
  <2> QED BY <1>2, <2>3
<1>5. CASE /\ Red(u, q) /\ Red(u, p) /\ at.dir = d
           /\ \E e \in Dirs : IsTurnedTwice(w, u, h, e, g, d, o)
           /\ lo2 = LoTurned(LoTurned(lo, p, q, o), g, q, d)
           /\ hi2 = HiTurned(HiTurned(hi, p, q, o), g, q, d)
  <2>1. PICK e \in Dirs : IsTurnedTwice(w, u, h, e, g, d, o)
    BY <1>5
  <2>2. q = at.q /\ q # Null /\ q # at.key /\ u = MadeOrFlipped(q) /\ p = at.p /\ g = at.g /\ h = at.h
        /\ o = at.last /\ d = 1 - o
    OBVIOUS
  <2> HIDE DEF q, u, p, g, h, o, d
  <2>3. Inserting(w, N, lo2, hi2, a)
    BY <1>5, <2>1, <2>2, DownTwice
  <2> QED BY <1>2, <2>3
<1> QED BY <1>2, <1>3, <1>4, <1>5 DEF IsRepaired

(* The node above n. *)
LEMMA ParentSlot ==
    ASSUME NEW u, NEW N, NEW lo, NEW hi, Tree(u, N, lo, hi), NEW n \in N
    PROVE  \/ n = u.child[FalseRoot][1] /\ lo[n] = 0 /\ hi[n] = MaxKey + 1
           \/ \E m \in N, d \in Dirs : u.child[m][d] = n
<1>1. \/ n = u.child[FalseRoot][1] /\ u.parent[n] \in {Null, FalseRoot}
      \/ u.parent[n] \in N /\ \E d \in Dirs : u.child[u.parent[n]][d] = n
  BY DEF Tree, Linked
<1>2. ASSUME n = u.child[FalseRoot][1] PROVE lo[n] = 0 /\ hi[n] = MaxKey + 1
  <2>1. 1 \in Dirs /\ Slot(N, FalseRoot, 1) /\ u.child[FalseRoot][1] # Null
    BY <1>2, Sets DEF Slot, Tree
  <2>2. lo[n] = Lower(lo, FalseRoot, 1) /\ hi[n] = Upper(hi, FalseRoot, 1)
    BY <1>2, <2>1, SlotFacts
  <2> QED BY <2>2 DEF Lower, Upper
<1> QED BY <1>1, <1>2

(* Intervals stay among the keys. *)
LEMMA Bounds ==
    ASSUME NEW u, NEW N, NEW lo, NEW hi, Tree(u, N, lo, hi)
    PROVE  \A n \in N : n \in Nat /\ 0 < n /\ n < MaxKey + 1 /\ 0 <= lo[n] /\ lo[n] < n /\ n < hi[n] /\ hi[n] <= MaxKey + 1
                        /\ lo[n] \in Int /\ hi[n] \in Int
<1>1. \A n \in N : n \in Keys /\ n \in Int /\ 0 < n /\ n < MaxKey + 1 /\ lo[n] \in Int /\ hi[n] \in Int
                   /\ lo[n] < n /\ n < hi[n] /\ n # Null
  BY Sets DEF Tree, Sorted
<1>2. MaxKey \in Int
  BY Sets
<1>3. ASSUME NEW n0 \in N, lo[n0] < 0 PROVE FALSE
  <2> DEFINE T == {k \in Nat : \E n \in N : lo[n] < 0 /\ k = MaxKey - n}
  <2>1. MaxKey - n0 \in T
    BY <1>1, <1>2, <1>3
  <2>2. PICK k \in T : \A y \in T : k <= y
    <3>1. T \subseteq Nat /\ T # {}
      BY <2>1
    <3> HIDE DEF T
    <3> QED BY Zenon, <3>1, LeastNumber
  <2>3. PICK n \in N : lo[n] < 0 /\ k = MaxKey - n
    OBVIOUS
  <2>4. PICK m \in N, d \in Dirs : u.child[m][d] = n
    BY <2>3, ParentSlot
  <2>5. d = 0 \/ d = 1
    BY Sets
  <2>6. (d = 0 => lo[n] = lo[m] /\ n < m) /\ (d = 1 => lo[n] = m)
    BY <1>1, <2>4, Nested
  <2>7. lo[m] < 0 /\ n < m
    BY <1>1, <2>3, <2>5, <2>6
  <2>8. MaxKey - m \in T /\ MaxKey - m < k
    BY <1>1, <1>2, <2>3, <2>7
  <2>9. k \in Nat
    OBVIOUS
  <2> QED BY <1>1, <1>2, <2>2, <2>8, <2>9
<1>4. ASSUME NEW n0 \in N, MaxKey + 1 < hi[n0] PROVE FALSE
  <2> DEFINE T == {n \in N : MaxKey + 1 < hi[n]}
  <2>1. n0 \in T
    BY <1>4
  <2>2. PICK n \in T : \A y \in T : n <= y
    <3>1. T \subseteq Nat /\ T # {}
      BY <1>1, <2>1
    <3> HIDE DEF T
    <3> QED BY Zenon, <3>1, LeastNumber
  <2>4. PICK m \in N, d \in Dirs : u.child[m][d] = n
    BY <1>1, <1>2, <2>2, ParentSlot
  <2>5. d = 0 \/ d = 1
    BY Sets
  <2>6. (d = 1 => hi[n] = hi[m] /\ m < n) /\ (d = 0 => hi[n] = m)
    BY <1>1, <2>4, Nested
  <2>7. m \in T /\ m < n
    BY <1>1, <1>2, <2>2, <2>5, <2>6
  <2> QED BY <1>1, <2>2, <2>7
<1> QED BY <1>1, <1>2, <1>3, <1>4

(* The child of n on the side of k. *)
Toward(u, n, k) == u.child[n][Less(n, k)]

(* Of two nodes with k between their bounds, one is below the other, on the side of k. *)
LEMMA Chain ==
    ASSUME NEW u, NEW N, NEW lo, NEW hi, Tree(u, N, lo, hi), NEW k \in Int,
           NEW x \in N, lo[x] < k, k < hi[x], NEW y \in N, lo[y] < k, k < hi[y],
           x # y, hi[y] - lo[y] <= hi[x] - lo[x]
    PROVE  LET c == Toward(u, x, k)
           IN c # Null /\ c \in N /\ lo[c] <= lo[y] /\ hi[y] <= hi[c]
<1> DEFINE S == {n \in N : lo[n] < k /\ k < hi[n]}
           w(n) == hi[n] - lo[n]
           In(n, c) == c # Null /\ c \in N /\ lo[c] <= lo[n] /\ hi[n] <= hi[c]
           Bad(m, n) == m # n /\ w(n) <= w(m) /\ ~In(n, Toward(u, m, k))
           T == {j \in Nat : \E m, n \in S : Bad(m, n) /\ j = MaxKey + 1 - w(n)}
<1>1. \A n \in N : n \in Int /\ lo[n] \in Int /\ hi[n] \in Int /\ w(n) \in Nat /\ w(n) <= MaxKey + 1 /\ n # Null
                   /\ lo[n] < n /\ n < hi[n] /\ MaxKey + 1 - w(n) \in Nat /\ 0 <= lo[n] /\ hi[n] <= MaxKey + 1
  BY Bounds, Sets DEF Tree
<1>2. MaxKey \in Int /\ x \in S /\ y \in S
  BY Sets
<1>3. ASSUME NEW n \in S, ~(n = u.child[FalseRoot][1] /\ lo[n] = 0 /\ hi[n] = MaxKey + 1)
      PROVE  \E m \in S : Toward(u, m, k) = n /\ w(n) < w(m)
  <2>1. PICK m \in N, d \in Dirs : u.child[m][d] = n
    BY <1>3, ParentSlot
  <2>2. d = 0 \/ d = 1
    BY Sets
  <2>3. /\ lo[m] <= lo[n] /\ hi[n] <= hi[m]
        /\ d = 0 => hi[n] = m /\ lo[n] = lo[m]
        /\ d = 1 => lo[n] = m /\ hi[n] = hi[m]
    BY <1>1, <2>1, Nested
  <2>4. lo[m] < k /\ k < hi[m] /\ (d = 0 => k < m) /\ (d = 1 => m < k) /\ w(n) < w(m)
    BY <1>1, <2>2, <2>3
  <2>5. Less(m, k) = d
    BY <1>1, <2>2, <2>4 DEF Less
  <2> QED BY <2>1, <2>4, <2>5 DEF Toward
<1>4. \A n \in S : w(n) <= MaxKey + 1 /\ (n = u.child[FalseRoot][1] /\ lo[n] = 0 /\ hi[n] = MaxKey + 1 => w(n) = MaxKey + 1)
  BY <1>1, <1>2
<1>5. ASSUME NEW n0 \in S, NEW m0 \in S, Bad(m0, n0) PROVE FALSE
  <2>1. MaxKey + 1 - w(n0) \in T
    BY <1>1, <1>5
  <2>2. PICK j \in T : \A i \in T : j <= i
    <3>1. T \subseteq Nat /\ T # {}
      BY <2>1
    <3> HIDE DEF T
    <3> QED BY Zenon, <3>1, LeastNumber
  <2>3. PICK m \in S, n \in S : Bad(m, n) /\ j = MaxKey + 1 - w(n)
    OBVIOUS
  <2>4. \A a, b \in S : w(n) < w(b) => ~Bad(a, b)
    <3> SUFFICES ASSUME NEW a \in S, NEW b \in S, w(n) < w(b), Bad(a, b) PROVE FALSE
      OBVIOUS
    <3>1. MaxKey + 1 - w(b) \in T
      BY <1>1
    <3> QED BY <1>1, <1>2, <2>2, <2>3, <3>1
  <2>5. \A a \in S : a \in N
    OBVIOUS
  <2> HIDE DEF S, T
  <2>6. ~(n = u.child[FalseRoot][1] /\ lo[n] = 0 /\ hi[n] = MaxKey + 1)
    <3> SUFFICES ASSUME n = u.child[FalseRoot][1], w(n) = MaxKey + 1 PROVE FALSE
      BY <1>4
    <3>1. w(m) = MaxKey + 1 /\ m # n
      BY <1>1, <1>2, <2>3, <2>5
    <3>2. m # u.child[FalseRoot][1]
      BY <3>1
    <3>3. PICK z \in S : w(m) < w(z)
      BY <1>3, <3>2
    <3> QED BY <1>1, <1>2, <1>4, <2>5, <3>1, <3>3
  <2>7. PICK z \in S : Toward(u, z, k) = n /\ w(n) < w(z)
    BY <1>3, <2>6
  <2>8. z # m
    <3> SUFFICES ASSUME z = m PROVE FALSE
      OBVIOUS
    <3>1. In(n, n)
      BY <1>1, <2>5
    <3> QED BY <2>3, <2>7, <3>1
  <2>9. CASE w(z) <= w(m)
    <3>1. In(z, Toward(u, m, k))
      BY <2>4, <2>7, <2>8, <2>9
    <3>2. lo[z] <= lo[n] /\ hi[n] <= hi[z]
      <4>1. z # FalseRoot /\ Less(z, k) \in Dirs /\ u.child[z][Less(z, k)] = n
        <5>1. z \in N /\ FalseRoot \notin N
          BY <2>5, Sets DEF Tree
        <5>2. Less(z, k) \in Dirs
          BY Sets DEF Less
        <5> QED BY <2>7, <5>1, <5>2 DEF Toward
      <4> QED BY <1>1, <2>5, <4>1, Nested
    <3>3. In(n, Toward(u, m, k))
      BY <1>1, <2>5, <3>1, <3>2
    <3> QED BY <2>3, <3>3
  <2>10. CASE w(m) < w(z) /\ w(n) < w(m)
    <3>1. In(m, n)
      BY <1>1, <2>4, <2>5, <2>7, <2>8, <2>10
    <3> QED BY <1>1, <2>5, <2>10, <3>1
  <2>11. CASE w(m) < w(z) /\ w(n) = w(m)
    <3>1. PICK v \in S : Toward(u, v, k) = m /\ w(m) < w(v)
      <4>1. ~(m = u.child[FalseRoot][1] /\ lo[m] = 0 /\ hi[m] = MaxKey + 1)
        BY <1>1, <1>2, <1>4, <2>5, <2>11
      <4> QED BY <1>3, <4>1
    <3>2. v # z
      BY <2>3, <2>7, <3>1
    <3>3. CASE w(v) <= w(z)
      <4>1. In(v, n)
        BY <2>4, <2>7, <2>11, <3>1, <3>2, <3>3
      <4> QED BY <1>1, <2>5, <2>11, <3>1, <4>1
    <3>4. CASE w(z) <= w(v)
      <4>1. In(z, m)
        BY <2>4, <2>7, <2>11, <3>1, <3>2, <3>4
      <4> QED BY <1>1, <2>5, <2>7, <2>11, <4>1
    <3> QED BY <1>1, <2>5, <3>3, <3>4
  <2>12. w(n) <= w(m)
    BY <2>3
  <2> QED BY <1>1, <2>5, <2>9, <2>10, <2>11, <2>12
<1> QED BY <1>2, <1>5

(* An empty place is the only one for the keys between its bounds. *)
LEMMA OneGap ==
    ASSUME NEW u, NEW N, NEW lo, NEW hi, Tree(u, N, lo, hi), NEW k \in Int,
           NEW x \in N, lo[x] < k, k < hi[x], Toward(u, x, k) = Null,
           NEW y \in N, lo[y] < k, k < hi[y], Toward(u, y, k) = Null
    PROVE  x = y
<1> SUFFICES ASSUME x # y PROVE FALSE
  OBVIOUS
<1>1. hi[y] - lo[y] \in Int /\ hi[x] - lo[x] \in Int
  BY Bounds
<1>2. CASE hi[y] - lo[y] <= hi[x] - lo[x]
  BY <1>2, Chain
<1>3. CASE hi[x] - lo[x] <= hi[y] - lo[y]
  BY <1>3, Chain
<1> QED BY <1>1, <1>2, <1>3

(* v is u with a red leaf k at an empty place below p. *)
IsGrown(v, u, p, d, k) ==
    /\ v \in Links
    /\ \A x \in Nodes, f \in Dirs :
          v.child[x][f] = IF x = p /\ f = d THEN k ELSE IF x = k THEN Null ELSE u.child[x][f]
    /\ \A x \in Nodes : v.parent[x] = IF x = k THEN p ELSE u.parent[x]
    /\ \A x \in Nodes : v.red[x] <=> x = k \/ u.red[x]

(* A new leaf at an empty place whose bounds its key lies between makes  *)
(* a search tree.                                                        *)
LEMMA GrownTree ==
    ASSUME NEW u, NEW N, NEW lo, NEW hi, Tree(u, N, lo, hi), NEW p \in N, NEW d \in Dirs,
           u.child[p][d] = Null, NEW k \in Keys, Lower(lo, p, d) < k, k < Upper(hi, p, d),
           NEW v, IsGrown(v, u, p, d, k),
           NEW lo2, lo2 = [lo EXCEPT ![k] = Lower(lo, p, d)],
           NEW hi2, hi2 = [hi EXCEPT ![k] = Upper(hi, p, d)]
    PROVE  k \notin N /\ Tree(v, N \cup {k}, lo2, hi2)
<1> DEFINE M == N \cup {k}
<1>1. /\ u \in Links /\ N \subseteq Keys /\ Linked(u, N) /\ Sorted(u, N, lo, hi)
      /\ lo \in [Keys -> Int] /\ hi \in [Keys -> Int]
      /\ p \in Nodes /\ k \in Nodes /\ k \in Int /\ k # FalseRoot /\ k # Null /\ p # FalseRoot /\ FalseRoot \notin N
      /\ FalseRoot \in Nodes /\ Slot(N, p, d) /\ N \subseteq Nodes
  BY Sets DEF Tree, Slot
<1>2. k \notin N
  BY <1>1 DEF Sorted
<1>3. k # p
  BY <1>2
<1>4. /\ \A n \in N : n \in Int /\ lo[n] \in Int /\ hi[n] \in Int /\ lo[n] < n /\ n < hi[n]
      /\ Lower(lo, p, d) \in Int /\ Upper(hi, p, d) \in Int
  <2>1. \A n \in N : n \in Int /\ lo[n] \in Int /\ hi[n] \in Int /\ lo[n] < n /\ n < hi[n]
    BY Bounds
  <2> QED BY <1>1, <2>1 DEF Lower, Upper
<1>5. /\ lo2 \in [Keys -> Int] /\ hi2 \in [Keys -> Int]
      /\ lo2[k] = Lower(lo, p, d) /\ hi2[k] = Upper(hi, p, d)
      /\ \A n \in Keys : n # k => lo2[n] = lo[n] /\ hi2[n] = hi[n]
  BY <1>1, <1>4
<1>6. \A m \in Nodes, f \in Dirs : Slot(N, m, f) => Lower(lo2, m, f) = Lower(lo, m, f) /\ Upper(hi2, m, f) = Upper(hi, m, f)
  BY <1>1, <1>2, <1>5 DEF Slot, Lower, Upper
<1>7. /\ \A m \in Nodes, f \in Dirs : Slot(M, m, f) <=> Slot(N, m, f) \/ m = k
      /\ \A f \in Dirs : ~Slot(N, k, f)
  BY <1>1, <1>2 DEF Slot
<1>8. /\ v \in Links
      /\ v.child[p][d] = k /\ (\A f \in Dirs : v.child[k][f] = Null)
      /\ \A x \in Nodes, f \in Dirs : ~(x = p /\ f = d) => v.child[x][f] = u.child[x][f]
      /\ v.parent[k] = p /\ \A x \in Nodes : x # k => v.parent[x] = u.parent[x]
  <2>1. \A f \in Dirs : u.child[k][f] = Null
    BY <1>1, <1>7 DEF Linked
  <2> QED BY Zenon, <1>1, <1>3, <2>1 DEF IsGrown
<1>9. Linked(v, M)
  <2>1. \A m \in Nodes, f \in Dirs : Slot(M, m, f) => v.child[m][f] \in M \cup {Null}
    BY <1>1, <1>7, <1>8 DEF Linked
  <2>2. \A m \in Nodes, f \in Dirs : ~Slot(M, m, f) => v.child[m][f] = Null
    BY <1>1, <1>7, <1>8 DEF Linked
  <2>3. ASSUME NEW m \in M, NEW f \in Dirs, v.child[m][f] # Null PROVE v.parent[v.child[m][f]] = m
    <3>1. CASE m = p /\ f = d
      BY <1>8, <3>1
    <3>2. CASE ~(m = p /\ f = d)
      <4>1. m \in N /\ v.child[m][f] = u.child[m][f]
        BY Zenon, <1>1, <1>8, <2>3, <3>2
      <4>2. u.child[m][f] \in N /\ u.parent[u.child[m][f]] = m
        BY <1>1, <2>3, <4>1 DEF Linked, Slot
      <4> QED BY Zenon, <1>1, <1>2, <1>8, <4>1, <4>2
    <3> QED BY <3>1, <3>2
  <2>4. ASSUME NEW n \in M
        PROVE  \/ n = v.child[FalseRoot][1] /\ v.parent[n] \in {Null, FalseRoot}
               \/ v.parent[n] \in M /\ \E f \in Dirs : v.child[v.parent[n]][f] = n
    <3>1. CASE n = k
      BY <1>8, <3>1
    <3>2. CASE n # k
      <4>1. n \in N /\ v.parent[n] = u.parent[n]
        BY Zenon, <1>1, <1>8, <3>2
      <4>2. CASE n = u.child[FalseRoot][1] /\ u.parent[n] \in {Null, FalseRoot}
        BY <1>1, <1>8, <4>1, <4>2, Sets
      <4>3. CASE u.parent[n] \in N /\ \E f \in Dirs : u.child[u.parent[n]][f] = n
        <5>1. PICK f \in Dirs : u.child[u.parent[n]][f] = n
          BY <4>3
        <5>2. n # Null
          BY <1>1, <4>1, Sets
        <5>3. v.child[u.parent[n]][f] = n
          BY Zenon, <1>1, <1>8, <4>3, <5>1, <5>2
        <5> QED BY <4>1, <4>3, <5>3
      <4> QED BY <1>1, <4>1, <4>2, <4>3 DEF Linked
    <3> QED BY <3>1, <3>2
  <2>5. \A x \in Keys \ M : v.parent[x] = Null
    BY <1>1, <1>8, Sets DEF Linked
  <2> QED BY Zenon, <2>1, <2>2, <2>3, <2>4, <2>5 DEF Linked
<1>10. Sorted(v, M, lo2, hi2)
  <2>1. \A n \in M : lo2[n] < n /\ n < hi2[n]
    BY <1>1, <1>4, <1>5
  <2>2. ASSUME NEW m \in Nodes, NEW f \in Dirs, Slot(M, m, f), v.child[m][f] # Null
        PROVE  lo2[v.child[m][f]] = Lower(lo2, m, f) /\ hi2[v.child[m][f]] = Upper(hi2, m, f)
    <3>1. CASE m = p /\ f = d
      <4>1. v.child[m][f] = k
        BY <1>8, <3>1
      <4>2. Slot(N, p, d) /\ p \in Nodes
        BY <2>2, <3>1, <1>1 DEF Slot
      <4>3. Lower(lo2, m, f) = Lower(lo, p, d) /\ Upper(hi2, m, f) = Upper(hi, p, d)
        BY Zenon, <1>6, <3>1, <4>2
      <4> QED BY <1>5, <4>1, <4>3
    <3>2. CASE ~(m = p /\ f = d)
      <4>1. Slot(N, m, f) /\ v.child[m][f] = u.child[m][f]
        BY <1>7, <1>8, <2>2, <3>2
      <4>2. u.child[m][f] \in N /\ u.child[m][f] # k
        <5>1. u.child[m][f] \in N \cup {Null}
          BY <1>1, <2>2, <4>1 DEF Linked
        <5> QED BY <1>2, <2>2, <4>1, <5>1
      <4>3. lo[u.child[m][f]] = Lower(lo, m, f) /\ hi[u.child[m][f]] = Upper(hi, m, f)
        BY <1>1, <2>2, <4>1 DEF Sorted
      <4>4. lo2[u.child[m][f]] = lo[u.child[m][f]] /\ hi2[u.child[m][f]] = hi[u.child[m][f]]
        BY <1>1, <1>5, <4>2
      <4> QED BY Zenon, <1>6, <4>1, <4>3, <4>4
    <3> QED BY <3>1, <3>2
  <2>3. ASSUME NEW m \in Nodes, NEW f \in Dirs, Slot(M, m, f), v.child[m][f] = Null, NEW n \in M,
               Lower(lo2, m, f) < n, n < Upper(hi2, m, f)
        PROVE  FALSE
    <3>0. f = 0 \/ f = 1
      BY Sets
    <3>1. CASE m = k
      <4>1. Lower(lo, p, d) < n /\ n < Upper(hi, p, d) /\ n # k
        <5>1. (f = 0 => Lower(lo2, m, f) = Lower(lo, p, d) /\ Upper(hi2, m, f) = k)
              /\ (f = 1 => Lower(lo2, m, f) = k /\ Upper(hi2, m, f) = Upper(hi, p, d))
          BY <1>1, <1>5, <3>1 DEF Lower, Upper
        <5>2. n \in Int
          BY <1>1, <1>4
        <5> QED BY <1>1, <1>4, <2>3, <3>0, <5>1, <5>2
      <4> QED BY <1>1, <4>1 DEF Sorted
    <3>2. CASE m # k
      <4>1. ~(m = p /\ f = d) /\ u.child[m][f] = Null /\ Slot(N, m, f)
        BY <1>1, <1>7, <1>8, <2>3, <3>2
      <4>2. Lower(lo, m, f) < n /\ n < Upper(hi, m, f)
        BY <1>6, <2>3, <4>1
      <4>3. n = k
        BY <1>1, <4>1, <4>2 DEF Sorted
      <4>4. m \in N
        <5> SUFFICES ASSUME m = FalseRoot, f = 1 PROVE FALSE
          BY <4>1 DEF Slot
        <5>1. Lower(lo, m, f) = 0 /\ Upper(hi, m, f) = MaxKey + 1
          BY DEF Lower, Upper
        <5>2. Lower(lo, m, f) < p /\ p < Upper(hi, m, f)
          BY <5>1, Bounds
        <5> QED BY <1>1, <4>1, <5>2 DEF Sorted
      <4>5. \A x \in N, i \in Dirs : Lower(lo, x, i) < k /\ k < Upper(hi, x, i) =>
                                     lo[x] < k /\ k < hi[x] /\ Less(x, k) = i
        <5> SUFFICES ASSUME NEW x \in N, NEW i \in Dirs, Lower(lo, x, i) < k, k < Upper(hi, x, i)
                     PROVE  lo[x] < k /\ k < hi[x] /\ Less(x, k) = i
          OBVIOUS
        <5>1. i = 0 \/ i = 1
          BY Sets
        <5>2. x # FalseRoot /\ x \in Keys /\ k \in Int
          BY Zenon, <1>1
        <5>5. x \in Int /\ lo[x] \in Int /\ hi[x] \in Int /\ lo[x] < x /\ x < hi[x]
          BY <1>4
        <5>3. CASE i = 0
          <6>1. Lower(lo, x, i) = lo[x] /\ Upper(hi, x, i) = x
            BY <5>2, <5>3 DEF Lower, Upper
          <6>2. lo[x] < k /\ k < x
            BY <6>1
          <6>3. k < hi[x] /\ Less(x, k) = 0
            BY <5>2, <5>5, <6>2 DEF Less
          <6> QED BY <5>3, <6>2, <6>3
        <5>4. CASE i = 1
          <6>1. Lower(lo, x, i) = x /\ Upper(hi, x, i) = hi[x]
            BY <5>2, <5>4 DEF Lower, Upper
          <6>2. x < k /\ k < hi[x]
            BY <6>1
          <6>3. lo[x] < k /\ Less(x, k) = 1
            BY <5>2, <5>5, <6>2 DEF Less
          <6> QED BY <5>4, <6>2, <6>3
        <5> QED BY <5>1, <5>3, <5>4
      <4>6. Toward(u, m, k) = Null /\ lo[m] < k /\ k < hi[m] /\ Less(m, k) = f
        BY <4>1, <4>2, <4>3, <4>4, <4>5 DEF Toward
      <4>7. Toward(u, p, k) = Null /\ lo[p] < k /\ k < hi[p] /\ Less(p, k) = d
        BY <4>5 DEF Toward
      <4>8. m = p
        BY <1>1, <4>4, <4>6, <4>7, OneGap
      <4> QED BY <4>1, <4>6, <4>7, <4>8
    <3> QED BY <3>1, <3>2
  <2> QED BY Zenon, <2>1, <2>2, <2>3 DEF Sorted
<1> QED BY <1>1, <1>2, <1>5, <1>8, <1>9, <1>10 DEF Tree

(* The new leaf is red: black heights stay, and only the leaf may be a   *)
(* red child of a red parent.                                            *)
LEMMA GrownShape ==
    ASSUME NEW u, NEW N, NEW lo, NEW hi, Shape(u, N, lo, hi), NEW p \in N, NEW d \in Dirs,
           u.child[p][d] = Null, NEW k \in Keys, Lower(lo, p, d) < k, k < Upper(hi, p, d),
           NEW v, IsGrown(v, u, p, d, k)
    PROVE  \E lo2, hi2 : Heated(v, N \cup {k}, lo2, hi2, k)
<1> DEFINE M == N \cup {k}
           lo2 == [lo EXCEPT ![k] = Lower(lo, p, d)]
           hi2 == [hi EXCEPT ![k] = Upper(hi, p, d)]
<1>0. Tree(u, N, lo, hi) /\ Cool(u, N)
  BY DEF Shape
<1>1. k \notin N /\ Tree(v, M, lo2, hi2)
  BY Zenon, <1>0, GrownTree
<1>2. PICK bh \in Heights : Even(u, N, bh)
  BY DEF Shape
<1> HIDE DEF lo2, hi2
<1> DEFINE bh2 == [bh EXCEPT ![k] = 0]
<1>3. bh2 \in Heights /\ bh2[k] = 0 /\ (\A x \in Keys \cup {Null} : x # k => bh2[x] = bh[x]) /\ k # Null /\ k # FalseRoot
  BY Sets DEF Heights
<1> HIDE DEF bh2
<1>4. /\ \A x \in Nodes, f \in Dirs :
          v.child[x][f] = IF x = p /\ f = d THEN k ELSE IF x = k THEN Null ELSE u.child[x][f]
      /\ \A x \in Nodes : v.red[x] <=> x = k \/ u.red[x]
  BY DEF IsGrown
<1>5. \A x \in N : x \in Nodes /\ x # Null /\ x \in Keys
  BY <1>0, Sets DEF Tree
<1>6. k \in Nodes /\ FalseRoot \in Nodes /\ 0 \in Dirs /\ 1 \in Dirs
  BY Sets
<1>7. bh[Null] = 0 /\ bh2[Null] = 0
  BY <1>2, <1>3 DEF Even
<1>8. \A x \in N, f \in Dirs : bh2[v.child[x][f]] = bh[u.child[x][f]]
  <2> SUFFICES ASSUME NEW x \in N, NEW f \in Dirs PROVE bh2[v.child[x][f]] = bh[u.child[x][f]]
    OBVIOUS
  <2>1. CASE x = p /\ f = d
    BY <1>3, <1>4, <1>5, <1>7, <2>1
  <2>2. CASE ~(x = p /\ f = d)
    <3>1. v.child[x][f] = u.child[x][f] /\ u.child[x][f] \in N \cup {Null}
      BY <1>0, <1>1, <1>2, <1>4, <1>5, <2>2, Children
    <3> QED BY <1>1, <1>3, <1>5, <3>1
  <2> QED BY <2>1, <2>2
<1>9. ASSUME NEW x \in M PROVE Level(v, bh2, x)
  <2>1. CASE x = k
    <3>1. v.child[k][0] = Null /\ v.child[k][1] = Null /\ v.red[k]
      BY <1>1, <1>4, <1>6
    <3> QED BY <1>3, <1>7, <2>1, <3>1 DEF Level
  <2>2. CASE x # k
    <3>1. x \in N /\ bh2[x] = bh[x] /\ (v.red[x] <=> u.red[x])
      BY <1>3, <1>4, <1>5, <2>2
    <3>2. Level(u, bh, x)
      BY <1>2, <3>1 DEF Even, Level
    <3>3. bh2[v.child[x][0]] = bh[u.child[x][0]] /\ bh2[v.child[x][1]] = bh[u.child[x][1]]
      BY <1>6, <1>8, <3>1
    <3> QED BY <3>1, <3>2, <3>3 DEF Level
  <2> QED BY <2>1, <2>2
<1>10. Even(v, M, bh2)
  BY <1>7, <1>9 DEF Even, Level
<1>11. ~v.red[FalseRoot]
  BY <1>0, <1>3, <1>4, <1>6 DEF Cool
<1>12. ASSUME NEW x \in M, NEW f \in Dirs, v.red[x], v.child[x][f] # k PROVE ~Red(v, v.child[x][f])
  <2>1. CASE x = k
    BY <1>1, <1>4, <1>6, <2>1 DEF Red
  <2>2. CASE x # k
    <3>1. x \in N /\ u.red[x] /\ v.child[x][f] = u.child[x][f]
      BY <1>4, <1>5, <1>12, <2>2
    <3>2. ~Red(u, u.child[x][f])
      BY <1>0, <3>1 DEF Cool
    <3>3. u.child[x][f] \in N \cup {Null}
      BY <1>0, <1>2, <3>1, Children
    <3> QED BY <1>4, <1>5, <1>12, <3>1, <3>2, <3>3 DEF Red
  <2> QED BY <2>1, <2>2
<1>13. Heated(v, M, lo2, hi2, k)
  BY Zenon, <1>1, <1>3, <1>10, <1>11, <1>12 DEF Heated
<1> QED BY <1>13

(* The tree between operations. *)
Ready(u, N, lo, hi) ==
    /\ Shape(u, N, lo, hi)
    /\ N # {} => LET top == u.child[FalseRoot][1]
                 IN top \in N /\ ~u.red[top] /\ u.parent[top] = Null

(* The tree has a root unless it is empty. *)
LEMMA TopExists ==
    ASSUME NEW u, NEW N, NEW lo, NEW hi, Tree(u, N, lo, hi)
    PROVE  /\ u.child[FalseRoot][1] = Null => N = {}
           /\ u.child[FalseRoot][1] # Null => u.child[FalseRoot][1] \in N
<1>1. FalseRoot \in Nodes /\ 1 \in Dirs /\ Slot(N, FalseRoot, 1) /\ Linked(u, N) /\ Sorted(u, N, lo, hi)
  BY Sets DEF Tree, Slot
<1>2. u.child[FalseRoot][1] # Null => u.child[FalseRoot][1] \in N
  BY <1>1 DEF Linked
<1>3. ASSUME u.child[FalseRoot][1] = Null, NEW n \in N PROVE FALSE
  <2>1. Lower(lo, FalseRoot, 1) = 0 /\ Upper(hi, FalseRoot, 1) = MaxKey + 1
    BY DEF Lower, Upper
  <2>2. 0 < n /\ n < MaxKey + 1
    BY Bounds
  <2> QED BY <1>1, <1>3, <2>1, <2>2 DEF Sorted
<1> QED BY <1>2, <1>3

(* What follows the loop of insert paints the root black and unlinks it  *)
(* from the false root.                                                  *)
LEMMA RootedReady ==
    ASSUME NEW u, NEW N, NEW lo, NEW hi, Shape(u, N, lo, hi), N # {}
    PROVE  Ready(Rooted(u), N, lo, hi) /\ Rooted(u).child = u.child /\ Rooted(u) \in Links
<1> DEFINE top == u.child[FalseRoot][1]
           v == [u EXCEPT !.parent[top] = Null]
           w == Painted(v, {top}, FALSE)
<1>1. Tree(u, N, lo, hi) /\ Cool(u, N) /\ u \in Links /\ N \subseteq Keys
  BY DEF Shape, Tree
<1>2. top \in N /\ top \in Nodes /\ top # Null /\ N \subseteq Nodes /\ FalseRoot \notin N
  BY <1>1, TopExists, Sets
<1>3. v \in Links /\ v.child = u.child /\ v.red = u.red /\ v.parent[top] = Null
      /\ \A x \in Nodes : x # top => v.parent[x] = u.parent[x]
  BY Zenon, <1>1, <1>2 DEF Links, Refs
<1>4. w = Rooted(u)
  BY DEF Rooted
<1> HIDE DEF top, v
<1>5. IsPainted(w, v, {top}, FALSE)
  BY Zenon, <1>3, PaintedFacts
<1> HIDE DEF w
<1>6. \A x \in N, f \in Dirs : u.child[x][f] # top
  <2> SUFFICES ASSUME NEW x \in N, NEW f \in Dirs, u.child[x][f] = top PROVE FALSE
    OBVIOUS
  <2>1. u.child[FalseRoot][1] # Null /\ u.child[x][f] = u.child[FalseRoot][1] /\ 1 \in Dirs
        /\ Slot(N, FalseRoot, 1) /\ Slot(N, x, f)
    BY <1>2, Sets DEF top, Slot
  <2>2. x = FalseRoot
    BY <1>1, <2>1, OnePlace
  <2> QED BY <1>2, <2>2
<1>7. Linked(v, N)
  <2>1. Linked(u, N)
    BY <1>1 DEF Tree
  <2>2. \A x \in Keys \ N : v.parent[x] = Null
    BY <1>2, <1>3, <2>1, Sets DEF Linked
  <2>3. ASSUME NEW m \in N, NEW d \in Dirs, v.child[m][d] # Null PROVE v.parent[v.child[m][d]] = m
    <3>1. u.child[m][d] \in N /\ u.parent[u.child[m][d]] = m
      BY <1>2, <1>3, <2>1, <2>3 DEF Linked, Slot
    <3> QED BY <1>2, <1>3, <1>6, <3>1
  <2>4. ASSUME NEW n \in N
        PROVE  \/ n = v.child[FalseRoot][1] /\ v.parent[n] \in {Null, FalseRoot}
               \/ v.parent[n] \in N /\ \E d \in Dirs : v.child[v.parent[n]][d] = n
    <3>1. CASE n = top
      BY <1>3, <3>1 DEF top
    <3>2. CASE n # top
      <4>1. v.parent[n] = u.parent[n]
        BY <1>2, <1>3, <3>2
      <4> QED BY <1>3, <2>1, <3>2, <4>1 DEF Linked, top
    <3> QED BY <3>1, <3>2
  <2>5. /\ \A m \in Nodes, d \in Dirs : Slot(N, m, d) => v.child[m][d] \in N \cup {Null}
        /\ \A m \in Nodes, d \in Dirs : ~Slot(N, m, d) => v.child[m][d] = Null
    BY <1>3, <2>1 DEF Linked
  <2> QED BY <2>2, <2>3, <2>4, <2>5 DEF Linked
<1>8. Tree(v, N, lo, hi)
  <2>1. Sorted(v, N, lo, hi)
    BY <1>1, <1>3 DEF Tree, Sorted
  <2> QED BY <1>1, <1>3, <1>7, <2>1 DEF Tree
<1>9. PICK bh \in Heights : Even(u, N, bh)
  BY DEF Shape
<1>10. Even(v, N, bh) /\ Cool(v, N) /\ v.child[FalseRoot][1] = top
  BY <1>1, <1>3, <1>9 DEF Even, Cool, Red, top
<1>11. w \in Links /\ w.child = v.child /\ w.parent = v.parent /\ Recoloured(w, v, {top}, {})
  <2>1. \A x \in Nodes : w.red[x] = IF x \in {top} THEN FALSE ELSE v.red[x]
    BY Zenon, <1>5 DEF IsPainted
  <2>2. ASSUME NEW x \in Nodes PROVE w.red[x] <=> x \notin {top} /\ (x \in {} \/ v.red[x])
    <3>1. w.red[x] = IF x \in {top} THEN FALSE ELSE v.red[x]
      BY Zenon, <2>1
    <3> QED BY <3>1
  <2> QED BY <1>5, <2>2 DEF IsPainted, Recoloured
<1>12. (\E bh2 \in Heights : Even(w, N, bh2)) /\ Cool(w, N)
  BY <1>2, <1>8, <1>9, <1>10, <1>11, BlackRoot
<1>13. Tree(w, N, lo, hi)
  BY <1>8, <1>11, PaintTree
<1>14. ~w.red[top] /\ w.parent[top] = Null /\ w.child[FalseRoot][1] = top
  <2>1. w.red[top] = IF top \in {top} THEN FALSE ELSE v.red[top]
    BY Zenon, <1>2, <1>5 DEF IsPainted
  <2> QED BY <1>3, <1>10, <1>11, <2>1
<1> QED BY <1>2, <1>3, <1>4, <1>11, <1>12, <1>13, <1>14 DEF Ready, Shape

(* insert's new node *)
LEMMA MadeGrown ==
    ASSUME t \in Links, at \in Locals, at.q = Null, NEW p, p = at.p, p \in Keys, NEW k, k = at.key, p # k,
           \A f \in Dirs : t.child[k][f] = Null
    PROVE  IsGrown(MadeOrFlipped(k), t, p, at.dir, k)
<1> DEFINE a == Painted(t, {k}, TRUE)
           b == [a EXCEPT !.child[k] = [d \in Dirs |-> Null]]
           c == Hung(b, p, at.dir, k)
<1>1. p \in Nodes /\ k \in Keys /\ k \in Nodes /\ k \in Refs /\ at.dir \in Dirs
  BY Sets DEF Locals
<1>2. IsPainted(a, t, {k}, TRUE)
  BY Zenon, PaintedFacts
<1>3. MadeOrFlipped(k) = c
  BY DEF MadeOrFlipped
<1>4. a \in Links /\ a.child = t.child /\ a.parent = t.parent
  BY Zenon, <1>2 DEF IsPainted
<1>5. \A x \in Nodes : a.red[x] <=> x = k \/ t.red[x]
  <2> SUFFICES ASSUME NEW x \in Nodes PROVE a.red[x] <=> x = k \/ t.red[x]
    BY Zenon
  <2>1. a.red[x] = IF x \in {k} THEN TRUE ELSE t.red[x]
    BY Zenon, <1>2 DEF IsPainted
  <2> QED BY Zenon, <2>1
<1> HIDE DEF a
<1>6. /\ b \in Links /\ b.red = a.red /\ b.parent = a.parent
      /\ \A x \in Nodes, f \in Dirs : b.child[x][f] = IF x = k THEN Null ELSE a.child[x][f]
  <2>1. [d \in Dirs |-> Null] \in [Dirs -> Refs]
    BY DEF Refs
  <2> QED BY <1>1, <1>4, <2>1 DEF Links
<1> HIDE DEF b
<1>7. IsHung(c, b, p, at.dir, k)
  BY <1>1, <1>6, HungFacts
<1> HIDE DEF c
<1>8. /\ c \in Links
      /\ \A x \in Nodes, f \in Dirs :
          c.child[x][f] = IF x = p /\ f = at.dir THEN k ELSE IF x = k THEN Null ELSE t.child[x][f]
      /\ \A x \in Nodes : c.parent[x] = IF x = k THEN p ELSE t.parent[x]
  BY <1>4, <1>6, <1>7 DEF IsHung
<1>9. \A x \in Nodes : c.red[x] <=> x = k \/ t.red[x]
  BY <1>5, <1>6, <1>7 DEF IsHung
<1> QED BY <1>3, <1>8, <1>9 DEF IsGrown

(* The place where insert makes a node is the one of the key, and        *)
(* only_lefts tells if the key is the lowest.                            *)
LEMMA MadeHot ==
    ASSUME NEW N, NEW lo, NEW hi, Shape(t, N, lo, hi), Inserting(t, N, lo, hi, at), at.q = Null,
           NEW k, k = at.key, NEW v, v = MadeOrFlipped(k)
    PROVE  /\ k \notin N /\ N # {} /\ Placed(v, N \cup {k}, k)
           /\ \E lo2, hi2 : Heated(v, N \cup {k}, lo2, hi2, k)
           /\ at.lefts => \A n \in N : k < n
           /\ ~at.lefts => \E n \in N : n < k
<1> DEFINE p == at.p
           d == at.dir
           M == N \cup {k}
<1>1. Tree(t, N, lo, hi) /\ t \in Links /\ Cool(t, N) /\ N \subseteq Keys /\ Null \notin N /\ Null \notin Keys
      /\ FalseRoot \notin N /\ FalseRoot \notin Keys
  BY Sets DEF Shape, Tree
<1>2. at \in Locals /\ k \in Keys /\ d \in Dirs /\ at.last \in Dirs
  BY DEF Inserting, Locals
<1>3. p # Null /\ InsertingBelow(t, N, lo, hi, at)
  BY <1>1 DEF Inserting
<1>4. p \in N /\ t.child[p][d] = Null /\ Lower(lo, p, d) < k /\ k < Upper(hi, p, d) /\ Slot(N, p, d)
  BY <1>3 DEF InsertingBelow, Slot
<1>5. k \notin N
  <2>1. p \in Nodes /\ Sorted(t, N, lo, hi)
    BY <1>1, <1>4, Sets DEF Tree
  <2> QED BY <1>2, <1>4, <2>1 DEF Sorted
<1>6. IsGrown(v, t, p, d, k)
  <2>1. p \in Keys /\ p # k
    BY <1>1, <1>4, <1>5
  <2>2. \A f \in Dirs : t.child[k][f] = Null
    BY <1>1, <1>2, <1>5, Sets DEF Tree, Linked, Slot
  <2> QED BY <1>1, <1>2, <2>1, <2>2, MadeGrown
<1>7. \E lo2, hi2 : Heated(v, M, lo2, hi2, k)
  BY Zenon, <1>2, <1>4, <1>6, GrownShape
<1>8. /\ \A x \in Nodes, f \in Dirs :
          v.child[x][f] = IF x = p /\ f = d THEN k ELSE IF x = k THEN Null ELSE t.child[x][f]
      /\ \A x \in Nodes : v.red[x] <=> x = k \/ t.red[x]
  BY <1>6 DEF IsGrown
<1>9. \A x \in N : x \in Nodes
  BY <1>1, Sets
<1>10. ASSUME Red(v, k), Red(v, p)
       PROVE  /\ at.g \in M /\ v.child[at.g][at.last] = p /\ Under(v, M, at.g, at.h)
              /\ ~Red(v, v.child[at.g][1 - at.last])
  <2>1. t.red[p]
    BY <1>4, <1>5, <1>8, <1>9, <1>10 DEF Red
  <2>2. Turnable(t, N, at) /\ at.g # Null /\ at.g \in N
    BY <1>3, <2>1 DEF InsertingBelow, Calm, Turnable
  <2>3. t.child[at.g][at.last] = p /\ Under(t, N, at.g, at.h) /\ ~Red(t, t.child[at.g][1 - at.last])
    BY <2>2 DEF Turnable
  <2>4. at.g # p /\ at.g # k /\ 1 - at.last \in Dirs
    <3>1. at.g # p
      BY <1>1, <1>2, <1>3, <2>2, <2>3, Nested
    <3> QED BY <1>2, <1>5, <2>2, <3>1 DEF Dirs
  <2>5. v.child[at.g][at.last] = p
    BY <1>2, <1>8, <1>9, <2>2, <2>3, <2>4
  <2>6. ~Red(v, v.child[at.g][1 - at.last])
    <3>1. v.child[at.g][1 - at.last] = t.child[at.g][1 - at.last]
      BY <1>8, <1>9, <2>2, <2>4
    <3>2. t.child[at.g][1 - at.last] \in N \cup {Null}
      BY <1>1, <1>9, <2>2, <2>4 DEF Tree, Linked, Slot
    <3> QED BY <1>5, <1>8, <1>9, <2>3, <3>1, <3>2 DEF Red
  <2>7. Under(v, M, at.g, at.h)
    <3>1. PICK e \in Dirs : Slot(N, at.h, e) /\ t.child[at.h][e] = at.g
      BY <2>3 DEF Under
    <3>2. at.h \in Nodes /\ at.h # k /\ Slot(M, at.h, e)
      BY <1>2, <1>5, <1>9, <3>1, Sets DEF Slot
    <3>3. ~(at.h = p /\ e = d)
      BY <1>4, <2>2, <3>1
    <3>4. v.child[at.h][e] = at.g
      BY <1>8, <3>1, <3>2, <3>3
    <3> QED BY <3>2, <3>4 DEF Under
  <2> QED BY <2>2, <2>5, <2>6, <2>7
<1>11. Placed(v, M, k)
  <2>1. v.child[p][d] = k
    BY <1>2, <1>4, <1>8, <1>9
  <2> QED BY <1>2, <1>3, <1>4, <1>10, <2>1 DEF Placed
<1>12. ASSUME at.lefts, NEW n \in N PROVE k < n
  <2>1. d = 0 /\ lo[p] = 0
    BY <1>3, <1>12 DEF Inserting
  <2>2. Lower(lo, p, d) = 0 /\ Upper(hi, p, d) = p
    BY <1>1, <1>4, <2>1 DEF Lower, Upper
  <2>3. n \in Int /\ 0 < n /\ p \in Int /\ k \in Int
    BY <1>1, <1>2, <1>4, Sets
  <2>4. ~(Lower(lo, p, d) < n /\ n < Upper(hi, p, d))
    BY <1>1, <1>2, <1>4, <1>9 DEF Tree, Sorted
  <2> QED BY <1>4, <2>2, <2>3, <2>4
<1>13. ~at.lefts => \E n \in N : n < k
  BY DEF Inserting
<1> QED BY <1>4, <1>5, <1>7, <1>11, <1>12, <1>13

(* The last iteration of insert's loop, and what follows it. *)
LEMMA InsertEndReady ==
    ASSUME NEW N, NEW lo, NEW hi, Shape(t, N, lo, hi), Inserting(t, N, lo, hi, at),
           NEW k, k = at.key, InsertNode = k,
           NEW u, u = Repaired(MadeOrFlipped(k), k)
    PROVE  /\ \E lo2, hi2 : Ready(Rooted(u), N \cup {k}, lo2, hi2)
           /\ Rooted(u).child = u.child /\ Rooted(u) \in Links
           /\ at.q = Null => /\ k \notin N /\ N # {}
                             /\ at.lefts => \A n \in N : k < n
                             /\ ~at.lefts => \E n \in N : n < k
           /\ at.q # Null => k \in N
<1> DEFINE v == MadeOrFlipped(k)
<1>1. k \in N \cup {k} /\ \E lo2, hi2 : Heated(v, N \cup {k}, lo2, hi2, k) /\ Placed(v, N \cup {k}, k)
  <2>1. CASE at.q = Null
    <3> HIDE DEF v
    <3>1. v = MadeOrFlipped(k)
      BY DEF v
    <3>2. Placed(v, N \cup {k}, k) /\ \E lo2, hi2 : Heated(v, N \cup {k}, lo2, hi2, k)
      BY <2>1, <3>1, MadeHot
    <3> QED BY <3>2
  <2>2. CASE at.q # Null
    <3>1. k = at.q /\ k # Null
      BY <2>2 DEF InsertNode
    <3>2. k \in N
      BY <3>1, AtQ
    <3>3. N \cup {k} = N
      BY <3>2
    <3> HIDE DEF v
    <3>4. v = MadeOrFlipped(k)
      BY DEF v
    <3>5. Placed(v, N, k) /\ Heated(v, N, lo, hi, k)
      BY <3>1, <3>4, DownPlaced
    <3> QED BY <3>3, <3>5
  <2> QED BY <2>1, <2>2
<1>2. PICK lo1, hi1 : Heated(v, N \cup {k}, lo1, hi1, k) /\ Placed(v, N \cup {k}, k)
  BY <1>1
<1> HIDE DEF v
<1>3. u = Repaired(v, k)
  BY DEF v
<1>4. \E lo2, hi2 : Shape(Repaired(v, k), N \cup {k}, lo2, hi2) /\ IsRepaired(Repaired(v, k), lo2, hi2, v, lo1, hi1, k)
  BY <1>1, <1>2, RepairedCool
<1>5. PICK lo2, hi2 : Shape(u, N \cup {k}, lo2, hi2)
  BY <1>3, <1>4
<1>6. Ready(Rooted(u), N \cup {k}, lo2, hi2) /\ Rooted(u).child = u.child /\ Rooted(u) \in Links
  BY <1>5, RootedReady
<1>7. ASSUME at.q = Null
      PROVE  /\ k \notin N /\ N # {}
             /\ at.lefts => \A n \in N : k < n
             /\ ~at.lefts => \E n \in N : n < k
  <2>1. v = MadeOrFlipped(k)
    BY DEF v
  <2> QED BY Zenon, <1>7, <2>1, MadeHot
<1>8. at.q # Null => k \in N
  BY AtQ DEF InsertNode
<1> QED BY <1>6, <1>7, <1>8
=============================================================================
