-------------------------------- MODULE RBTree --------------------------------
(***************************************************************************)
(* rbtree of modules/rbtree.bjou: a red-black tree that is rebalanced on   *)
(* the way down, with parent links for its iterator and a pointer beg to   *)
(* the node with the lowest key.  One iteration of the loops of insert and *)
(* remove is one action; what precedes or follows a loop belongs to the    *)
(* first or last action of the operation.                                  *)
(*                                                                         *)
(* A node's address means nothing but what points to it, so a node is      *)
(* named by the key it holds.  remove() moves the key of the node it       *)
(* deletes to another one: here that node takes over the name.             *)
(***************************************************************************)
EXTENDS Integers, FiniteSets

CONSTANTS
    MaxKey,       (* keys are 1..MaxKey                                    *)
    FalseRoot,    (* head, on the stack of insert and remove               *)
    Null,
    Width,        (* len is counted modulo Width, 2^32 in the code         *)
    RemoveAbsent  (* remove() is also called for keys a tree lacks         *)

ASSUME RBTreeAssumption ==
    /\ MaxKey \in Nat \ {0}
    /\ FalseRoot # Null /\ {FalseRoot, Null} \cap 1..MaxKey = {}
    /\ Width \in Nat /\ Width > MaxKey + 1
    /\ RemoveAbsent \in BOOLEAN

Keys == 1..MaxKey
Nodes == Keys \cup {FalseRoot}
Refs == Nodes \cup {Null}
Dirs == {0, 1}

VARIABLES
    pc,       (* "idle", in "insert" or "remove", or "crashed": a dead     *)
              (* node or a null pointer was used                           *)
    t,        (* the links and colours of the nodes                        *)
    root, beg, len,
    at,       (* the operation's local variables                           *)
    contents  (* the keys a client has inserted and not removed            *)

vars == <<pc, t, root, beg, len, at, contents>>

(* Locals of insert: key, g, h, p, q, dir, last, only_lefts, and of remove: *)
(* key, g, f, p, q, dir.                                                   *)
NoLocals == [key |-> 1, g |-> Null, h |-> Null, p |-> Null, q |-> Null,
             f |-> Null, dir |-> 0, last |-> 0, lefts |-> TRUE]

TypeOK ==
    /\ pc \in {"idle", "insert", "remove", "crashed"}
    /\ t.red \in [Nodes -> BOOLEAN]
    /\ t.child \in [Nodes -> [Dirs -> Refs]]
    /\ t.parent \in [Nodes -> Refs]
    /\ root \in Keys \cup {Null} /\ beg \in Keys \cup {Null}
    /\ len \in 0..Width - 1
    /\ contents \in SUBSET Keys
    /\ at.key \in Keys /\ {at.g, at.h, at.p, at.q, at.f} \subseteq Refs
    /\ pc = "idle" => at = NoLocals /\ \A n \in Keys : t.parent[n] # FalseRoot

Blank == [red    |-> [n \in Nodes |-> FALSE],
          child  |-> [n \in Nodes |-> [d \in Dirs |-> Null]],
          parent |-> [n \in Nodes |-> Null]]

(* rbtree.create *)
Init ==
    /\ pc = "idle"
    /\ t = Blank
    /\ root = Null /\ beg = Null /\ len = 0
    /\ at = NoLocals
    /\ contents = {}

-----------------------------------------------------------------------------
(* Operators on the links u. *)

Red(u, n) == n # Null /\ u.red[n]

Painted(u, S, c) == [u EXCEPT !.red = [n \in Nodes |-> IF n \in S THEN c ELSE @[n]]]

(* Faulty: the parent link is not set. *)
HungDown(u, n, d, m) == [u EXCEPT !.child[n][d] = m]

(* m becomes the child of n on side d, and n the parent of m. *)
Hung(u, n, d, m) ==
    [u EXCEPT !.child[n][d] = m,
              !.parent = [k \in Nodes |-> IF k = m THEN n ELSE @[k]]]

(* What rotate and rotate2 return: the node that comes to the top. *)
Top(u, n, d) == u.child[n][1 - d]
Top2(u, n, d) == u.child[u.child[n][1 - d]][d]

(* rotate: the child on the other side comes up, n goes down on side d. *)
Rotate(u, n, d) ==
    LET r == Top(u, n, d)
        v == Hung(Hung(u, n, 1 - d, u.child[r][d]), r, d, n)
    IN Painted(Painted(v, {n}, TRUE), {r}, FALSE)

Rotate2(u, n, d) ==
    LET c == u.child[n][1 - d]
    IN Rotate(Hung(Rotate(u, c, 1 - d), n, 1 - d, Top(u, c, 1 - d)), n, d)

(* The root is black and has no parent. *)
Rooted(u) ==
    LET top == u.child[FalseRoot][1]
    IN Painted([u EXCEPT !.parent[top] = Null], {top}, FALSE)

Less(n, key) == IF n < key THEN 1 ELSE 0

-----------------------------------------------------------------------------
(* insert *)

(* Into the empty tree. *)
InsertRoot(key) ==
    /\ pc = "idle"
    /\ root = Null
    /\ t' = Blank
    /\ root' = key /\ beg' = key
    /\ len' = (len + 1) % Width
    /\ contents' = contents \cup {key}
    /\ UNCHANGED <<pc, at>>

InsertStart(key) ==
    /\ pc = "idle"
    /\ root # Null
    /\ pc' = "insert"
    /\ t' = [t EXCEPT !.child[FalseRoot] = [d \in Dirs |-> IF d = 1 THEN root ELSE Null]]
    /\ at' = [NoLocals EXCEPT !.key = key, !.h = FalseRoot, !.q = root]
    /\ UNCHANGED <<root, beg, len, contents>>

(* The links after a new red node was made at a null link, or a colour     *)
(* flip of a node with two red children.                                   *)
MadeOrFlipped(q) ==
    IF at.q = Null
    THEN Hung([Painted(t, {q}, TRUE) EXCEPT !.child[q] = [d \in Dirs |-> Null]],
              at.p, at.dir, q)
    ELSE IF Red(t, t.child[q][0]) /\ Red(t, t.child[q][1])
    THEN Painted(Painted(t, {q}, TRUE), {t.child[q][0], t.child[q][1]}, FALSE)
    ELSE t

(* Faulty: one rotation is enough, whichever child q is. *)
RepairedOnce(u, q) ==
    IF Red(u, q) /\ Red(u, at.p)
    THEN LET side == IF u.child[at.h][1] = at.g THEN 1 ELSE 0
         IN Hung(Rotate(u, at.g, 1 - at.last), at.h, side, Top(u, at.g, 1 - at.last))
    ELSE u

(* A red child of a red parent is rotated away. *)
Repaired(u, q) ==
    IF ~(Red(u, q) /\ Red(u, at.p)) THEN u
    ELSE LET side == IF u.child[at.h][1] = at.g THEN 1 ELSE 0
             to == 1 - at.last
         IN IF q = u.child[at.p][at.last]
            THEN Hung(Rotate(u, at.g, to), at.h, side, Top(u, at.g, to))
            ELSE Hung(Rotate2(u, at.g, to), at.h, side, Top2(u, at.g, to))

InsertNode == IF at.q = Null THEN at.key ELSE at.q

InsertDown ==
    /\ pc = "insert"
    /\ InsertNode # at.key
    /\ t' = Repaired(MadeOrFlipped(at.q), at.q)
    /\ LET dir == Less(at.q, at.key)
       IN at' = [at EXCEPT !.last = at.dir, !.dir = dir,
                           !.lefts = @ /\ dir = 0,
                           !.h = IF at.g # Null THEN at.g ELSE @,
                           !.g = at.p, !.p = at.q, !.q = t'.child[at.q][dir]]
    /\ UNCHANGED <<pc, root, beg, len, contents>>

(* Faulty: the last turn alone decides whether the key is the lowest. *)
LowestIfLeft == at.dir = 0

(* only_lefts *)
Lowest == at.lefts

InsertEnd ==
    /\ pc = "insert"
    /\ InsertNode = at.key
    /\ LET u == Repaired(MadeOrFlipped(at.key), at.key)
       IN /\ t' = Rooted(u)
          /\ root' = u.child[FalseRoot][1]
    /\ IF at.q = Null
       THEN /\ len' = (len + 1) % Width
            /\ beg' = IF Lowest THEN at.key ELSE beg
       ELSE UNCHANGED <<len, beg>>
    /\ contents' = contents \cup {at.key}
    /\ pc' = "idle" /\ at' = NoLocals

-----------------------------------------------------------------------------
(* remove *)

Removing(key) ==
    /\ pc = "idle"
    /\ key \in contents \/ root = Null \/ RemoveAbsent
    /\ contents' = contents \ {key}

RemoveFromEmpty(key) ==
    /\ Removing(key)
    /\ root = Null
    /\ UNCHANGED <<pc, t, root, beg, len, at>>

(* The last node: the whole tree is destroyed. *)
RemoveLast(key) ==
    /\ Removing(key)
    /\ root # Null /\ len = 1 /\ root = key
    /\ t' = Blank
    /\ root' = Null /\ beg' = Null /\ len' = 0
    /\ UNCHANGED <<pc, at>>

RemoveStart(key) ==
    /\ Removing(key)
    /\ root # Null /\ ~(len = 1 /\ root = key)
    /\ pc' = "remove"
    /\ t' = [t EXCEPT !.child[FalseRoot] = [d \in Dirs |-> IF d = 1 THEN root ELSE Null]]
    /\ at' = [NoLocals EXCEPT !.key = key, !.q = FalseRoot, !.dir = 1]
    /\ UNCHANGED <<root, beg, len>>

(* The sibling of q has a red child: a rotation brings one over. *)
Borrowed(u, g, p, q, last) ==
    LET s == u.child[p][1 - last]
        near == Red(u, u.child[s][last])
        side == IF u.child[g][1] = p THEN 1 ELSE 0
        top == IF near THEN Top2(u, p, last) ELSE Top(u, p, last)
        v == Hung(IF near THEN Rotate2(u, p, last) ELSE Rotate(u, p, last), g, side, top)
    IN Painted(Painted(v, {q, top}, TRUE), {v.child[top][0], v.child[top][1]}, FALSE)

RemoveDown ==
    /\ pc = "remove"
    /\ t.child[at.q][at.dir] # Null
    /\ LET last == at.dir
           g == at.p
           p == at.q
           q == t.child[p][last]
           dir == Less(q, at.key)
           s == t.child[p][1 - last]
           turn == ~Red(t, q) /\ ~Red(t, t.child[q][dir]) /\ Red(t, t.child[q][1 - dir])
           push == ~Red(t, q) /\ ~Red(t, t.child[q][dir]) /\ ~turn /\ s # Null
           flip == push /\ ~Red(t, t.child[s][0]) /\ ~Red(t, t.child[s][1])
       IN /\ t' = IF turn THEN Hung(Rotate(t, q, dir), p, last, Top(t, q, dir))
                  ELSE IF flip THEN Painted(Painted(t, {p}, FALSE), {s, q}, TRUE)
                  ELSE IF push THEN Borrowed(t, g, p, q, last)
                  ELSE t
          /\ at' = [at EXCEPT !.g = g, !.q = q, !.dir = dir,
                              !.p = IF turn THEN Top(t, q, dir) ELSE p,
                              !.f = IF q = at.key THEN q ELSE @]
    /\ UNCHANGED <<pc, root, beg, len, contents>>

(* The links after q was taken out: its child, if any, takes its place     *)
(* below p.  By the time its parent is set, q is no child of p any more,   *)
(* so the left child is the one that gets it.                              *)
Unlinked(u, p, q) ==
    LET side == IF u.child[p][1] = q THEN 1 ELSE 0
        m == u.child[q][IF u.child[q][0] = Null THEN 1 ELSE 0]
        v == [u EXCEPT !.child[p][side] = m]
    IN Hung(v, p, 0, v.child[p][0])

(* destroy() also deletes what is still linked below q. *)
IsLeaf(q) == \A d \in Dirs : t.child[q][d] = Null

(* The key of the deleted node q is now held by f, and f's is gone. *)
Renamed(u, f, q) ==
    LET new(n) == IF n = f THEN q ELSE n
        old(n) == IF n = q THEN f ELSE n
    IN [red    |-> [n \in Nodes |-> IF n = f THEN FALSE ELSE u.red[old(n)]],
        child  |-> [n \in Nodes |-> [d \in Dirs |->
                      IF n = f THEN Null ELSE new(u.child[old(n)][d])]],
        parent |-> [n \in Nodes |-> IF n = f THEN Null ELSE new(u.parent[old(n)])]]

(* Where beg points when q is deleted below p; f has q's key then. *)
BegAfter(p, q, f) ==
    LET b == IF beg = q THEN p ELSE beg
    IN IF b = f THEN q ELSE b

RemoveEnd ==
    /\ pc = "remove"
    /\ t.child[at.q][at.dir] = Null
    /\ LET u == IF at.f = Null THEN t
                ELSE Renamed(Unlinked(t, at.p, at.q), at.f, at.q)
           top == u.child[FalseRoot][1]
       IN /\ root' = top
          /\ beg' = IF at.f = Null THEN beg ELSE BegAfter(at.p, at.q, at.f)
          /\ IF top = Null \/ (at.f # Null /\ ~IsLeaf(at.q))
             THEN pc' = "crashed" /\ UNCHANGED <<t, len, at>>
             ELSE /\ t' = Rooted(u)
                  /\ len' = (len - 1) % Width
                  /\ pc' = "idle" /\ at' = NoLocals
    /\ UNCHANGED contents

Next ==
    \/ \E key \in Keys :
          \/ InsertRoot(key) \/ InsertStart(key)
          \/ RemoveFromEmpty(key) \/ RemoveLast(key) \/ RemoveStart(key)
    \/ InsertDown \/ InsertEnd
    \/ RemoveDown \/ RemoveEnd

Spec == Init /\ [][Next]_vars

-----------------------------------------------------------------------------
(* Properties of the tree between operations. *)

(* The keys at most k links below the root. *)
within[k \in 0..MaxKey] ==
    IF k = 0 THEN {root} \ {Null}
    ELSE LET above == within[k - 1]
         IN above \cup {m \in Nodes : \E n \in above, d \in Dirs : t.child[n][d] = m}
InTree == within[MaxKey]

(* How many black nodes lie on a path from n down to a null link, by the   *)
(* depth k that is left; -1 where two paths differ or the depth is used up. *)
blacks[k \in 0..MaxKey + 1] ==
    LET below == blacks[k - 1]
    IN [n \in Keys \cup {Null} |->
           IF n = Null THEN 0
           ELSE IF k = 0 THEN -1
           ELSE LET l == below[t.child[n][0]]
                    r == below[t.child[n][1]]
                IN IF l = r /\ l # -1 THEN l + (IF t.red[n] THEN 0 ELSE 1) ELSE -1]

(* No path is more than twice as long as another: the root is black, no    *)
(* red node has a red child, and every path has as many black nodes.       *)
Balanced ==
    pc = "idle" /\ root # Null =>
        /\ ~t.red[root]
        /\ \A n \in InTree, d \in Dirs : t.red[n] => ~Red(t, t.child[n][d])
        /\ blacks[MaxKey + 1][root] # -1

(* iterator.next *)
climb[n \in Keys] ==
    LET p == t.parent[n]
    IN IF p \in Keys /\ t.child[p][1] = n THEN climb[p] ELSE p
leftmost[n \in Keys] == IF t.child[n][0] = Null THEN n ELSE leftmost[t.child[n][0]]
Successor(n) == IF t.child[n][1] # Null THEN leftmost[t.child[n][1]] ELSE climb[n]

(* lookup finds exactly the keys of the tree: left of a node are lower     *)
(* keys, right of it higher ones.  No remove deletes a node that is still  *)
(* linked, or finds no root to be left.                                    *)
Searchable ==
    /\ pc # "crashed"
    /\ pc = "idle" =>
        \A key \in Keys :
            LET path[k \in 0..MaxKey] ==
                    IF k = 0 THEN root
                    ELSE IF path[k - 1] \in {key, Null} THEN path[k - 1]
                    ELSE t.child[path[k - 1]][Less(path[k - 1], key)]
            IN path[MaxKey] = IF key \in contents THEN key ELSE Null

(* The tree holds the keys that were inserted and not removed, len counts  *)
(* them, and an iterator meets them in ascending order: its next node is   *)
(* the next higher key.  No parent link is left to the variable on the     *)
(* stack that was the false root.                                          *)
Iterates ==
    /\ TypeOK
    /\ Searchable
    /\ pc = "idle" =>
        /\ InTree = contents
        /\ \A n \in contents : t.parent[n] \in contents \cup {Null}
        /\ len = Cardinality(contents)
        /\ \A n \in contents :
              Successor(n) = IF \E m \in contents : m > n
                             THEN CHOOSE m \in contents :
                                     m > n /\ \A k \in contents : k > n => k >= m
                             ELSE Null

(* "Keeps track of node with lowest key" (rbtree.bjou:5). *)
KeepsLowest ==
    pc = "idle" =>
        beg = IF contents = {} THEN Null
              ELSE CHOOSE m \in contents : \A k \in contents : m <= k
=============================================================================
