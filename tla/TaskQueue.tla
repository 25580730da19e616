----------------------------- MODULE TaskQueue -----------------------------
(***************************************************************************)
(* task_queue of modules/threadpool.bjou: a doubly linked list of heap     *)
(* cells.  The head is the newest task and the tail the oldest; a cell is  *)
(* allocated by en (task.create), unlinked by de and given back to the     *)
(* heap by the worker that took it (task.free), after which the allocator  *)
(* may hand out the same address again.                                    *)
(*                                                                         *)
(* The pool calls every operation with pool.lock held, so an operation is  *)
(* one step.  Properties: the links are well formed, no cell is touched    *)
(* after it was freed, none leaks, and the list is a TaskFifo.             *)
(***************************************************************************)
EXTENDS Integers, Sequences, FiniteSets

CONSTANTS Cells,   (* addresses the allocator can return *)
          Null     (* nothing                            *)

ASSUME TaskQueueAssumption == Null \notin Cells /\ IsFiniteSet(Cells)

VARIABLES q,      (* the task_queue and the links of every cell           *)
          heap,   (* the cells that are allocated                         *)
          taken   (* the cells de() returned that the worker still holds  *)

vars == <<q, heap, taken>>

Links == Cells \cup {Null}
Queues == [head : Links, tail : Links, len : 0..Cardinality(Cells),
           prev : [Cells -> Links], next : [Cells -> Links]]

TypeOK ==
    /\ q \in Queues
    /\ heap \in SUBSET Cells
    /\ taken \in SUBSET heap

(* task_queue.create; a cell's links mean nothing before it is allocated.  *)
Init ==
    /\ q = [head |-> Null, tail |-> Null, len |-> 0,
            prev |-> [c \in Cells |-> Null], next |-> [c \in Cells |-> Null]]
    /\ heap = {}
    /\ taken = {}

-----------------------------------------------------------------------------
(* Faulty: the new task is linked behind the tail. *)
LinkedBehind(c) ==
    [q EXCEPT !.tail = c,
              !.head = IF q.tail = Null THEN c ELSE @,
              !.next = [d \in Cells |-> IF d = c THEN Null
                                        ELSE IF d = q.tail THEN c ELSE @[d]],
              !.prev = [@ EXCEPT ![c] = q.tail],
              !.len  = @ + 1]

(* The queue after en() has linked cell c in front of the head. *)
Linked(c) ==
    [q EXCEPT !.head = c,
              !.tail = IF q.head = Null THEN c ELSE @,
              !.prev = [d \in Cells |-> IF d = c THEN Null
                                        ELSE IF d = q.head THEN c ELSE @[d]],
              !.next = [@ EXCEPT ![c] = q.head],
              !.len  = @ + 1]

En(c) ==
    /\ c \notin heap
    /\ q' = Linked(c)
    /\ heap' = heap \cup {c}
    /\ UNCHANGED taken

(* The queue r after de() has unlinked its tail, if it has one. *)
Unlinked(r) ==
    LET t == r.tail
        p == r.prev[t]
    IN IF t = Null THEN r
       ELSE [r EXCEPT !.tail = p,
                      !.head = IF p = Null THEN Null ELSE @,
                      !.prev = [@ EXCEPT ![t] = Null],
                      !.next = [c \in Cells |-> IF c \in {t, p} THEN Null ELSE @[c]],
                      !.len  = @ - 1]

De ==
    /\ q.tail # Null
    /\ q' = Unlinked(q)
    /\ taken' = taken \cup {q.tail}
    /\ UNCHANGED heap

(* The worker has copied function and argument and deletes the task. *)
FreeTask(c) ==
    /\ c \in taken
    /\ taken' = taken \ {c}
    /\ heap' = heap \ {c}
    /\ UNCHANGED q

(* clear(): de() and free() until de() returns nothing.  after[i] is the   *)
(* queue after i rounds.                                                   *)
after[i \in 0..Cardinality(Cells)] ==
    IF i = 0 THEN q ELSE Unlinked(after[i - 1])
Rounds == 0..Cardinality(Cells) - 1

(* Faulty: clear() does not free what de() returns. *)
ClearLeak ==
    /\ q' = after[Cardinality(Cells)]
    /\ UNCHANGED <<heap, taken>>

Clear ==
    /\ q' = after[Cardinality(Cells)]
    /\ heap' = heap \ {after[i].tail : i \in Rounds}
    /\ UNCHANGED taken

Next ==
    \/ \E c \in Cells : En(c) \/ FreeTask(c)
    \/ De
    \/ Clear

Spec == Init /\ [][Next]_vars

-----------------------------------------------------------------------------
(* Properties. *)

(* The cells from the tail to the head along prev, which is the order in   *)
(* which de() will return them.                                            *)
FromTail == [i \in 1..q.len |-> after[i - 1].tail]

(* Links are cells or null; following prev from the tail visits len        *)
(* different cells and ends at the head, and next mirrors prev.            *)
WellFormed ==
    /\ TypeOK
    /\ \A i, j \in 1..q.len : FromTail[i] = FromTail[j] => i = j
    /\ q.len = 0 <=> q.head = Null
    /\ q.len = 0 <=> q.tail = Null
    /\ q.len > 0 => FromTail[q.len] = q.head /\ q.prev[q.head] = Null
    /\ \A i \in 1..q.len :
          /\ FromTail[i] # Null
          /\ q.next[FromTail[i]] = IF i = 1 THEN Null ELSE FromTail[i - 1]

(* The list is well formed, and every allocated cell is either in the list or with a worker: none is    *)
(* used after it was freed, none is returned twice, none is lost.          *)
NoLeakNoDangling ==
    LET linked == {FromTail[i] : i \in 1..q.len}
    IN /\ WellFormed
       /\ linked \cup taken = heap
       /\ linked \cap taken = {}

(* The list is a first-in first-out queue. *)
Fifo == INSTANCE TaskFifo WITH Tasks <- Cells, fifo <- FromTail
ImplementsFifo == Fifo!Spec
=============================================================================
