------------------------------ MODULE TaskFifo ------------------------------
(* A first-in first-out queue of tasks: what modules/threadpool.bjou        *)
(* expects of its task_queue.                                               *)
EXTENDS Sequences

CONSTANT Tasks
VARIABLE fifo    (* oldest task first *)

Init == fifo = <<>>

Put(t) == fifo' = Append(fifo, t)
Take   == fifo # <<>> /\ fifo' = Tail(fifo)
Drop   == fifo' = <<>>

Next == (\E t \in Tasks : Put(t)) \/ Take \/ Drop

Spec == Init /\ [][Next]_fifo
=============================================================================
