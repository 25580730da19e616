---------------------------- MODULE PoolContract ----------------------------
(***************************************************************************)
(* What modules/threadpool.bjou promises to the code that hands it tasks,  *)
(* with no lock, no condition variable and no thread in sight: accepted    *)
(* tasks are started in the order they were accepted, at most Width of     *)
(* them run at a time, nothing is accepted once a stop has been asked for, *)
(* and nothing is started once that stop is IMMEDIATE.                     *)
(*                                                                         *)
(* ThreadPool implements this specification (ThreadPool!Contract).         *)
(***************************************************************************)
EXTENDS Integers, Sequences, FiniteSets

CONSTANTS Tasks,   (* the tasks that may ever be handed to the pool *)
          Width    (* how many tasks may run at the same time       *)

VARIABLES queue,   (* accepted tasks nobody has started, oldest first *)
          running, (* tasks a worker has taken and not finished       *)
          done,    (* finished tasks                                  *)
          mode     (* the stopmode asked for so far                   *)

vars == <<queue, running, done, mode>>

Modes == {"DONT_STOP", "IMMEDIATE", "GRACEFUL"}

Queued == {queue[i] : i \in DOMAIN queue}

TypeOK ==
    /\ queue \in Seq(Tasks)
    /\ running \in SUBSET Tasks
    /\ done \in SUBSET Tasks
    /\ mode \in Modes

Init ==
    /\ queue = <<>>
    /\ running = {}
    /\ done = {}
    /\ mode = "DONT_STOP"

Accept(t) ==
    /\ mode = "DONT_STOP"
    /\ t \notin Queued \cup running \cup done
    /\ queue' = Append(queue, t)
    /\ UNCHANGED <<running, done, mode>>

Start ==
    /\ mode # "IMMEDIATE"
    /\ queue # <<>>
    /\ Cardinality(running) < Width
    /\ running' = running \cup {Head(queue)}
    /\ queue' = Tail(queue)
    /\ UNCHANGED <<done, mode>>

Finish(t) ==
    /\ t \in running
    /\ running' = running \ {t}
    /\ done' = done \cup {t}
    /\ UNCHANGED <<queue, mode>>

Stop(m) ==
    /\ mode = "DONT_STOP"
    /\ mode' = m
    /\ UNCHANGED <<queue, running, done>>

(* Freeing a stopped pool throws away what was never started; a graceful   *)
(* stop leaves nothing to throw away.                                      *)
Discard ==
    /\ mode # "DONT_STOP"
    /\ mode = "GRACEFUL" => queue = <<>>
    /\ running = {}
    /\ queue' = <<>>
    /\ UNCHANGED <<running, done, mode>>

Next ==
    \/ \E t \in Tasks : Accept(t) \/ Finish(t)
    \/ Start
    \/ \E m \in Modes \ {"DONT_STOP"} : Stop(m)
    \/ Discard

Spec == Init /\ [][Next]_vars
=============================================================================
