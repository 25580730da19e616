----------------------------- MODULE ThreadPool -----------------------------
(***************************************************************************)
(* The thread pool of modules/threadpool.bjou over the mutex, condition    *)
(* and thread wrappers of modules/thread.bjou.                             *)
(*                                                                         *)
(* A critical section of the code is two steps here: Acquire, which takes  *)
(* pool.lock, and the body, which ends by giving it back (unlock, or the   *)
(* release inside cond.wait).  Everything the code does outside the lock - *)
(* running a task, joining a thread, freeing the pool - is a step of its   *)
(* own.  The task queue is a sequence, oldest task first; TaskQueue shows  *)
(* that the linked list of the code behaves as one.                        *)
(***************************************************************************)
EXTENDS Integers, Sequences, FiniteSets

CONSTANTS Clients,   (* threads that hold a reference to the pool           *)
          Owner,     (* the client that calls create()                      *)
          NWorkers,  (* the n_workers argument of create()                  *)
          Tasks,     (* task instances; each is handed to add_task once     *)
          Nested,    (* the tasks that are added by another task's function *)
          None       (* no thread, no task                                  *)

(* create() turns 0 workers into 1. *)
PoolSize == IF NWorkers = 0 THEN 1 ELSE NWorkers
Workers == 1..PoolSize
Threads == Workers \cup Clients

ASSUME ThreadPoolAssumption ==
    /\ NWorkers \in Nat
    /\ Owner \in Clients
    /\ Clients \cap Workers = {}
    /\ Nested \subseteq Tasks
    /\ None \notin Threads \cup Tasks

VARIABLES
    lock,       (* the thread that owns pool.lock, or None                  *)
    waiters,    (* the workers blocked in pool.notify.wait                  *)
    queue,      (* pool.queue                                               *)
    stop_m,     (* pool.stop_m                                              *)
    n_started,  (* pool.n_started: the workers 1..n_started exist           *)
    n_running,  (* pool.n_running                                           *)
    pc,         (* where each thread is                                     *)
    arg,        (* the task of a thread's add_task, the mode of its stop    *)
    task,       (* the task a worker is running                             *)
    joining,    (* the next element of pool.threads a stop() has to join    *)
    freed,      (* free() has run                                           *)
    submitted,  (* history: tasks add_task was called with                  *)
    accepted,   (* history: tasks add_task put in the queue                 *)
    done        (* history: tasks whose function has been accounted for     *)

vars == <<lock, waiters, queue, stop_m, n_started, n_running, pc, arg, task,
          joining, freed, submitted, accepted, done>>

StopModes == {"DONT_STOP", "IMMEDIATE", "GRACEFUL"}

(* The control points where a thread asks for pool.lock, and the one it    *)
(* reaches when it gets it.  A worker whose cond.wait has been woken asks  *)
(* for the lock again before cond.wait returns.                            *)
AfterLock == [w_lock    |-> "w_test",
              w_wait    |-> "w_test",
              w_relock  |-> "w_finish",
              add_lock  |-> "add",
              stop_lock |-> "stop",
              wait_lock |-> "wait",
              run_lock  |-> "running"]

Critical == {"w_test", "w_finish", "w_break", "add", "stop", "wait", "running"}

WorkerPcs == {"unborn", "w_lock", "w_wait", "w_test", "w_run", "w_relock",
              "w_finish", "w_break", "add_lock", "add", "exited"}
ClientPcs == {"creating", "no_pool", "idle", "add_lock", "add", "stop_lock",
              "stop", "join", "joined", "wait_lock", "wait", "usleep",
              "run_lock", "running"}

(* The workers that have taken a task and not yet given n_running back. *)
Busy == {w \in Workers : task[w] # None}

Queued == {queue[i] : i \in DOMAIN queue}

TypeOK ==
    /\ lock \in Threads \cup {None}
    /\ waiters \in SUBSET Workers
    /\ queue \in Seq(Tasks)
    /\ stop_m \in StopModes
    /\ n_started \in 0..PoolSize
    /\ n_running \in Int
    /\ pc \in [Threads -> WorkerPcs \cup ClientPcs]
    /\ \A w \in Workers : pc[w] \in WorkerPcs
    /\ \A c \in Clients : pc[c] \in ClientPcs
    /\ arg \in [Threads -> Tasks \cup StopModes \cup {None}]
    /\ task \in [Workers -> Tasks \cup {None}]
    /\ joining \in [Clients -> 1..PoolSize + 1]
    /\ freed \in BOOLEAN
    /\ submitted \in SUBSET Tasks
    /\ accepted \in SUBSET Tasks
    /\ done \in SUBSET Tasks

Init ==
    /\ lock = None
    /\ waiters = {}
    /\ queue = <<>>
    /\ stop_m = "DONT_STOP"
    /\ n_started = 0
    /\ n_running = 0
    /\ pc = [t \in Threads |-> IF t \in Workers THEN "unborn"
                               ELSE IF t = Owner THEN "creating" ELSE "no_pool"]
    /\ arg = [t \in Threads |-> None]
    /\ task = [w \in Workers |-> None]
    /\ joining = [c \in Clients |-> 1]
    /\ freed = FALSE
    /\ submitted = {}
    /\ accepted = {}
    /\ done = {}

Goto(t, l) == pc' = [pc EXCEPT ![t] = l]

-----------------------------------------------------------------------------
(* threadpool.create: one turn of the loop that starts the workers, and    *)
(* the return, after which every client may use the pool.                  *)

(* Faulty: i <= n_workers. *)
CreateOneTooMany ==
    /\ pc[Owner] = "creating"
    /\ n_started <= PoolSize
    /\ n_started' = n_started + 1
    /\ UNCHANGED <<lock, waiters, queue, stop_m, n_running, pc, arg, task, joining,
                   freed, submitted, accepted, done>>

CreateWorker ==
    /\ pc[Owner] = "creating"
    /\ n_started < PoolSize
    /\ n_started' = n_started + 1
    /\ Goto(n_started + 1, "w_lock")
    /\ UNCHANGED <<lock, waiters, queue, stop_m, n_running, arg, task, joining,
                   freed, submitted, accepted, done>>

CreateReturn ==
    /\ pc[Owner] = "creating"
    /\ n_started = PoolSize
    /\ pc' = [t \in Threads |-> IF t \in Clients THEN "idle" ELSE pc[t]]
    /\ UNCHANGED <<lock, waiters, queue, stop_m, n_started, n_running, arg, task,
                   joining, freed, submitted, accepted, done>>

-----------------------------------------------------------------------------
(* The mutex and the condition variable. *)

Acquire(t) ==
    /\ pc[t] \in DOMAIN AfterLock
    /\ lock = None
    /\ t \notin waiters
    /\ lock' = t
    /\ Goto(t, AfterLock[pc[t]])
    /\ UNCHANGED <<waiters, queue, stop_m, n_started, n_running, arg, task,
                   joining, freed, submitted, accepted, done>>

(* pthread_cond_wait may return although nobody signalled. *)
SpuriousWakeup(w) ==
    /\ w \in waiters
    /\ waiters' = waiters \ {w}
    /\ UNCHANGED <<lock, queue, stop_m, n_started, n_running, pc, arg, task,
                   joining, freed, submitted, accepted, done>>

(* Faulty: nobody is woken. *)
WakeNone == UNCHANGED waiters

(* Signal wakes one waiter if there is one; broadcast wakes all of them.   *)
Signal == IF waiters = {} THEN waiters' = {}
          ELSE \E w \in waiters : waiters' = waiters \ {w}
(* Faulty: stop() signals where it has to broadcast. *)
WakeOne == Signal
Broadcast == waiters' = {}

-----------------------------------------------------------------------------
(* thread_task, the function every worker runs. *)

(* The inner while: nothing to do and no stop asked for. *)
WorkerWait(w) ==
    /\ pc[w] = "w_test"
    /\ queue = <<>> /\ stop_m = "DONT_STOP"
    /\ waiters' = waiters \cup {w}
    /\ lock' = None
    /\ Goto(w, "w_wait")
    /\ UNCHANGED <<queue, stop_m, n_started, n_running, arg, task, joining,
                   freed, submitted, accepted, done>>

(* Faulty: a graceful stop does not look at the queue. *)
LeaveAtOnce == stop_m # "DONT_STOP"
(* Faulty: an immediate stop empties the queue first. *)
LeaveWhenEmpty == stop_m # "DONT_STOP" /\ queue = <<>>

MayLeave == \/ stop_m = "IMMEDIATE"
            \/ stop_m = "GRACEFUL" /\ queue = <<>>

WorkerBreak(w) ==
    /\ pc[w] = "w_test"
    /\ MayLeave
    /\ Goto(w, "w_break")
    /\ UNCHANGED <<lock, waiters, queue, stop_m, n_started, n_running, arg, task,
                   joining, freed, submitted, accepted, done>>

(* Faulty: de() leaves the last task linked. *)
TakeLinked(w) ==
    /\ pc[w] = "w_test"
    /\ ~MayLeave
    /\ queue # <<>>
    /\ task' = [task EXCEPT ![w] = Head(queue)]
    /\ queue' = IF Len(queue) = 1 THEN queue ELSE Tail(queue)
    /\ n_running' = n_running + 1
    /\ lock' = None
    /\ Goto(w, "w_run")
    /\ UNCHANGED <<waiters, stop_m, n_started, arg, joining, freed, submitted,
                   accepted, done>>

(* queue.de(), the counter, and the unlock: one critical section. *)
WorkerTake(w) ==
    /\ pc[w] = "w_test"
    /\ ~MayLeave
    /\ queue # <<>>
    /\ task' = [task EXCEPT ![w] = Head(queue)]
    /\ queue' = Tail(queue)
    /\ n_running' = n_running + 1
    /\ lock' = None
    /\ Goto(w, "w_run")
    /\ UNCHANGED <<waiters, stop_m, n_started, arg, joining, freed, submitted,
                   accepted, done>>

(* f(a) returns. *)
TaskReturns(w) ==
    /\ pc[w] = "w_run"
    /\ Goto(w, "w_relock")
    /\ UNCHANGED <<lock, waiters, queue, stop_m, n_started, n_running, arg, task,
                   joining, freed, submitted, accepted, done>>

(* Faulty: n_running is not given back. *)
FinishUncounted(w) ==
    /\ pc[w] = "w_finish"
    /\ done' = done \cup {task[w]}
    /\ task' = [task EXCEPT ![w] = None]
    /\ lock' = None
    /\ Goto(w, "w_lock")
    /\ UNCHANGED <<waiters, queue, stop_m, n_started, n_running, arg, joining,
                   freed, submitted, accepted>>

WorkerFinish(w) ==
    /\ pc[w] = "w_finish"
    /\ n_running' = n_running - 1
    /\ done' = done \cup {task[w]}
    /\ task' = [task EXCEPT ![w] = None]
    /\ lock' = None
    /\ Goto(w, "w_lock")
    /\ UNCHANGED <<waiters, queue, stop_m, n_started, arg, joining, freed,
                   submitted, accepted>>

(* After the outer loop: unlock and thread::exit. *)
WorkerExit(w) ==
    /\ pc[w] = "w_break"
    /\ lock' = None
    /\ Goto(w, "exited")
    /\ UNCHANGED <<waiters, queue, stop_m, n_started, n_running, arg, task,
                   joining, freed, submitted, accepted, done>>

-----------------------------------------------------------------------------
(* threadpool.add_task, from a client or from inside a running task. *)

CallAddTask(t, x) ==
    /\ x \notin submitted
    /\ \/ pc[t] = "idle" /\ x \notin Nested
       \/ pc[t] = "w_run" /\ x \in Nested
    /\ submitted' = submitted \cup {x}
    /\ arg' = [arg EXCEPT ![t] = x]
    /\ Goto(t, "add_lock")
    /\ UNCHANGED <<lock, waiters, queue, stop_m, n_started, n_running, task,
                   joining, freed, accepted, done>>

AddTask(t) ==
    /\ pc[t] = "add"
    /\ IF stop_m = "DONT_STOP"
       THEN /\ queue' = Append(queue, arg[t])
            /\ accepted' = accepted \cup {arg[t]}
            /\ Signal
       ELSE UNCHANGED <<queue, accepted, waiters>>
    /\ lock' = None
    /\ Goto(t, IF t \in Workers THEN "w_run" ELSE "idle")
    /\ UNCHANGED <<stop_m, n_started, n_running, arg, task, joining, freed,
                   submitted, done>>

-----------------------------------------------------------------------------
(* threadpool.stop: refused if the mode says nothing or a stop was already *)
(* asked for; otherwise publish the mode, wake everyone, join every thread. *)

CallStop(c, m) ==
    /\ pc[c] = "idle"
    /\ arg' = [arg EXCEPT ![c] = m]
    /\ Goto(c, "stop_lock")
    /\ UNCHANGED <<lock, waiters, queue, stop_m, n_started, n_running, task,
                   joining, freed, submitted, accepted, done>>

StopRefused(c) ==
    /\ pc[c] = "stop"
    /\ arg[c] = "DONT_STOP" \/ stop_m # "DONT_STOP"
    /\ lock' = None
    /\ Goto(c, "idle")
    /\ UNCHANGED <<waiters, queue, stop_m, n_started, n_running, arg, task,
                   joining, freed, submitted, accepted, done>>

(* Faulty: a second stop is not turned away. *)
PublishAgain(c) ==
    /\ pc[c] = "stop"
    /\ arg[c] # "DONT_STOP"
    /\ stop_m' = arg[c]
    /\ Broadcast
    /\ lock' = None
    /\ joining' = [joining EXCEPT ![c] = 1]
    /\ Goto(c, "join")
    /\ UNCHANGED <<queue, n_started, n_running, arg, task, freed, submitted,
                   accepted, done>>

StopPublish(c) ==
    /\ pc[c] = "stop"
    /\ arg[c] # "DONT_STOP" /\ stop_m = "DONT_STOP"
    /\ stop_m' = arg[c]
    /\ Broadcast
    /\ lock' = None
    /\ joining' = [joining EXCEPT ![c] = 1]
    /\ Goto(c, "join")
    /\ UNCHANGED <<queue, n_started, n_running, arg, task, freed, submitted,
                   accepted, done>>

(* t.join() for the next element of pool.threads. *)
Join(c) ==
    /\ pc[c] = "join"
    /\ joining[c] \in Workers
    /\ pc[joining[c]] = "exited"
    /\ joining' = [joining EXCEPT ![c] = @ + 1]
    /\ UNCHANGED <<lock, waiters, queue, stop_m, n_started, n_running, pc, arg,
                   task, freed, submitted, accepted, done>>

(* Faulty: the join loop leaves out the last thread. *)
ReturnEarly(c) ==
    /\ pc[c] = "join"
    /\ joining[c] = PoolSize
    /\ Goto(c, "joined")
    /\ UNCHANGED <<lock, waiters, queue, stop_m, n_started, n_running, arg, task,
                   joining, freed, submitted, accepted, done>>

StopReturn(c) ==
    /\ pc[c] = "join"
    /\ joining[c] = PoolSize + 1
    /\ Goto(c, "joined")
    /\ UNCHANGED <<lock, waiters, queue, stop_m, n_started, n_running, arg, task,
                   joining, freed, submitted, accepted, done>>

-----------------------------------------------------------------------------
(* threadpool.wait and threadpool.running. *)

CallWait(c) ==
    /\ pc[c] = "idle"
    /\ Goto(c, "wait_lock")
    /\ UNCHANGED <<lock, waiters, queue, stop_m, n_started, n_running, arg, task,
                   joining, freed, submitted, accepted, done>>

(* Faulty: wait() looks at the queue only. *)
NothingQueued == queue = <<>>

Idle == queue = <<>> /\ n_running = 0

WaitReturn(c) ==
    /\ pc[c] = "wait"
    /\ Idle
    /\ lock' = None
    /\ Goto(c, "idle")
    /\ UNCHANGED <<waiters, queue, stop_m, n_started, n_running, arg, task,
                   joining, freed, submitted, accepted, done>>

WaitAgain(c) ==
    /\ pc[c] = "wait"
    /\ ~Idle
    /\ lock' = None
    /\ Goto(c, "usleep")
    /\ UNCHANGED <<waiters, queue, stop_m, n_started, n_running, arg, task,
                   joining, freed, submitted, accepted, done>>

WaitWake(c) ==
    /\ pc[c] = "usleep"
    /\ Goto(c, "wait_lock")
    /\ UNCHANGED <<lock, waiters, queue, stop_m, n_started, n_running, arg, task,
                   joining, freed, submitted, accepted, done>>

CallRunning(c) ==
    /\ pc[c] = "idle"
    /\ Goto(c, "run_lock")
    /\ UNCHANGED <<lock, waiters, queue, stop_m, n_started, n_running, arg, task,
                   joining, freed, submitted, accepted, done>>

RunningReturn(c) ==
    /\ pc[c] = "running"
    /\ lock' = None
    /\ Goto(c, "idle")
    /\ UNCHANGED <<waiters, queue, stop_m, n_started, n_running, arg, task,
                   joining, freed, submitted, accepted, done>>

-----------------------------------------------------------------------------
(* threadpool.free.  The code around the pool decides when to call it; the *)
(* model lets the client whose stop() joined the workers do so once no     *)
(* other client is inside a pool operation.                                *)

Free(c) ==
    /\ pc[c] = "joined"
    /\ ~freed
    /\ \A d \in Clients \ {c} : pc[d] = "idle"
    /\ freed' = TRUE
    /\ queue' = <<>>
    /\ pc' = [t \in Threads |-> IF t \in Clients THEN "no_pool" ELSE pc[t]]
    /\ UNCHANGED <<lock, waiters, stop_m, n_started, n_running, arg, task,
                   joining, submitted, accepted, done>>

(* The program has no pool any more. *)
AfterFree == freed /\ UNCHANGED vars

-----------------------------------------------------------------------------
WorkerStep(w) ==
    \/ Acquire(w) \/ WorkerWait(w) \/ WorkerBreak(w) \/ WorkerTake(w)
    \/ TaskReturns(w) \/ WorkerFinish(w) \/ WorkerExit(w) \/ AddTask(w)

ClientStep(c) ==
    \/ Acquire(c) \/ AddTask(c) \/ StopRefused(c) \/ StopPublish(c) \/ Join(c)
    \/ StopReturn(c) \/ WaitReturn(c) \/ WaitAgain(c) \/ WaitWake(c)
    \/ RunningReturn(c)

ClientCall(c) ==
    \/ \E m \in StopModes : CallStop(c, m)
    \/ CallWait(c) \/ CallRunning(c) \/ Free(c)

Next ==
    \/ CreateWorker \/ CreateReturn
    \/ \E w \in Workers : WorkerStep(w) \/ SpuriousWakeup(w)
    \/ \E c \in Clients : ClientStep(c) \/ ClientCall(c)
    \/ \E t \in Threads, x \in Tasks : CallAddTask(t, x)
    \/ AfterFree

(* A thread that can take a step outside the lock eventually does; the     *)
(* mutex is not unfair to a thread that keeps asking for it (the wait loop *)
(* takes and releases it over and over).  Nothing is assumed of the calls  *)
(* the program chooses to make, nor of spurious wakeups.                   *)
Fairness ==
    /\ WF_vars(CreateWorker) /\ WF_vars(CreateReturn)
    /\ \A w \in Workers : WF_vars(WorkerStep(w)) /\ SF_vars(Acquire(w))
    /\ \A c \in Clients : WF_vars(ClientStep(c)) /\ SF_vars(Acquire(c))

Spec == Init /\ [][Next]_vars
FairSpec == Spec /\ Fairness

-----------------------------------------------------------------------------
(* Properties.                                                             *)

(* A thread is inside a critical section exactly when it owns pool.lock,   *)
(* whichever way it left the last one: unlock, return, break or cond.wait. *)
LockDiscipline == \A t \in Threads : (pc[t] \in Critical) <=> (lock = t)

(* n_running, the number wait() and running() go by, is never out of step  *)
(* with the tasks that are really being run, also between the unlock after *)
(* de() and the lock after f(a).                                           *)
CountsBusy == n_running = Cardinality(Busy)

(* No task is lost or run twice: until free() throws the queue away, every *)
(* task add_task accepted is in exactly one place - queued once, with one  *)
(* worker, or done.                                                        *)
Conservation ==
    /\ ~freed => accepted = done \cup Queued \cup {task[w] : w \in Busy}
    /\ \A i, j \in DOMAIN queue : queue[i] = queue[j] => i = j
    /\ \A v, w \in Busy : task[v] = task[w] => v = w
    /\ \A w \in Busy : task[w] \notin done \cup Queued
    /\ done \cap Queued = {}

(* When wait() returns, everything accepted so far has been run to its     *)
(* end: no task can be between the queue and n_running.  (This also says   *)
(* that wait() cannot return once an immediate stop has stranded a task.)  *)
WaitMeansDone ==
    [][\A c \in Clients :
          pc[c] = "wait" /\ pc'[c] = "idle" => accepted \subseteq done]_vars

(* Of all the stop() calls that race each other, one joins the workers: a  *)
(* thread that is joined twice is undefined behaviour.                     *)
OneJoiner ==
    \A c, d \in Clients :
        pc[c] \in {"join", "joined"} /\ pc[d] \in {"join", "joined"} => c = d

(* When the stop() that joined returns, and still when free() has run, no  *)
(* worker will touch the pool again, nothing is running, and after a       *)
(* graceful stop every accepted task, nested ones included, is done.       *)
StoppedIsQuiet ==
    freed \/ (\E c \in Clients : pc[c] = "joined") =>
        /\ \A w \in Workers : pc[w] = "exited"
        /\ waiters = {} /\ lock \notin Workers
        /\ n_running = 0
        /\ stop_m = "GRACEFUL" => accepted \subseteq done

(* The pool is an implementation of what it promises. *)
Contract == INSTANCE PoolContract WITH
                Width   <- PoolSize,
                running <- {task[w] : w \in Busy},
                mode    <- stop_m
ImplementsContract == Contract!Spec

(* No wake-up is lost: an accepted task is run unless an immediate stop    *)
(* intervenes, although workers only look at the queue when woken.         *)
AcceptedTasksRun ==
    \A x \in Tasks : x \in accepted ~> x \in done \/ stop_m = "IMMEDIATE"

(* stop() gets all of its threads joined, the sleeping ones included. *)
StopReturns ==
    \A c \in Clients : pc[c] = "join" ~> pc[c] = "joined"

(* wait() returns, unless an immediate stop has been asked for (the tasks  *)
(* it leaves in the queue keep queue.len above 0 for ever).                *)
WaitReturns ==
    \A c \in Clients :
        pc[c] = "wait_lock" ~> pc[c] = "idle" \/ stop_m = "IMMEDIATE"

-----------------------------------------------------------------------------
(* The inductive invariant behind the safety properties.                   *)

Adding == {t \in Threads : pc[t] \in {"add_lock", "add"}}

WorkerPhases ==
    \A w \in Workers :
        /\ pc[w] = "unborn" <=> w > n_started
        /\ task[w] # None <=>
              pc[w] \in {"w_run", "add_lock", "add", "w_relock", "w_finish"}
        /\ w \in waiters => pc[w] = "w_wait"
        /\ pc[w] \in {"w_break", "exited"} => MayLeave

(* A task on its way into add_task is not in the pool, and nobody else has *)
(* it.                                                                     *)
Handover ==
    /\ accepted \subseteq submitted
    /\ \A t \in Adding : arg[t] \in submitted \ accepted
    /\ \A t, u \in Adding : arg[t] = arg[u] => t = u

ClientPhases ==
    /\ pc[Owner] = "creating" => \A c \in Clients \ {Owner} : pc[c] = "no_pool"
    /\ \A c \in Clients :
          /\ pc[c] \in {"stop_lock", "stop"} => arg[c] \in StopModes
          /\ pc[c] \in {"join", "joined"} => stop_m # "DONT_STOP"
          /\ pc[c] = "join" =>
                \A w \in Workers : w < joining[c] => pc[w] = "exited"
          /\ pc[c] = "joined" => \A w \in Workers : pc[w] = "exited"
    /\ freed =>
          /\ \A c \in Clients : pc[c] = "no_pool"
          /\ \A w \in Workers : pc[w] = "exited"
          /\ stop_m = "GRACEFUL" => accepted \subseteq done

IInv ==
    /\ TypeOK
    /\ LockDiscipline
    /\ CountsBusy
    /\ Conservation
    /\ OneJoiner
    /\ WorkerPhases
    /\ Handover
    /\ ClientPhases
=============================================================================
