--------------------------- MODULE ThreadPoolProofs ---------------------------
(***************************************************************************)
(* Proofs about ThreadPool, for every number of workers, clients and       *)
(* tasks: IInv is an inductive invariant, the safety properties follow     *)
(* from it, and every step of the pool is a step of PoolContract.          *)
(***************************************************************************)
EXTENDS ThreadPool, TLAPS, FiniteSetTheorems, SequenceTheorems

-----------------------------------------------------------------------------
(* Facts about the constants, the queue and the set of busy workers.       *)

(* There is at least one worker, workers are not clients, and None is new. *)
LEMMA PoolFacts ==
    /\ PoolSize \in Nat /\ PoolSize >= 1
    /\ Workers = 1..PoolSize
    /\ IsFiniteSet(Workers) /\ Cardinality(Workers) = PoolSize
    /\ Workers \cap Clients = {}
    /\ Owner \in Clients
    /\ None \notin Threads /\ None \notin Tasks
<1>1. PoolSize \in Nat /\ PoolSize >= 1
  BY ThreadPoolAssumption DEF PoolSize
<1>2. IsFiniteSet(1..PoolSize) /\ Cardinality(1..PoolSize) = PoolSize
  BY <1>1, FS_Interval
<1> QED BY <1>1, <1>2, ThreadPoolAssumption DEF Workers

(* The elements of a sequence. *)
Elems(q) == {q[i] : i \in DOMAIN q}

(* Queued holds the elements of the queue, before and after a step. *)
LEMMA QueuedElems == Queued = Elems(queue) /\ Queued' = Elems(queue')
BY DEF Queued, Elems

(* Taking the head of a sequence without repetitions takes exactly the     *)
(* head out of its elements (task_queue.de).                               *)
LEMMA TailElems ==
    ASSUME NEW S, NEW q \in Seq(S), q # <<>>,
           \A i, j \in DOMAIN q : q[i] = q[j] => i = j
    PROVE  /\ Head(q) \in S /\ Head(q) \in Elems(q)
           /\ Tail(q) \in Seq(S)
           /\ Elems(Tail(q)) = Elems(q) \ {Head(q)}
           /\ \A i, j \in DOMAIN Tail(q) : Tail(q)[i] = Tail(q)[j] => i = j
<1>1. /\ Len(q) \in Nat \ {0} /\ DOMAIN q = 1..Len(q)
      /\ \A i \in 1..Len(q) : q[i] \in S
      /\ Tail(q) \in Seq(S) /\ Len(Tail(q)) = Len(q) - 1
      /\ DOMAIN Tail(q) = 1..Len(q) - 1
      /\ \A i \in 1..Len(q) - 1 : Tail(q)[i] = q[i + 1]
      /\ Head(q) = q[1]
  OBVIOUS
<1>2. Elems(Tail(q)) \subseteq Elems(q) \ {Head(q)}
  BY <1>1 DEF Elems
<1>3. ASSUME NEW e \in Elems(q) \ {Head(q)}
      PROVE  e \in Elems(Tail(q))
  <2>1. PICK i \in 1..Len(q) : e = q[i] /\ i # 1
    BY <1>1 DEF Elems
  <2>2. i - 1 \in 1..Len(q) - 1 /\ Tail(q)[i - 1] = e
    BY <1>1, <2>1
  <2> QED BY <1>1, <2>2 DEF Elems
<1>4. \A i, j \in DOMAIN Tail(q) : Tail(q)[i] = Tail(q)[j] => i = j
  BY <1>1
<1> QED BY <1>1, <1>2, <1>3, <1>4 DEF Elems

(* Appending a new element adds it to the elements (task_queue.en). *)
LEMMA AppendElems ==
    ASSUME NEW S, NEW q \in Seq(S), NEW x \in S, x \notin Elems(q),
           \A i, j \in DOMAIN q : q[i] = q[j] => i = j
    PROVE  /\ Append(q, x) \in Seq(S)
           /\ Elems(Append(q, x)) = Elems(q) \cup {x}
           /\ \A i, j \in DOMAIN Append(q, x) :
                 Append(q, x)[i] = Append(q, x)[j] => i = j
<1>1. /\ Len(q) \in Nat /\ DOMAIN q = 1..Len(q)
      /\ Append(q, x) \in Seq(S)
      /\ DOMAIN Append(q, x) = 1..Len(q) + 1
      /\ \A i \in 1..Len(q) : Append(q, x)[i] = q[i]
      /\ Append(q, x)[Len(q) + 1] = x
  OBVIOUS
<1>2. \A i \in 1..Len(q) : q[i] # x
  BY <1>1 DEF Elems
<1>3. Elems(Append(q, x)) = Elems(q) \cup {x}
  <2>1. Elems(Append(q, x)) \subseteq Elems(q) \cup {x}
    BY <1>1 DEF Elems
  <2>2. Elems(q) \subseteq Elems(Append(q, x))
    BY <1>1 DEF Elems
  <2>3. x \in Elems(Append(q, x))
    BY <1>1 DEF Elems
  <2> QED BY <2>1, <2>2, <2>3
<1> QED BY <1>1, <1>2, <1>3

(* The tasks that busy workers hold. *)
Running == {task[w] : w \in Busy}

(* Busy is a finite set, and it is empty when nothing is counted. *)
LEMMA BusyFinite ==
    /\ IsFiniteSet(Busy)
    /\ Cardinality(Busy) \in Nat
    /\ Cardinality(Busy) = 0 <=> Busy = {}
<1>1. Busy \in SUBSET Workers
  BY DEF Busy
<1>2. IsFiniteSet(Busy)
  BY <1>1, PoolFacts, FS_Subset
<1> QED BY <1>2, FS_CardinalityType, FS_EmptySet

-----------------------------------------------------------------------------
(* Each part of the invariant is preserved by every step. *)

(* The invariant holds before create() has started its first worker. *)
LEMMA InitIInv == Init => IInv
<1> SUFFICES ASSUME Init PROVE IInv
  OBVIOUS
<1>1. TypeOK
  <2>1. pc \in [Threads -> WorkerPcs \cup ClientPcs]
    BY DEF Init, WorkerPcs, ClientPcs
  <2>2. /\ \A w \in Workers : pc[w] \in WorkerPcs
        /\ \A c \in Clients : pc[c] \in ClientPcs
    BY PoolFacts DEF Init, Threads, WorkerPcs, ClientPcs
  <2>3. joining \in [Clients -> 1..PoolSize + 1] /\ n_started \in 0..PoolSize
    BY PoolFacts DEF Init
  <2>4. queue \in Seq(Tasks)
    BY DEF Init
  <2>5. /\ lock \in Threads \cup {None} /\ waiters \in SUBSET Workers
        /\ stop_m \in StopModes /\ n_running \in Int
        /\ arg \in [Threads -> Tasks \cup StopModes \cup {None}]
        /\ task \in [Workers -> Tasks \cup {None}]
        /\ submitted \in SUBSET Tasks /\ accepted \in SUBSET Tasks
        /\ done \in SUBSET Tasks
    BY DEF Init, StopModes
  <2>6. freed \in BOOLEAN
    BY DEF Init
  <2> QED BY <2>1, <2>2, <2>3, <2>4, <2>5, <2>6 DEF TypeOK
<1>2. LockDiscipline
  BY PoolFacts DEF Init, LockDiscipline, Critical
<1>3. Busy = {}
  BY DEF Init, Busy
<1>4. CountsBusy
  BY <1>3, FS_EmptySet DEF CountsBusy, Init
<1>5. Conservation
  BY <1>3 DEF Conservation, Init, Queued
<1>6. OneJoiner
  BY PoolFacts DEF Init, OneJoiner, Threads
<1>7. WorkerPhases
  BY PoolFacts DEF Init, WorkerPhases, Threads
<1>8. Handover
  BY DEF Init, Handover, Adding
<1>9. ClientPhases
  BY PoolFacts DEF Init, ClientPhases, Threads
<1> QED BY <1>1, <1>2, <1>4, <1>5, <1>6, <1>7, <1>8, <1>9 DEF IInv

(* Getting the lock moves a thread from one of seven places to the critical *)
(* section it asked for.                                                   *)
LEMMA AcquireCases ==
    ASSUME NEW t, Acquire(t)
    PROVE  \/ pc[t] \in {"w_lock", "w_wait"} /\ Goto(t, "w_test")
           \/ pc[t] = "w_relock"  /\ Goto(t, "w_finish")
           \/ pc[t] = "add_lock"  /\ Goto(t, "add")
           \/ pc[t] = "stop_lock" /\ Goto(t, "stop")
           \/ pc[t] = "wait_lock" /\ Goto(t, "wait")
           \/ pc[t] = "run_lock"  /\ Goto(t, "running")
BY DEF Acquire, AfterLock

(* Getting the lock neither starts nor ends a worker, and does not change   *)
(* whether it is busy.                                                     *)
LEMMA AcquireKeepsPhase ==
    ASSUME NEW t, Acquire(t)
    PROVE  \E l : /\ Goto(t, l)
                  /\ {pc[t], l} \cap {"unborn", "w_break", "exited"} = {}
                  /\ pc[t] \in {"w_run", "add_lock", "add", "w_relock", "w_finish"}
                       <=> l \in {"w_run", "add_lock", "add", "w_relock", "w_finish"}
BY AcquireCases

(* Next, action by action. *)
LEMMA StepCases ==
    [Next]_vars =>
        \/ CreateWorker \/ CreateReturn
        \/ \E t \in Threads : \/ Acquire(t) \/ AddTask(t)
                              \/ \E x \in Tasks : CallAddTask(t, x)
        \/ \E w \in Workers :
              \/ SpuriousWakeup(w) \/ WorkerWait(w) \/ WorkerBreak(w)
              \/ WorkerTake(w) \/ TaskReturns(w) \/ WorkerFinish(w)
              \/ WorkerExit(w)
        \/ \E c \in Clients :
              \/ \E m \in StopModes : CallStop(c, m)
              \/ StopRefused(c) \/ StopPublish(c) \/ Join(c) \/ StopReturn(c)
              \/ CallWait(c) \/ WaitReturn(c) \/ WaitAgain(c) \/ WaitWake(c)
              \/ CallRunning(c) \/ RunningReturn(c) \/ Free(c)
        \/ AfterFree \/ UNCHANGED vars
BY DEF Next, WorkerStep, ClientStep, ClientCall, Threads

(* notify.signal() wakes a waiter or nobody: it blocks no thread. *)
LEMMA SignalWakes ==
  ASSUME Signal PROVE waiters' \subseteq waiters
BY DEF Signal

(* Type correctness is preserved. *)
LEMMA TypeStep == IInv /\ [Next]_vars => TypeOK'
<1> SUFFICES ASSUME IInv, [Next]_vars PROVE TypeOK'
  OBVIOUS
<1> USE PoolFacts DEF IInv, TypeOK, Goto, Threads, WorkerPcs, ClientPcs, StopModes
<1>1. CASE CreateWorker
  BY <1>1 DEF CreateWorker
<1>2. CASE CreateReturn
  BY <1>2 DEF CreateReturn
<1>3. ASSUME NEW t \in Threads, Acquire(t) PROVE TypeOK'
  <2>1. t \in Workers \/ t \in Clients
    OBVIOUS
  <2>2. PICK l \in {"w_test", "w_finish", "add", "stop", "wait", "running"} :
           /\ Goto(t, l)
           /\ t \in Workers => l \in WorkerPcs
           /\ t \in Clients => l \in ClientPcs
    BY <1>3, <2>1, AcquireCases
  <2> QED BY <1>3, <2>1, <2>2 DEF Acquire
<1>4. ASSUME NEW w \in Workers, SpuriousWakeup(w) PROVE TypeOK'
  BY <1>4 DEF SpuriousWakeup
<1>5. ASSUME NEW w \in Workers, WorkerWait(w) PROVE TypeOK'
  BY <1>5 DEF WorkerWait
<1>6. ASSUME NEW w \in Workers, WorkerBreak(w) PROVE TypeOK'
  BY <1>6 DEF WorkerBreak
<1>7. ASSUME NEW w \in Workers, WorkerTake(w) PROVE TypeOK'
  BY <1>7, TailElems DEF WorkerTake, Conservation
<1>8. ASSUME NEW w \in Workers, TaskReturns(w) PROVE TypeOK'
  BY <1>8 DEF TaskReturns
<1>9. ASSUME NEW w \in Workers, WorkerFinish(w) PROVE TypeOK'
  BY <1>9 DEF WorkerFinish, WorkerPhases
<1>10. ASSUME NEW w \in Workers, WorkerExit(w) PROVE TypeOK'
  BY <1>10 DEF WorkerExit
<1>11. ASSUME NEW t \in Threads, NEW x \in Tasks, CallAddTask(t, x) PROVE TypeOK'
  BY <1>11 DEF CallAddTask
<1>12. ASSUME NEW t \in Threads, AddTask(t) PROVE TypeOK'
  <2>1. arg[t] \in Tasks
    BY <1>12 DEF AddTask, Handover, Adding
  <2>2. Append(queue, arg[t]) \in Seq(Tasks)
    BY <2>1
  <2>3. waiters' \in SUBSET Workers
    <3>1. Signal \/ waiters' = waiters
      BY <1>12 DEF AddTask
    <3>2. waiters' \subseteq waiters
      BY <3>1, SignalWakes
    <3> QED BY <3>2
  <2>4. queue' \in Seq(Tasks) /\ accepted' \in SUBSET Tasks
    <3>1. CASE stop_m = "DONT_STOP"
      <4>1. queue' = Append(queue, arg[t]) /\ accepted' = accepted \cup {arg[t]}
        BY <1>12, <3>1 DEF AddTask
      <4> QED BY <4>1, <2>1, <2>2
    <3>2. CASE stop_m # "DONT_STOP"
      BY <1>12, <3>2 DEF AddTask
    <3> QED BY <3>1, <3>2
  <2>5. /\ pc' \in [Threads -> WorkerPcs \cup ClientPcs]
        /\ \A w \in Workers : pc'[w] \in WorkerPcs
        /\ \A c \in Clients : pc'[c] \in ClientPcs
    <3>1. Goto(t, IF t \in Workers THEN "w_run" ELSE "idle")
      BY <1>12 DEF AddTask
    <3>2. CASE t \in Workers
      BY <3>1, <3>2
    <3>3. CASE t \in Clients
      BY <3>1, <3>3
    <3> QED BY <3>2, <3>3
  <2> QED BY <1>12, <2>3, <2>4, <2>5 DEF AddTask
<1>13. ASSUME NEW c \in Clients, NEW m \in StopModes, CallStop(c, m) PROVE TypeOK'
  BY <1>13 DEF CallStop
<1>14. ASSUME NEW c \in Clients, StopRefused(c) PROVE TypeOK'
  BY <1>14 DEF StopRefused
<1>15. ASSUME NEW c \in Clients, StopPublish(c) PROVE TypeOK'
  BY <1>15 DEF StopPublish, Broadcast, ClientPhases
<1>16. ASSUME NEW c \in Clients, Join(c) PROVE TypeOK'
  BY <1>16 DEF Join
<1>17. ASSUME NEW c \in Clients, StopReturn(c) PROVE TypeOK'
  BY <1>17 DEF StopReturn
<1>18. ASSUME NEW c \in Clients,
              CallWait(c) \/ WaitReturn(c) \/ WaitAgain(c) \/ WaitWake(c)
       PROVE TypeOK'
  <2>1. CASE CallWait(c)
    BY <2>1 DEF CallWait
  <2>2. CASE WaitReturn(c)
    BY <2>2 DEF WaitReturn
  <2>3. CASE WaitAgain(c)
    BY <2>3 DEF WaitAgain
  <2>4. CASE WaitWake(c)
    BY <2>4 DEF WaitWake
  <2> QED BY <1>18, <2>1, <2>2, <2>3, <2>4
<1>19. ASSUME NEW c \in Clients, CallRunning(c) \/ RunningReturn(c) PROVE TypeOK'
  <2>1. CASE CallRunning(c)
    BY <2>1 DEF CallRunning
  <2>2. CASE RunningReturn(c)
    BY <2>2 DEF RunningReturn
  <2> QED BY <1>19, <2>1, <2>2
<1>20. ASSUME NEW c \in Clients, Free(c) PROVE TypeOK'
  BY <1>20 DEF Free
<1>21. CASE AfterFree \/ UNCHANGED vars
  <2>1. CASE AfterFree
    BY <2>1 DEF AfterFree, vars
  <2>2. CASE UNCHANGED vars
    BY <2>2 DEF vars
  <2> QED BY <1>21, <2>1, <2>2
<1> HIDE DEF IInv, TypeOK, Goto, Threads, WorkerPcs, ClientPcs, StopModes
<1> QED
  BY <1>1, <1>2, <1>3, <1>4, <1>5, <1>6, <1>7, <1>8, <1>9, <1>10, <1>11, <1>12,
     <1>13, <1>14, <1>15, <1>16, <1>17, <1>18, <1>19, <1>20, <1>21, StepCases

(* pool.lock is owned by the thread inside a critical section. *)
LEMMA LockStep == IInv /\ [Next]_vars => LockDiscipline'
<1> SUFFICES ASSUME IInv, [Next]_vars PROVE LockDiscipline'
  OBVIOUS
<1> USE PoolFacts DEF IInv, TypeOK, LockDiscipline, Critical, Goto, Threads
<1>1. CASE CreateWorker
  BY <1>1 DEF CreateWorker, WorkerPhases
<1>2. CASE CreateReturn
  BY <1>2 DEF CreateReturn, ClientPhases
<1>3. ASSUME NEW t \in Threads, Acquire(t) PROVE LockDiscipline'
  <2>1. PICK l \in Critical : Goto(t, l)
    BY <1>3, AcquireCases
  <2> QED BY <1>3, <2>1 DEF Acquire
<1>4. ASSUME NEW t \in Threads, AddTask(t) PROVE LockDiscipline'
  BY <1>4 DEF AddTask
<1>5. ASSUME NEW t \in Threads, NEW x \in Tasks, CallAddTask(t, x) PROVE
     LockDiscipline'
  BY <1>5 DEF CallAddTask
<1>6. ASSUME NEW w \in Workers, SpuriousWakeup(w) PROVE LockDiscipline'
  BY <1>6 DEF SpuriousWakeup
<1>7. ASSUME NEW w \in Workers, WorkerWait(w) PROVE LockDiscipline'
  BY <1>7 DEF WorkerWait
<1>8. ASSUME NEW w \in Workers, WorkerBreak(w) PROVE LockDiscipline'
  BY <1>8 DEF WorkerBreak
<1>9. ASSUME NEW w \in Workers, WorkerTake(w) PROVE LockDiscipline'
  BY <1>9 DEF WorkerTake
<1>10. ASSUME NEW w \in Workers, TaskReturns(w) PROVE LockDiscipline'
  BY <1>10 DEF TaskReturns
<1>11. ASSUME NEW w \in Workers, WorkerFinish(w) PROVE LockDiscipline'
  BY <1>11 DEF WorkerFinish
<1>12. ASSUME NEW w \in Workers, WorkerExit(w) PROVE LockDiscipline'
  BY <1>12 DEF WorkerExit
<1>13. ASSUME NEW c \in Clients, NEW m \in StopModes, CallStop(c, m) PROVE
     LockDiscipline'
  BY <1>13 DEF CallStop
<1>14. ASSUME NEW c \in Clients, StopRefused(c) PROVE LockDiscipline'
  BY <1>14 DEF StopRefused
<1>15. ASSUME NEW c \in Clients, StopPublish(c) PROVE LockDiscipline'
  BY <1>15 DEF StopPublish
<1>16. ASSUME NEW c \in Clients, Join(c) PROVE LockDiscipline'
  BY <1>16 DEF Join
<1>17. ASSUME NEW c \in Clients, StopReturn(c) PROVE LockDiscipline'
  BY <1>17 DEF StopReturn
<1>18. ASSUME NEW c \in Clients, CallWait(c) PROVE LockDiscipline'
  BY <1>18 DEF CallWait
<1>19. ASSUME NEW c \in Clients, WaitReturn(c) PROVE LockDiscipline'
  BY <1>19 DEF WaitReturn
<1>20. ASSUME NEW c \in Clients, WaitAgain(c) PROVE LockDiscipline'
  BY <1>20 DEF WaitAgain
<1>21. ASSUME NEW c \in Clients, WaitWake(c) PROVE LockDiscipline'
  BY <1>21 DEF WaitWake
<1>22. ASSUME NEW c \in Clients, CallRunning(c) PROVE LockDiscipline'
  BY <1>22 DEF CallRunning
<1>23. ASSUME NEW c \in Clients, RunningReturn(c) PROVE LockDiscipline'
  BY <1>23 DEF RunningReturn
<1>24. ASSUME NEW c \in Clients, Free(c) PROVE LockDiscipline'
  BY <1>24 DEF Free
<1>25. CASE AfterFree \/ UNCHANGED vars
  BY <1>25 DEF AfterFree, vars
<1> HIDE DEF IInv, TypeOK, LockDiscipline, Critical, Goto, Threads
<1> QED BY <1>1, <1>2, <1>3, <1>4, <1>5, <1>6, <1>7, <1>8, <1>9, <1>10, <1>11,
     <1>12, <1>13, <1>14, <1>15, <1>16, <1>17, <1>18, <1>19, <1>20, <1>21,
          <1>22, <1>23, <1>24, <1>25, StepCases

(* Only a busy worker can be told from an idle one by its place. *)
LEMMA BusyPhase ==
    ASSUME WorkerPhases, NEW w \in Workers
    PROVE  w \in Busy <=>
             pc[w] \in {"w_run", "add_lock", "add", "w_relock", "w_finish"}
BY DEF WorkerPhases, Busy

(* Where a worker is agrees with what it holds and with the stop mode. *)
LEMMA WorkerPhasesStep == IInv /\ [Next]_vars => WorkerPhases'
<1> SUFFICES ASSUME IInv, [Next]_vars PROVE WorkerPhases'
  OBVIOUS
<1> USE PoolFacts DEF IInv, TypeOK, WorkerPhases, MayLeave, Goto, Threads
<1>1. CASE CreateWorker
  <2>1. /\ n_started + 1 \in Workers /\ pc[n_started + 1] = "unborn"
        /\ n_started' = n_started + 1 /\ Goto(n_started + 1, "w_lock")
        /\ UNCHANGED <<task, waiters, stop_m, queue>>
    BY <1>1 DEF CreateWorker
  <2> QED BY <2>1
<1>2. CASE CreateReturn
  BY <1>2 DEF CreateReturn
<1>3. ASSUME NEW t \in Threads, Acquire(t) PROVE WorkerPhases'
  <2>1. UNCHANGED <<queue, stop_m, task, waiters, n_started>> /\ t \notin
       waiters
    BY <1>3 DEF Acquire
  <2>2. PICK l : /\ Goto(t, l)
                 /\ {pc[t], l} \cap {"unborn", "w_break", "exited"} = {}
                 /\ pc[t] \in {"w_run", "add_lock", "add", "w_relock", "w_finish"}
                      <=> l \in {"w_run", "add_lock", "add", "w_relock", "w_finish"}
    BY <1>3, AcquireKeepsPhase
  <2> QED BY <2>1, <2>2
<1>4. ASSUME NEW t \in Threads, AddTask(t) PROVE WorkerPhases'
  <2>1. waiters' \subseteq waiters
    <3>1. Signal \/ waiters' = waiters
      BY <1>4 DEF AddTask
    <3> QED BY <3>1, SignalWakes
  <2>2. UNCHANGED <<task, n_started, stop_m>>
    BY <1>4 DEF AddTask
  <2>3. pc[t] = "add" /\ Goto(t, IF t \in Workers THEN "w_run" ELSE "idle")
    BY <1>4 DEF AddTask
  <2>4. stop_m # "DONT_STOP" => UNCHANGED queue
    BY <1>4 DEF AddTask
  <2> QED BY <2>1, <2>2, <2>3, <2>4
<1>5. ASSUME NEW t \in Threads, NEW x \in Tasks, CallAddTask(t, x) PROVE
     WorkerPhases'
  BY <1>5 DEF CallAddTask, WorkerPcs
<1>6. ASSUME NEW w \in Workers, SpuriousWakeup(w) PROVE WorkerPhases'
  BY <1>6 DEF SpuriousWakeup
<1>7. ASSUME NEW w \in Workers, WorkerWait(w) PROVE WorkerPhases'
  BY <1>7 DEF WorkerWait
<1>8. ASSUME NEW w \in Workers, WorkerBreak(w) PROVE WorkerPhases'
  BY <1>8 DEF WorkerBreak
<1>9. ASSUME NEW w \in Workers, WorkerTake(w) PROVE WorkerPhases'
  <2>1. Head(queue) \in Tasks
    BY <1>9, TailElems DEF WorkerTake, Conservation
  <2> QED BY <1>9, <2>1 DEF WorkerTake
<1>10. ASSUME NEW w \in Workers, TaskReturns(w) PROVE WorkerPhases'
  BY <1>10 DEF TaskReturns
<1>11. ASSUME NEW w \in Workers, WorkerFinish(w) PROVE WorkerPhases'
  BY <1>11 DEF WorkerFinish
<1>12. ASSUME NEW w \in Workers, WorkerExit(w) PROVE WorkerPhases'
  BY <1>12 DEF WorkerExit
<1>13. ASSUME NEW c \in Clients, NEW m \in StopModes, CallStop(c, m) PROVE
     WorkerPhases'
  BY <1>13 DEF CallStop
<1>14. ASSUME NEW c \in Clients, StopRefused(c) PROVE WorkerPhases'
  BY <1>14 DEF StopRefused
<1>15. ASSUME NEW c \in Clients, StopPublish(c) PROVE WorkerPhases'
  BY <1>15 DEF StopPublish, Broadcast
<1>16. ASSUME NEW c \in Clients, Join(c) PROVE WorkerPhases'
  BY <1>16 DEF Join
<1>17. ASSUME NEW c \in Clients, StopReturn(c) PROVE WorkerPhases'
  BY <1>17 DEF StopReturn
<1>18. ASSUME NEW c \in Clients, CallWait(c) PROVE WorkerPhases'
  BY <1>18 DEF CallWait
<1>19. ASSUME NEW c \in Clients, WaitReturn(c) PROVE WorkerPhases'
  BY <1>19 DEF WaitReturn
<1>20. ASSUME NEW c \in Clients, WaitAgain(c) PROVE WorkerPhases'
  BY <1>20 DEF WaitAgain
<1>21. ASSUME NEW c \in Clients, WaitWake(c) PROVE WorkerPhases'
  BY <1>21 DEF WaitWake
<1>22. ASSUME NEW c \in Clients, CallRunning(c) PROVE WorkerPhases'
  BY <1>22 DEF CallRunning
<1>23. ASSUME NEW c \in Clients, RunningReturn(c) PROVE WorkerPhases'
  BY <1>23 DEF RunningReturn
<1>24. ASSUME NEW c \in Clients, Free(c) PROVE WorkerPhases'
  BY <1>24 DEF Free, ClientPhases
<1>25. CASE AfterFree \/ UNCHANGED vars
  <2>1. UNCHANGED <<pc, task, waiters, stop_m, queue, n_started>>
    BY <1>25 DEF AfterFree, vars
  <2> QED BY <2>1
<1> HIDE DEF IInv, TypeOK, WorkerPhases, MayLeave, Goto, Threads
<1> QED BY <1>1, <1>2, <1>3, <1>4, <1>5, <1>6, <1>7, <1>8, <1>9, <1>10, <1>11,
     <1>12, <1>13, <1>14, <1>15, <1>16, <1>17, <1>18, <1>19, <1>20, <1>21,
          <1>22, <1>23, <1>24, <1>25, StepCases

(* What a client may rely on while it creates, stops and frees the pool. *)
LEMMA ClientPhasesStep == IInv /\ [Next]_vars => ClientPhases'
<1> SUFFICES ASSUME IInv, [Next]_vars PROVE ClientPhases'
  OBVIOUS
<1> USE PoolFacts DEF IInv, TypeOK, ClientPhases, Goto, Threads
<1>1. CASE CreateWorker
  <2>1. /\ n_started + 1 \in Workers /\ Goto(n_started + 1, "w_lock")
        /\ pc[Owner] = "creating"
        /\ UNCHANGED <<arg, stop_m, joining, accepted, done>>
        /\ UNCHANGED freed
    BY <1>1 DEF CreateWorker
  <2>2. ~freed /\ \A c \in Clients : pc[c] \in {"creating", "no_pool"}
    BY <2>1
  <2>3. \A c \in Clients : pc'[c] = pc[c]
    BY <2>1
  <2> QED BY <2>1, <2>2, <2>3
<1>2. CASE CreateReturn
  BY <1>2 DEF CreateReturn
<1>3. ASSUME NEW t \in Threads, Acquire(t) PROVE ClientPhases'
  <2>1. UNCHANGED <<stop_m, joining, arg, accepted, done>> /\ UNCHANGED freed
    BY <1>3 DEF Acquire
  <2>2. pc[t] \notin {"creating", "no_pool", "exited"} /\ ~freed
    BY <1>3, AcquireCases
  <2>3. CASE pc[t] = "stop_lock" /\ Goto(t, "stop")
    BY <2>1, <2>2, <2>3
  <2>4. CASE \E l \in Critical \ {"stop"} : Goto(t, l)
    BY <2>1, <2>2, <2>4 DEF Critical
  <2> QED BY <1>3, <2>3, <2>4, AcquireCases DEF Critical
<1>4. ASSUME NEW t \in Threads, AddTask(t) PROVE ClientPhases'
  <2>1. UNCHANGED <<stop_m, joining, freed, arg, done>>
    BY <1>4 DEF AddTask
  <2>2. pc[t] = "add" /\ Goto(t, IF t \in Workers THEN "w_run" ELSE "idle")
    BY <1>4 DEF AddTask
  <2>3. ~freed
    BY <2>2
  <2> QED BY <2>1, <2>2, <2>3
<1>5. ASSUME NEW t \in Threads, NEW x \in Tasks, CallAddTask(t, x) PROVE
     ClientPhases'
  BY <1>5 DEF CallAddTask
<1>6. ASSUME NEW w \in Workers, SpuriousWakeup(w) PROVE ClientPhases'
  BY <1>6 DEF SpuriousWakeup
<1>7. ASSUME NEW w \in Workers, WorkerWait(w) PROVE ClientPhases'
  BY <1>7 DEF WorkerWait
<1>8. ASSUME NEW w \in Workers, WorkerBreak(w) PROVE ClientPhases'
  BY <1>8 DEF WorkerBreak
<1>9. ASSUME NEW w \in Workers, WorkerTake(w) PROVE ClientPhases'
  BY <1>9 DEF WorkerTake
<1>10. ASSUME NEW w \in Workers, TaskReturns(w) PROVE ClientPhases'
  BY <1>10 DEF TaskReturns
<1>11. ASSUME NEW w \in Workers, WorkerFinish(w) PROVE ClientPhases'
  <2>1. ~freed
    BY <1>11 DEF WorkerFinish
  <2> QED BY <1>11, <2>1 DEF WorkerFinish
<1>12. ASSUME NEW w \in Workers, WorkerExit(w) PROVE ClientPhases'
  BY <1>12 DEF WorkerExit
<1>13. ASSUME NEW c \in Clients, NEW m \in StopModes, CallStop(c, m) PROVE
     ClientPhases'
  BY <1>13 DEF CallStop
<1>14. ASSUME NEW c \in Clients, StopRefused(c) PROVE ClientPhases'
  BY <1>14 DEF StopRefused
<1>15. ASSUME NEW c \in Clients, StopPublish(c) PROVE ClientPhases'
  BY <1>15 DEF StopPublish, StopModes
<1>16. ASSUME NEW c \in Clients, Join(c) PROVE ClientPhases'
  BY <1>16 DEF Join
<1>17. ASSUME NEW c \in Clients, StopReturn(c) PROVE ClientPhases'
  BY <1>17 DEF StopReturn
<1>18. ASSUME NEW c \in Clients, CallWait(c) PROVE ClientPhases'
  BY <1>18 DEF CallWait
<1>19. ASSUME NEW c \in Clients, WaitReturn(c) PROVE ClientPhases'
  BY <1>19 DEF WaitReturn
<1>20. ASSUME NEW c \in Clients, WaitAgain(c) PROVE ClientPhases'
  BY <1>20 DEF WaitAgain
<1>21. ASSUME NEW c \in Clients, WaitWake(c) PROVE ClientPhases'
  BY <1>21 DEF WaitWake
<1>22. ASSUME NEW c \in Clients, CallRunning(c) PROVE ClientPhases'
  BY <1>22 DEF CallRunning
<1>23. ASSUME NEW c \in Clients, RunningReturn(c) PROVE ClientPhases'
  BY <1>23 DEF RunningReturn
<1>24. ASSUME NEW c \in Clients, Free(c) PROVE ClientPhases'
  <2>1. /\ \A w \in Workers : pc[w] = "exited"
        /\ \A d \in Clients : pc'[d] = "no_pool"
        /\ \A w \in Workers : pc'[w] = "exited"
        /\ UNCHANGED <<stop_m, accepted, done>>
    BY <1>24 DEF Free
  <2>2. stop_m = "GRACEFUL" => accepted \subseteq done
    <3>1. Busy = {}
      BY <2>1, BusyPhase DEF Busy
    <3>2. stop_m = "GRACEFUL" => queue = <<>>
      BY <2>1 DEF WorkerPhases, MayLeave
    <3>3. ~freed
      BY <1>24 DEF Free
    <3> QED BY <3>1, <3>2, <3>3 DEF Conservation, Queued
  <2> QED BY <2>1, <2>2
<1>25. CASE AfterFree \/ UNCHANGED vars
  <2>1. /\ UNCHANGED <<pc, arg, stop_m, joining, accepted, done>>
        /\ UNCHANGED freed
    BY <1>25 DEF AfterFree, vars
  <2> QED BY <2>1
<1> HIDE DEF IInv, TypeOK, ClientPhases, Goto, Threads
<1> QED BY <1>1, <1>2, <1>3, <1>4, <1>5, <1>6, <1>7, <1>8, <1>9, <1>10, <1>11,
     <1>12, <1>13, <1>14, <1>15, <1>16, <1>17, <1>18, <1>19, <1>20, <1>21,
          <1>22, <1>23, <1>24, <1>25, StepCases

(* A task on its way into add_task is nowhere else. *)
LEMMA HandoverStep == IInv /\ [Next]_vars => Handover'
<1> SUFFICES ASSUME IInv, [Next]_vars PROVE Handover'
  OBVIOUS
<1> USE PoolFacts DEF IInv, TypeOK, Handover, Adding, Goto, Threads
<1>1. CASE CreateWorker
  BY <1>1 DEF CreateWorker
<1>2. CASE CreateReturn
  BY <1>2 DEF CreateReturn
<1>3. ASSUME NEW t \in Threads, Acquire(t) PROVE Handover'
  <2>1. UNCHANGED <<arg, submitted, accepted>>
    BY <1>3 DEF Acquire
  <2>2. Adding' \subseteq Adding
    <3>1. CASE pc[t] = "add_lock" /\ Goto(t, "add")
      BY <3>1
    <3>2. CASE \E l \in Critical \ {"add"} : Goto(t, l)
      BY <3>2 DEF Critical
    <3> QED BY <1>3, <3>1, <3>2, AcquireCases DEF Critical
  <2> QED BY <2>1, <2>2
<1>4. ASSUME NEW t \in Threads, AddTask(t) PROVE Handover'
  <2>1. /\ UNCHANGED <<arg, submitted>>
        /\ pc[t] = "add" /\ Goto(t, IF t \in Workers THEN "w_run" ELSE "idle")
    BY <1>4 DEF AddTask
  <2>2. accepted' \subseteq accepted \cup {arg[t]}
    BY <1>4 DEF AddTask
  <2>3. Adding' \subseteq Adding \ {t}
    BY <2>1
  <2> QED BY <2>1, <2>2, <2>3
<1>5. ASSUME NEW t \in Threads, NEW x \in Tasks, CallAddTask(t, x) PROVE
     Handover'
  BY <1>5 DEF CallAddTask
<1>6. ASSUME NEW w \in Workers, SpuriousWakeup(w) PROVE Handover'
  BY <1>6 DEF SpuriousWakeup
<1>7. ASSUME NEW w \in Workers, WorkerWait(w) PROVE Handover'
  BY <1>7 DEF WorkerWait
<1>8. ASSUME NEW w \in Workers, WorkerBreak(w) PROVE Handover'
  BY <1>8 DEF WorkerBreak
<1>9. ASSUME NEW w \in Workers, WorkerTake(w) PROVE Handover'
  BY <1>9 DEF WorkerTake
<1>10. ASSUME NEW w \in Workers, TaskReturns(w) PROVE Handover'
  BY <1>10 DEF TaskReturns
<1>11. ASSUME NEW w \in Workers, WorkerFinish(w) PROVE Handover'
  BY <1>11 DEF WorkerFinish
<1>12. ASSUME NEW w \in Workers, WorkerExit(w) PROVE Handover'
  BY <1>12 DEF WorkerExit
<1>13. ASSUME NEW c \in Clients, NEW m \in StopModes, CallStop(c, m) PROVE
     Handover'
  BY <1>13 DEF CallStop
<1>14. ASSUME NEW c \in Clients, StopRefused(c) PROVE Handover'
  BY <1>14 DEF StopRefused
<1>15. ASSUME NEW c \in Clients, StopPublish(c) PROVE Handover'
  BY <1>15 DEF StopPublish
<1>16. ASSUME NEW c \in Clients, Join(c) PROVE Handover'
  BY <1>16 DEF Join
<1>17. ASSUME NEW c \in Clients, StopReturn(c) PROVE Handover'
  BY <1>17 DEF StopReturn
<1>18. ASSUME NEW c \in Clients, CallWait(c) PROVE Handover'
  BY <1>18 DEF CallWait
<1>19. ASSUME NEW c \in Clients, WaitReturn(c) PROVE Handover'
  BY <1>19 DEF WaitReturn
<1>20. ASSUME NEW c \in Clients, WaitAgain(c) PROVE Handover'
  BY <1>20 DEF WaitAgain
<1>21. ASSUME NEW c \in Clients, WaitWake(c) PROVE Handover'
  BY <1>21 DEF WaitWake
<1>22. ASSUME NEW c \in Clients, CallRunning(c) PROVE Handover'
  BY <1>22 DEF CallRunning
<1>23. ASSUME NEW c \in Clients, RunningReturn(c) PROVE Handover'
  BY <1>23 DEF RunningReturn
<1>24. ASSUME NEW c \in Clients, Free(c) PROVE Handover'
  BY <1>24 DEF Free
<1>25. CASE AfterFree \/ UNCHANGED vars
  BY <1>25 DEF AfterFree, vars
<1> HIDE DEF IInv, TypeOK, Handover, Adding, Goto, Threads
<1> QED BY <1>1, <1>2, <1>3, <1>4, <1>5, <1>6, <1>7, <1>8, <1>9, <1>10, <1>11,
     <1>12, <1>13, <1>14, <1>15, <1>16, <1>17, <1>18, <1>19, <1>20, <1>21,
          <1>22, <1>23, <1>24, <1>25, StepCases

(* No second stop() gets as far as joining. *)
LEMMA OneJoinerStep == IInv /\ [Next]_vars => OneJoiner'
<1> SUFFICES ASSUME IInv, [Next]_vars PROVE OneJoiner'
  OBVIOUS
<1> USE PoolFacts DEF IInv, TypeOK, OneJoiner, Goto, Threads
<1>1. CASE CreateWorker
  BY <1>1 DEF CreateWorker
<1>2. CASE CreateReturn
  BY <1>2 DEF CreateReturn
<1>3. ASSUME NEW t \in Threads, Acquire(t) PROVE OneJoiner'
  <2>1. PICK l : Goto(t, l) /\ l \notin {"join", "joined"}
    BY <1>3, AcquireCases
  <2> QED BY <2>1
<1>4. ASSUME NEW t \in Threads, AddTask(t) PROVE OneJoiner'
  BY <1>4 DEF AddTask
<1>5. ASSUME NEW t \in Threads, NEW x \in Tasks, CallAddTask(t, x) PROVE
     OneJoiner'
  BY <1>5 DEF CallAddTask
<1>6. ASSUME NEW w \in Workers, SpuriousWakeup(w) PROVE OneJoiner'
  BY <1>6 DEF SpuriousWakeup
<1>7. ASSUME NEW w \in Workers, WorkerWait(w) PROVE OneJoiner'
  BY <1>7 DEF WorkerWait
<1>8. ASSUME NEW w \in Workers, WorkerBreak(w) PROVE OneJoiner'
  BY <1>8 DEF WorkerBreak
<1>9. ASSUME NEW w \in Workers, WorkerTake(w) PROVE OneJoiner'
  BY <1>9 DEF WorkerTake
<1>10. ASSUME NEW w \in Workers, TaskReturns(w) PROVE OneJoiner'
  BY <1>10 DEF TaskReturns
<1>11. ASSUME NEW w \in Workers, WorkerFinish(w) PROVE OneJoiner'
  BY <1>11 DEF WorkerFinish
<1>12. ASSUME NEW w \in Workers, WorkerExit(w) PROVE OneJoiner'
  BY <1>12 DEF WorkerExit
<1>13. ASSUME NEW c \in Clients, NEW m \in StopModes, CallStop(c, m) PROVE
     OneJoiner'
  BY <1>13 DEF CallStop
<1>14. ASSUME NEW c \in Clients, StopRefused(c) PROVE OneJoiner'
  BY <1>14 DEF StopRefused
<1>15. ASSUME NEW c \in Clients, StopPublish(c) PROVE OneJoiner'
  BY <1>15 DEF StopPublish, ClientPhases
<1>16. ASSUME NEW c \in Clients, Join(c) PROVE OneJoiner'
  BY <1>16 DEF Join
<1>17. ASSUME NEW c \in Clients, StopReturn(c) PROVE OneJoiner'
  BY <1>17 DEF StopReturn
<1>18. ASSUME NEW c \in Clients, CallWait(c) PROVE OneJoiner'
  BY <1>18 DEF CallWait
<1>19. ASSUME NEW c \in Clients, WaitReturn(c) PROVE OneJoiner'
  BY <1>19 DEF WaitReturn
<1>20. ASSUME NEW c \in Clients, WaitAgain(c) PROVE OneJoiner'
  BY <1>20 DEF WaitAgain
<1>21. ASSUME NEW c \in Clients, WaitWake(c) PROVE OneJoiner'
  BY <1>21 DEF WaitWake
<1>22. ASSUME NEW c \in Clients, CallRunning(c) PROVE OneJoiner'
  BY <1>22 DEF CallRunning
<1>23. ASSUME NEW c \in Clients, RunningReturn(c) PROVE OneJoiner'
  BY <1>23 DEF RunningReturn
<1>24. ASSUME NEW c \in Clients, Free(c) PROVE OneJoiner'
  BY <1>24 DEF Free
<1>25. CASE AfterFree \/ UNCHANGED vars
  BY <1>25 DEF AfterFree, vars
<1> HIDE DEF IInv, TypeOK, OneJoiner, Goto, Threads
<1> QED BY <1>1, <1>2, <1>3, <1>4, <1>5, <1>6, <1>7, <1>8, <1>9, <1>10, <1>11,
     <1>12, <1>13, <1>14, <1>15, <1>16, <1>17, <1>18, <1>19, <1>20, <1>21,
          <1>22, <1>23, <1>24, <1>25, StepCases

(* n_running changes with the set of busy workers. *)
LEMMA CountsBusyStep == IInv /\ [Next]_vars => CountsBusy'
<1> SUFFICES ASSUME IInv, [Next]_vars PROVE CountsBusy'
  OBVIOUS
<1> USE DEF IInv, TypeOK, CountsBusy
<1>1. ASSUME NEW w \in Workers, WorkerTake(w) PROVE CountsBusy'
  <2>1. task[w] = None /\ Head(queue) \in Tasks
    BY <1>1, TailElems DEF WorkerTake, WorkerPhases, Conservation
  <2>2. w \notin Busy /\ Busy' = Busy \cup {w}
    BY <1>1, <2>1, PoolFacts DEF WorkerTake, Busy
  <2>3. Cardinality(Busy') = Cardinality(Busy) + 1
    BY <2>2, BusyFinite, FS_AddElement
  <2> QED BY <1>1, <2>3 DEF WorkerTake
<1>2. ASSUME NEW w \in Workers, WorkerFinish(w) PROVE CountsBusy'
  <2>1. w \in Busy /\ Busy' = Busy \ {w}
    BY <1>2 DEF WorkerFinish, WorkerPhases, Busy
  <2>2. Cardinality(Busy') = Cardinality(Busy) - 1
    BY <2>1, BusyFinite, FS_RemoveElement
  <2> QED BY <1>2, <2>2 DEF WorkerFinish
<1>3. CASE UNCHANGED <<task, n_running>>
  BY <1>3 DEF Busy
<1> HIDE DEF IInv, TypeOK, CountsBusy
<1> QED BY <1>1, <1>2, <1>3, StepCases DEF CreateWorker, CreateReturn,
     Acquire, AddTask, CallAddTask, SpuriousWakeup, WorkerWait, WorkerBreak,
          TaskReturns, WorkerExit, CallStop, StopRefused, StopPublish, Join,
               StopReturn, CallWait, WaitReturn, WaitAgain, WaitWake,
                    CallRunning, RunningReturn, Free, AfterFree, vars

(* A task changes its place, but never its number of places. *)
LEMMA ConservationStep == IInv /\ [Next]_vars => Conservation'
<1> SUFFICES ASSUME IInv, [Next]_vars PROVE Conservation'
  OBVIOUS
<1> USE DEF IInv, TypeOK
<1>1. ASSUME NEW t \in Threads, AddTask(t) PROVE Conservation'
  <2>1. UNCHANGED <<task, done>> /\ UNCHANGED freed
    BY <1>1 DEF AddTask
  <2>2. Busy' = Busy
    BY <2>1 DEF Busy
  <2>3. CASE stop_m = "DONT_STOP"
    <3>1. arg[t] \in Tasks \ accepted /\ ~freed
      BY <1>1, PoolFacts DEF AddTask, Handover, Adding, ClientPhases, Threads
    <3>2. arg[t] \notin done \cup Queued \cup {task[w] : w \in Busy}
      BY <3>1 DEF Conservation
    <3>3. queue' = Append(queue, arg[t]) /\ accepted' = accepted \cup {arg[t]}
      BY <1>1, <2>3 DEF AddTask
    <3>4. /\ Queued' = Queued \cup {arg[t]}
          /\ \A i, j \in DOMAIN queue' : queue'[i] = queue'[j] => i = j
      <4>1. /\ arg[t] \notin Elems(queue)
            /\ \A i, j \in DOMAIN queue : queue[i] = queue[j] => i = j
        BY <3>2 DEF Conservation, Queued, Elems
      <4>2. /\ Elems(Append(queue, arg[t])) = Elems(queue) \cup {arg[t]}
            /\ \A i, j \in DOMAIN Append(queue, arg[t]) :
                  Append(queue, arg[t])[i] = Append(queue, arg[t])[j] => i = j
        BY <3>1, <4>1, AppendElems
      <4> QED BY <3>3, <4>2, QueuedElems
    <3> QED BY <2>1, <2>2, <3>1, <3>2, <3>3, <3>4 DEF Conservation
  <2>4. CASE stop_m # "DONT_STOP"
    <3>1. UNCHANGED <<queue, accepted>>
      BY <1>1, <2>4 DEF AddTask
    <3> QED BY <2>1, <2>2, <3>1 DEF Conservation, Queued
  <2> QED BY <2>3, <2>4
<1>2. ASSUME NEW w \in Workers, WorkerTake(w) PROVE Conservation'
  <2>1. task[w] = None /\ pc[w] = "w_test"
    BY <1>2 DEF WorkerTake, WorkerPhases
  <2>2. /\ Head(queue) \in Tasks /\ Head(queue) \in Queued
        /\ Queued' = Queued \ {Head(queue)}
        /\ \A i, j \in DOMAIN queue' : queue'[i] = queue'[j] => i = j
    <3>1. /\ queue # <<>> /\ queue' = Tail(queue)
          /\ \A i, j \in DOMAIN queue : queue[i] = queue[j] => i = j
      BY <1>2 DEF WorkerTake, Conservation
    <3>2. /\ Head(queue) \in Tasks /\ Head(queue) \in Elems(queue)
          /\ Elems(Tail(queue)) = Elems(queue) \ {Head(queue)}
          /\ \A i, j \in DOMAIN Tail(queue) :
                Tail(queue)[i] = Tail(queue)[j] => i = j
      BY <3>1, TailElems
    <3> QED BY <3>1, <3>2, QueuedElems
  <2>3. w \notin Busy /\ Busy' = Busy \cup {w}
    BY <1>2, <2>1, <2>2, PoolFacts DEF WorkerTake, Busy
  <2>4. /\ task'[w] = Head(queue)
        /\ \A v \in Busy : task'[v] = task[v]
    BY <1>2, <2>3 DEF WorkerTake, Busy
  <2>5. Head(queue) \notin done /\ \A v \in Busy : task[v] # Head(queue)
    BY <2>2 DEF Conservation
  <2>6. UNCHANGED <<accepted, done>> /\ UNCHANGED freed
    BY <1>2 DEF WorkerTake
  <2>7. {task'[v] : v \in Busy'} = {task[v] : v \in Busy} \cup {Head(queue)}
    BY <2>3, <2>4
  <2> QED BY <2>2, <2>3, <2>4, <2>5, <2>6, <2>7 DEF Conservation
<1>3. ASSUME NEW w \in Workers, WorkerFinish(w) PROVE Conservation'
  <2>1. w \in Busy /\ Busy' = Busy \ {w}
    BY <1>3 DEF WorkerFinish, WorkerPhases, Busy
  <2>2. /\ done' = done \cup {task[w]} /\ UNCHANGED <<accepted, queue>>
        /\ UNCHANGED freed
        /\ \A v \in Busy' : task'[v] = task[v]
    BY <1>3, <2>1 DEF WorkerFinish, Busy
  <2>3. Queued' = Queued
    BY <2>2 DEF Queued
  <2>4. {task[v] : v \in Busy} = {task'[v] : v \in Busy'} \cup {task[w]}
    BY <2>1, <2>2
  <2> QED BY <2>1, <2>2, <2>3, <2>4 DEF Conservation
<1>4. ASSUME NEW c \in Clients, Free(c) PROVE Conservation'
  <2>1. freed' /\ queue' = <<>> /\ UNCHANGED <<task, done>>
    BY <1>4 DEF Free
  <2>2. Busy' = Busy
    BY <2>1 DEF Busy
  <2>3. Queued' = {} /\ DOMAIN queue' = {}
    BY <2>1 DEF Queued
  <2> QED BY <2>1, <2>2, <2>3 DEF Conservation
<1>5. CASE UNCHANGED <<queue, task, accepted, done, freed>>
  BY <1>5 DEF Conservation, Queued, Busy
<1> HIDE DEF IInv, TypeOK
<1> QED BY <1>1, <1>2, <1>3, <1>4, <1>5, StepCases DEF CreateWorker,
     CreateReturn, Acquire, CallAddTask, SpuriousWakeup, WorkerWait,
          WorkerBreak, TaskReturns, WorkerExit, CallStop, StopRefused,
               StopPublish, Join, StopReturn, CallWait, WaitReturn, WaitAgain,
                    WaitWake, CallRunning, RunningReturn, AfterFree, vars

-----------------------------------------------------------------------------
(* The theorems. *)

(* Every step preserves the invariant. *)
LEMMA IInvStep == IInv /\ [Next]_vars => IInv'
BY TypeStep, LockStep, CountsBusyStep, ConservationStep, OneJoinerStep,
   WorkerPhasesStep, HandoverStep, ClientPhasesStep DEF IInv

(* IInv is inductive. *)
THEOREM Invariance == Spec => []IInv
<1>1. Init => IInv
  BY InitIInv
<1>2. IInv /\ [Next]_vars => IInv'
  BY IInvStep
<1> QED BY <1>1, <1>2, PTL DEF Spec

(* Every variable of the pool keeps its type. *)
THEOREM TypeCorrect == Spec => []TypeOK
<1>1. IInv => TypeOK
  BY DEF IInv
<1> QED BY <1>1, Invariance, PTL

(* pool.lock is held exactly inside the critical sections, in particular by *)
(* one thread at a time.                                                    *)
THEOREM LockIsDisciplined == Spec => []LockDiscipline
<1>1. IInv => LockDiscipline
  BY DEF IInv
<1> QED BY <1>1, Invariance, PTL

(* n_running counts the tasks being run. *)
THEOREM RunningIsCounted == Spec => []CountsBusy
<1>1. IInv => CountsBusy
  BY DEF IInv
<1> QED BY <1>1, Invariance, PTL

(* No task that was accepted is lost, duplicated or run twice. *)
THEOREM TasksAreConserved == Spec => []Conservation
<1>1. IInv => Conservation
  BY DEF IInv
<1> QED BY <1>1, Invariance, PTL

(* Of any number of racing stops one joins the workers. *)
THEOREM OneStopJoins == Spec => []OneJoiner
<1>1. IInv => OneJoiner
  BY DEF IInv
<1> QED BY <1>1, Invariance, PTL

(* A stop that has joined, and a pool that has been freed, is quiet: no     *)
(* worker is left in the code that uses the pool, and a graceful stop has   *)
(* run everything.                                                          *)
THEOREM StopIsQuiet == Spec => []StoppedIsQuiet
<1>1. ASSUME IInv PROVE StoppedIsQuiet
  <2> SUFFICES ASSUME freed \/ \E c \in Clients : pc[c] = "joined"
               PROVE  /\ \A w \in Workers : pc[w] = "exited"
                      /\ waiters = {} /\ lock \notin Workers
                      /\ n_running = 0
                      /\ stop_m = "GRACEFUL" => accepted \subseteq done
    BY DEF StoppedIsQuiet
  <2>1. \A w \in Workers : pc[w] = "exited"
    BY <1>1 DEF IInv, ClientPhases
  <2>2. waiters = {}
    BY <1>1, <2>1 DEF IInv, TypeOK, WorkerPhases
  <2>3. lock \notin Workers
    BY <1>1, <2>1 DEF IInv, LockDiscipline, Critical, Threads
  <2>4. Busy = {}
    BY <1>1, <2>1, BusyPhase DEF IInv, Busy
  <2>5. n_running = 0
    BY <1>1, <2>4, FS_EmptySet DEF IInv, CountsBusy
  <2>6. ASSUME stop_m = "GRACEFUL" PROVE accepted \subseteq done
    <3>1. CASE freed
      BY <1>1, <2>6, <3>1 DEF IInv, ClientPhases
    <3>2. CASE ~freed
      <4>1. queue = <<>>
        BY <1>1, <2>1, <2>6, PoolFacts DEF IInv, WorkerPhases, MayLeave
      <4> QED BY <1>1, <2>4, <3>2, <4>1 DEF IInv, Conservation, Queued
    <3> QED BY <3>1, <3>2
  <2> QED BY <2>1, <2>2, <2>3, <2>5, <2>6
<1> QED BY <1>1, Invariance, PTL

(* wait() returns only when every task accepted so far has run to its end. *)
THEOREM WaitIsABarrier == Spec => WaitMeansDone
<1>1. ASSUME IInv, [Next]_vars, NEW c \in Clients, pc[c] = "wait", pc'[c] = "idle"
      PROVE  accepted \subseteq done
  <2>1. CASE WaitReturn(c)
    <3>1. queue = <<>> /\ Busy = {}
      BY <1>1, <2>1, BusyFinite DEF WaitReturn, Idle, IInv, CountsBusy
    <3>2. ~freed
      BY <1>1, <2>1 DEF WaitReturn, IInv, ClientPhases
    <3> QED BY <1>1, <3>1, <3>2 DEF IInv, Conservation, Queued
  <2>2. WaitReturn(c)
    <3> USE <1>1 DEF IInv, TypeOK, Goto, Threads
    <3>1. pc' # pc
      OBVIOUS
    <3>2. pc[Owner] # "creating"
      BY PoolFacts DEF ClientPhases
    <3>3. ~CreateWorker /\ ~CreateReturn
      BY <3>2 DEF CreateWorker, CreateReturn
    <3>4. ASSUME NEW t \in Threads, Acquire(t) PROVE FALSE
      BY <3>4, AcquireCases
    <3>5. ASSUME NEW t \in Threads, AddTask(t) \/ \E x \in Tasks : CallAddTask(t, x)
          PROVE  FALSE
      BY <3>5 DEF AddTask, CallAddTask
    <3>6. ASSUME NEW w \in Workers,
                 \/ SpuriousWakeup(w) \/ WorkerWait(w) \/ WorkerBreak(w)
                 \/ WorkerTake(w) \/ TaskReturns(w) \/ WorkerFinish(w)
                 \/ WorkerExit(w)
          PROVE  FALSE
      BY <3>6, PoolFacts DEF SpuriousWakeup, WorkerWait, WorkerBreak, WorkerTake,
           TaskReturns, WorkerFinish, WorkerExit
    <3>7. ASSUME NEW d \in Clients,
                 \/ \E m \in StopModes : CallStop(d, m)
                 \/ StopRefused(d) \/ StopPublish(d) \/ Join(d) \/ StopReturn(d)
                 \/ CallWait(d) \/ WaitAgain(d) \/ WaitWake(d)
                 \/ CallRunning(d) \/ RunningReturn(d) \/ Free(d)
          PROVE  FALSE
      BY <3>7 DEF CallStop, StopRefused, StopPublish, Join, StopReturn, CallWait,
           WaitAgain, WaitWake, CallRunning, RunningReturn, Free
    <3>8. ASSUME NEW d \in Clients, WaitReturn(d) PROVE d = c
      BY <3>8 DEF WaitReturn
    <3>9. ~AfterFree /\ ~UNCHANGED vars
      BY <3>1 DEF AfterFree, vars
    <3> HIDE DEF IInv, TypeOK, Goto, Threads
    <3> QED BY <3>3, <3>4, <3>5, <3>6, <3>7, <3>8, <3>9, StepCases
  <2> QED BY <2>1, <2>2
<1>2. IInv /\ [Next]_vars =>
        [\A c \in Clients :
            pc[c] = "wait" /\ pc'[c] = "idle" => accepted \subseteq done]_vars
  BY <1>1
<1> QED BY <1>2, Invariance, PTL DEF Spec, WaitMeansDone

-----------------------------------------------------------------------------
(* The pool implements PoolContract. *)

(* No more tasks are running than workers are busy. *)
LEMMA RunningFacts ==
    ASSUME IInv
    PROVE  /\ Running \in SUBSET Tasks
           /\ IsFiniteSet(Running) /\ Cardinality(Running) <= Cardinality(Busy)
<1>1. Running \in SUBSET Tasks
  BY DEF Running, Busy, IInv, TypeOK
<1>2. [w \in Busy |-> task[w]] \in Surjection(Busy, Running)
  BY DEF Surjection, Running
<1> QED BY <1>1, <1>2, BusyFinite, FS_Surjection

(* The pool starts where the contract starts. *)
LEMMA ContractInit == Init => Contract!Init
BY DEF Init, Contract!Init, Busy

(* Taking a task is Start, giving n_running back is Finish, an accepted    *)
(* add_task is Accept, publishing the mode is Stop, free() is Discard, and *)
(* everything else is invisible.                                           *)
LEMMA ContractStep ==
    ASSUME IInv, [Next]_vars
    PROVE  Contract!Next \/ UNCHANGED Contract!vars
<1>1. ASSUME NEW w \in Workers, WorkerTake(w) PROVE Contract!Start
  <2>1. /\ queue # <<>> /\ queue' = Tail(queue) /\ stop_m # "IMMEDIATE"
        /\ task' = [task EXCEPT ![w] = Head(queue)]
        /\ UNCHANGED <<done, stop_m>>
    BY <1>1 DEF WorkerTake, MayLeave
  <2>2. Head(queue) \in Tasks
    BY <2>1, TailElems DEF IInv, TypeOK, Conservation
  <2>3. w \notin Busy /\ Busy' = Busy \cup {w}
    <3>1. task[w] = None
      BY <1>1 DEF WorkerTake, IInv, WorkerPhases
    <3> QED BY <2>1, <2>2, <3>1, PoolFacts DEF IInv, TypeOK, Busy
  <2>4. Running' = Running \cup {Head(queue)}
    BY <2>1, <2>3 DEF Running, Busy, IInv, TypeOK
  <2>5. Cardinality(Running) < PoolSize
    <3>1. Busy \cup {w} \in SUBSET Workers
      BY DEF Busy
    <3>2. Cardinality(Busy) + 1 <= PoolSize
      BY <2>3, <3>1, PoolFacts, BusyFinite, FS_AddElement, FS_Subset
    <3> QED BY <3>2, RunningFacts, BusyFinite, PoolFacts, FS_CardinalityType
  <2>6. /\ Cardinality({task[v] : v \in Busy}) < PoolSize
        /\ {task[v] : v \in Busy}' = {task[v] : v \in Busy} \cup {Head(queue)}
    BY <2>4, <2>5 DEF Running
  <2>7. Contract!Cardinality({task[v] : v \in Busy}) < PoolSize
    BY <2>6 DEF Cardinality, Contract!Cardinality
  <2> QED BY <2>1, <2>6, <2>7 DEF Contract!Start
<1>2. ASSUME NEW w \in Workers, WorkerFinish(w), NEW x \in Tasks, x = task[w]
      PROVE  Contract!Finish(x)
  <2>1. w \in Busy /\ Busy' = Busy \ {w}
    BY <1>2 DEF WorkerFinish, IInv, TypeOK, WorkerPhases, Busy
  <2>2. /\ done' = done \cup {task[w]} /\ UNCHANGED <<queue, stop_m>>
        /\ \A v \in Busy' : task'[v] = task[v]
    BY <1>2, <2>1 DEF WorkerFinish, IInv, TypeOK, Busy
  <2>3. task[w] \in Running /\ Running' = Running \ {task[w]}
    BY <2>1, <2>2 DEF Running, IInv, Conservation
  <2> QED BY <1>2, <2>2, <2>3 DEF Contract!Finish, Running
<1>3. ASSUME NEW t \in Threads, AddTask(t)
      PROVE  \/ Contract!Accept(arg[t]) /\ arg[t] \in Tasks
             \/ UNCHANGED Contract!vars
  <2>1. UNCHANGED <<task, done, stop_m>>
    BY <1>3 DEF AddTask
  <2>2. Running' = Running
    BY <2>1 DEF Running, Busy
  <2>3. CASE stop_m = "DONT_STOP"
    <3>1. arg[t] \in Tasks \ accepted /\ ~freed
      BY <1>3, PoolFacts DEF AddTask, Handover, Adding, ClientPhases, Threads, IInv,
         TypeOK
    <3>2. arg[t] \notin Queued \cup Running \cup done
      BY <3>1 DEF IInv, Conservation, Running
    <3>3. queue' = Append(queue, arg[t])
      BY <1>3, <2>3 DEF AddTask
    <3> QED BY <2>1, <2>2, <2>3, <3>1, <3>2, <3>3
            DEF Contract!Accept, Contract!Queued, Running, Queued
  <2>4. CASE stop_m # "DONT_STOP"
    <3>1. UNCHANGED queue
      BY <1>3, <2>4 DEF AddTask
    <3> QED BY <2>1, <2>2, <3>1 DEF Contract!vars, Running
  <2> QED BY <2>3, <2>4
<1>4. ASSUME NEW c \in Clients, StopPublish(c)
      PROVE  \E m \in Contract!Modes \ {"DONT_STOP"} : Contract!Stop(m)
  <2>1. /\ stop_m = "DONT_STOP" /\ stop_m' = arg[c]
        /\ arg[c] \in StopModes \ {"DONT_STOP"}
        /\ UNCHANGED <<queue, task, done>>
    BY <1>4 DEF StopPublish, IInv, ClientPhases
  <2>2. Running' = Running
    BY <2>1 DEF Running, Busy
  <2>3. Contract!Stop(arg[c])
    BY <2>1, <2>2 DEF Contract!Stop, Running
  <2> QED BY <2>1, <2>3 DEF Contract!Modes, StopModes
<1>5. ASSUME NEW c \in Clients, Free(c) PROVE Contract!Discard
  <2>1. /\ pc[c] = "joined" /\ queue' = <<>> /\ UNCHANGED <<task, done, stop_m>>
    BY <1>5 DEF Free
  <2>2. /\ \A w \in Workers : pc[w] = "exited"
        /\ stop_m # "DONT_STOP"
    BY <2>1 DEF IInv, ClientPhases
  <2>3. stop_m = "GRACEFUL" => queue = <<>>
    BY <2>2, PoolFacts DEF IInv, WorkerPhases, MayLeave
  <2>4. Busy = {} /\ Busy' = Busy
    BY <2>1, <2>2, BusyPhase DEF IInv, Busy
  <2> QED BY <2>1, <2>2, <2>3, <2>4 DEF Contract!Discard
<1>6. UNCHANGED <<queue, task, done, stop_m>> => UNCHANGED Contract!vars
  BY DEF Contract!vars, Busy
<1>7. ASSUME NEW t \in Threads, Acquire(t) \/ \E x \in Tasks : CallAddTask(t, x)
      PROVE  UNCHANGED Contract!vars
  BY <1>6, <1>7 DEF Acquire, CallAddTask
<1>8. ASSUME NEW w \in Workers,
             \/ SpuriousWakeup(w) \/ WorkerWait(w) \/ WorkerBreak(w)
             \/ TaskReturns(w) \/ WorkerExit(w)
      PROVE  UNCHANGED Contract!vars
  BY <1>6, <1>8 DEF SpuriousWakeup, WorkerWait, WorkerBreak, TaskReturns, WorkerExit
<1>9. ASSUME NEW c \in Clients,
             \/ \E m \in StopModes : CallStop(c, m)
             \/ StopRefused(c) \/ Join(c) \/ StopReturn(c)
             \/ CallWait(c) \/ WaitReturn(c) \/ WaitAgain(c) \/ WaitWake(c)
             \/ CallRunning(c) \/ RunningReturn(c)
      PROVE  UNCHANGED Contract!vars
  BY <1>6, <1>9 DEF CallStop, StopRefused, Join, StopReturn, CallWait, WaitReturn,
     WaitAgain, WaitWake, CallRunning, RunningReturn
<1>10. CASE CreateWorker \/ CreateReturn \/ AfterFree \/ UNCHANGED vars
  BY <1>6, <1>10 DEF CreateWorker, CreateReturn, AfterFree, vars
<1>11. ASSUME NEW w \in Workers, WorkerTake(w) \/ WorkerFinish(w)
       PROVE  Contract!Next
  <2>1. CASE WorkerTake(w)
    BY <1>1, <2>1 DEF Contract!Next
  <2>2. CASE WorkerFinish(w)
    <3>1. task[w] \in Tasks
      BY <2>2 DEF WorkerFinish, IInv, TypeOK, WorkerPhases
    <3>2. PICK x \in Tasks : x = task[w]
      BY <3>1
    <3>3. Contract!Finish(x)
      BY <1>2, <2>2, <3>2
    <3> QED BY <3>3 DEF Contract!Next
  <2> QED BY <1>11, <2>1, <2>2
<1>12. ASSUME NEW t \in Threads, AddTask(t)
       PROVE  Contract!Next \/ UNCHANGED Contract!vars
  BY <1>3, <1>12 DEF Contract!Next
<1>13. ASSUME NEW c \in Clients, StopPublish(c) \/ Free(c) PROVE Contract!Next
  BY <1>4, <1>5, <1>13 DEF Contract!Next
<1> QED BY <1>7, <1>8, <1>9, <1>10, <1>11, <1>12, <1>13, StepCases

(* Every behaviour of the pool is one that PoolContract allows: tasks start *)
(* in the order they were accepted, at most PoolSize run at a time, none is *)
(* accepted after a stop or started after an immediate one.                 *)
THEOREM Refinement == Spec => ImplementsContract
<1>1. Init => Contract!Init
  BY ContractInit
<1>2. IInv /\ [Next]_vars => [Contract!Next]_(Contract!vars)
  BY ContractStep
<1> QED BY <1>1, <1>2, Invariance, PTL DEF Spec, ImplementsContract, Contract!Spec
=============================================================================
