-------------------------- MODULE ThreadPoolProofs --------------------------
(***************************************************************************)
(* Proofs about ThreadPool, for any number of workers, clients and calls:  *)
(* its invariant, and that it implements TaskPool.  There is one lemma per *)
(* part of the invariant, with a step for each action that can disturb it. *)
(***************************************************************************)
EXTENDS ThreadPool, SequenceTheorems, FiniteSetTheorems, TLAPS

USE PoolAssumption
    DEF vars, queueVars, workerVars, clientVars, Goes, DestructorGoes

\* No worker is taken for the absence of one.
LEMMA NobodyIsNoWorker == Nobody \notin Workers
BY PoolAssumption DEF Nobody

---------------------------------------------------------------------------
(* What Take and Enqueue do to the queue.                                  *)

\* Taking the first task: the rest keep their places, one further ahead.
LEMMA TakeFacts ==
  ASSUME TypeOK, NEW w \in Workers, Take(w)
  PROVE  /\ Len(tasks) \in Nat \ {0} /\ Head(tasks) = tasks[1]
         /\ tasks[1] \in Nat
         /\ tasks' \in Seq(Nat) /\ Len(tasks') = Len(tasks) - 1
         /\ \A j \in 1 .. Len(tasks') : tasks'[j] = tasks[j + 1]
         /\ running' = [running EXCEPT ![w] = tasks[1]]
<1>1. tasks \in Seq(Nat) /\ tasks # <<>> /\ tasks' = Tail(tasks)
  BY DEF Take, TypeOK
<1>2. Len(tasks) \in Nat \ {0}
  BY <1>1, EmptySeq
<1>3. Head(tasks) = tasks[1] /\ tasks[1] \in Nat
  BY <1>1, <1>2, LenProperties
<1> QED
  BY <1>1, <1>2, <1>3, HeadTailProperties DEF Take

\* Appending a task: the others keep their places.
LEMMA EnqueueFacts ==
  ASSUME TypeOK, NEW c \in Clients, Enqueue(c), ~stop
  PROVE  /\ Len(tasks) \in Nat /\ submitted' = submitted + 1
         /\ tasks' \in Seq(Nat) /\ Len(tasks') = Len(tasks) + 1
         /\ \A j \in 1 .. Len(tasks) : tasks'[j] = tasks[j]
         /\ tasks'[Len(tasks) + 1] = submitted + 1
<1>1. tasks \in Seq(Nat) /\ submitted + 1 \in Nat
  BY DEF TypeOK
<1>2. tasks' = Append(tasks, submitted + 1) /\ submitted' = submitted + 1
  BY DEF Enqueue
<1> QED
  BY <1>1, <1>2, AppendProperties, LenProperties

---------------------------------------------------------------------------
(* The parts of the invariant.                                             *)

\* The invariant holds at first.
LEMMA InitInv == Init => IInv
<1> SUFFICES ASSUME Init PROVE IInv
  OBVIOUS
<1>1. tasks \in Seq(Nat) /\ Len(tasks) = 0
  BY EmptySeq DEF Init
<1>2. TypeOK
  <2>1. submitted = 0 /\ running \in [Workers -> 0 .. submitted]
    BY DEF Init
  <2>2. calls \in [Clients -> 0 .. Calls]
    BY DEF Init
  <2>3. stop \in BOOLEAN /\ threw \in BOOLEAN
    BY Zenon DEF Init
  <2>4. /\ pc \in [Workers -> {"lock", "test", "sleep", "asleep", "run", "exited"}]
        /\ cpc \in [Clients -> {"enqueue", "notify"}]
        /\ holder \in Workers \union {Nobody}
        /\ dpc \in {"joinClients", "notify", "join", "gone"}
        /\ finished \subseteq 1 .. submitted
    BY DEF Init
  <2> QED
    BY <1>1, <2>1, <2>2, <2>3, <2>4 DEF TypeOK
<1>3. MutexHolder /\ TestStillHolds /\ StopIsLast
  BY NobodyIsNoWorker DEF Init, MutexHolder, TestStillHolds, StopIsLast
<1>5. TasksInOrder /\ TakenIsRun
  BY <1>1 DEF Init, TasksInOrder, TakenIsRun
<1>6. LeftForGood /\ StopReachesAll /\ ~threw
  BY DEF Init, LeftForGood, StopReachesAll
<1>4. NoLostWakeup
  BY DEF Init, NoLostWakeup
<1> QED
  BY <1>2, <1>3, <1>4, <1>5, <1>6 DEF IInv

\* Every step keeps the variables typed; a task has a number that was given.
LEMMA TypePreserved ==
  ASSUME TypeOK, TasksInOrder, TakenIsRun, Next
  PROVE  TypeOK'
<1>1. ASSUME NEW w \in Workers, Take(w) PROVE TypeOK'
  <2>2. Len(tasks) \in Nat \ {0} /\ tasks[1] \in Nat
    BY <1>1, TakeFacts
  <2>3. submitted \in Nat /\ 1 \in 1 .. Len(tasks)
    BY <2>2 DEF TypeOK
  <2>1. tasks[1] \in 0 .. submitted
    BY <2>2, <2>3 DEF TasksInOrder
  <2> QED
    BY <1>1, <2>1, TakeFacts DEF TypeOK, Take
<1>2. ASSUME NEW c \in Clients, Enqueue(c), ~stop PROVE TypeOK'
  <2>1. tasks' \in Seq(Nat) /\ submitted' = submitted + 1
    BY <1>2, EnqueueFacts
  <2>2. running' \in [Workers -> 0 .. submitted'] /\ finished' \subseteq 1 .. submitted'
    BY <1>2, <2>1 DEF TypeOK, Enqueue
  <2>3. calls' \in [Clients -> 0 .. Calls]
    BY <1>2 DEF TypeOK, Enqueue
  <2>5. cpc' \in [Clients -> {"enqueue", "notify"}]
    BY <1>2 DEF TypeOK, Enqueue
  <2>4. UNCHANGED <<stop, threw, holder, pc, dpc>>
    BY <1>2 DEF Enqueue
  <2> QED
    BY <2>1, <2>2, <2>3, <2>4, <2>5 DEF TypeOK
<1>3. ASSUME NEW c \in Clients, Enqueue(c), stop PROVE TypeOK'
  <2>1. threw' \in BOOLEAN
    BY <1>3, Zenon DEF Enqueue
  <2>2. UNCHANGED <<tasks, submitted, stop, workerVars, cpc, dpc>>
    BY <1>3 DEF Enqueue
  <2>3. calls' \in [Clients -> 0 .. Calls]
    BY <1>3 DEF TypeOK, Enqueue
  <2> QED
    BY <2>1, <2>2, <2>3 DEF TypeOK
<1>4. ASSUME NEW w \in Workers,
             Lock(w) \/ TestFails(w) \/ Sleep(w) \/ Exit(w)
               \/ SpuriousWakeup(w)
      PROVE  TypeOK'
  BY <1>4 DEF TypeOK, Lock, TestFails, Sleep, Exit, SpuriousWakeup
<1>5. ASSUME NEW w \in Workers, Run(w) PROVE TypeOK'
  <2>1. running[w] \in 1 .. submitted
    BY <1>5 DEF TypeOK, TakenIsRun, Run
  <2>4. running' \in [Workers -> 0 .. submitted]
    BY <1>5 DEF TypeOK, Run
  <2>2. finished' \subseteq 1 .. submitted
    BY <1>5, <2>1 DEF TypeOK, Run
  <2>3. pc' \in [Workers -> {"lock", "test", "sleep", "asleep", "run", "exited"}]
    BY <1>5 DEF TypeOK, Run
  <2> QED
    BY <1>5, <2>2, <2>3, <2>4 DEF TypeOK, Run
<1>6. ASSUME NEW c \in Clients, NotifyOne(c) PROVE TypeOK'
  <2>1. pc' \in [Workers -> {"lock", "test", "sleep", "asleep", "run", "exited"}]
    BY <1>6 DEF TypeOK, NotifyOne
  <2> QED
    BY <1>6, <2>1 DEF TypeOK, NotifyOne
<1>7. CASE Stop
  <2>1. stop' \in BOOLEAN
    BY <1>7, Zenon DEF Stop
  <2> QED
    BY <1>7, <2>1 DEF TypeOK, Stop
<1>8. CASE NotifyAll \/ Join
  BY <1>8 DEF TypeOK, NotifyAll, Join
<1> QED
  BY <1>1, <1>2, <1>3, <1>4, <1>5, <1>6, <1>7, <1>8
     DEF Next, WorkerStep, ClientStep, DestructorStep

\* queue_mutex has one holder at a time.
LEMMA HolderPreserved ==
  ASSUME TypeOK, MutexHolder, Next
  PROVE  MutexHolder'
<1> USE NobodyIsNoWorker DEF TypeOK, MutexHolder
<1>1. ASSUME NEW w \in Workers, Lock(w) PROVE MutexHolder'
  BY <1>1 DEF Lock
<1>2. ASSUME NEW w \in Workers, TestFails(w) PROVE MutexHolder'
  BY <1>2 DEF TestFails
<1>3. ASSUME NEW w \in Workers, Sleep(w) \/ Take(w) \/ Exit(w)
      PROVE  MutexHolder'
  BY <1>3 DEF Sleep, Take, Exit
<1>4. ASSUME NEW w \in Workers, Run(w) \/ SpuriousWakeup(w)
      PROVE  MutexHolder'
  BY <1>4 DEF Run, SpuriousWakeup
<1>5. ASSUME NEW c \in Clients, Enqueue(c) PROVE MutexHolder'
  BY <1>5 DEF Enqueue
<1>6. ASSUME NEW c \in Clients, NotifyOne(c) PROVE MutexHolder'
  BY <1>6 DEF NotifyOne
<1>7. CASE Stop \/ NotifyAll \/ Join
  BY <1>7 DEF Stop, NotifyAll, Join
<1> QED
  BY <1>1, <1>2, <1>3, <1>4, <1>5, <1>6, <1>7
     DEF Next, WorkerStep, ClientStep, DestructorStep

\* Between the test and the sleep nobody else can change what was tested.
LEMMA TestPreserved ==
  ASSUME TypeOK, MutexHolder, TestStillHolds, Next
  PROVE  TestStillHolds'
<1> USE NobodyIsNoWorker DEF TypeOK, MutexHolder, TestStillHolds
<1>1. ASSUME NEW w \in Workers, TestFails(w) PROVE TestStillHolds'
  BY <1>1 DEF TestFails
<1>2. ASSUME NEW w \in Workers, Take(w) PROVE TestStillHolds'
  BY <1>2 DEF Take
<1>3. ASSUME NEW w \in Workers,
             Lock(w) \/ Sleep(w) \/ Exit(w) \/ Run(w) \/ SpuriousWakeup(w)
      PROVE  TestStillHolds'
  BY <1>3 DEF Lock, Sleep, Exit, Run, SpuriousWakeup
<1>4. ASSUME NEW c \in Clients, Enqueue(c) PROVE TestStillHolds'
  BY <1>4 DEF Enqueue
<1>5. ASSUME NEW c \in Clients, NotifyOne(c) PROVE TestStillHolds'
  BY <1>5 DEF NotifyOne
<1>6. CASE Stop
  BY <1>6 DEF Stop
<1>7. CASE NotifyAll \/ Join
  BY <1>7 DEF NotifyAll, Join
<1> QED
  BY <1>1, <1>2, <1>3, <1>4, <1>5, <1>6, <1>7
     DEF Next, WorkerStep, ClientStep, DestructorStep

\* Once stop is set no client enqueues; so enqueue never throws.
LEMMA StopPreserved ==
  ASSUME TypeOK, StopIsLast, ~threw, Next
  PROVE  StopIsLast' /\ ~threw'
<1> USE DEF TypeOK, StopIsLast
<1>1. ASSUME NEW c \in Clients, Enqueue(c) PROVE StopIsLast' /\ ~threw'
  <2>1. ~stop
    BY <1>1 DEF Enqueue
  <2> QED
    BY <1>1, <2>1 DEF Enqueue
<1>2. ASSUME NEW c \in Clients, NotifyOne(c) PROVE StopIsLast' /\ ~threw'
  <2>1. ~stop
    BY <1>2 DEF NotifyOne
  <2> QED
    BY <1>2, <2>1 DEF NotifyOne
<1>3. CASE Stop
  BY <1>3 DEF Stop
<1>4. CASE NotifyAll \/ Join
  BY <1>4 DEF NotifyAll, Join
<1>5. ASSUME NEW w \in Workers, WorkerStep(w) \/ SpuriousWakeup(w)
      PROVE  StopIsLast' /\ ~threw'
  BY <1>5 DEF WorkerStep, Lock, TestFails, Sleep, Take, Exit, Run,
              SpuriousWakeup
<1> QED
  BY <1>1, <1>2, <1>3, <1>4, <1>5 DEF Next, ClientStep, DestructorStep

\* Which steps leave the queue and the tasks of the workers alone.
LEMMA QueueFrame ==
  ASSUME TypeOK, Next
  PROVE  \/ \E w \in Workers : Take(w) \/ Run(w)
         \/ \E c \in Clients : Enqueue(c) /\ ~stop
         \/ UNCHANGED <<tasks, submitted, running, finished>>
BY DEF TypeOK, Next, WorkerStep, ClientStep, DestructorStep, Lock, TestFails,
       Sleep, Exit, SpuriousWakeup, Enqueue, NotifyOne, Stop, NotifyAll, Join

\* The queue keeps the order of the enqueues.
LEMMA OrderPreserved ==
  ASSUME TypeOK, TasksInOrder, Next
  PROVE  TasksInOrder'
<1>1. ASSUME NEW w \in Workers, Take(w) PROVE TasksInOrder'
  BY <1>1, TakeFacts DEF TypeOK, TasksInOrder, Take
<1>2. ASSUME NEW c \in Clients, Enqueue(c), ~stop PROVE TasksInOrder'
  <2>1. Len(tasks) \in Nat /\ submitted \in Nat /\ submitted' = submitted + 1
    BY <1>2, EnqueueFacts DEF TypeOK
  <2>2. Len(tasks') = Len(tasks) + 1
    BY <1>2, EnqueueFacts
  <2>3. Len(tasks') <= submitted'
    BY <2>1, <2>2 DEF TasksInOrder
  <2>4. ASSUME NEW j \in 1 .. Len(tasks')
        PROVE  tasks'[j] = submitted' - Len(tasks') + j
    <3>1. CASE j = Len(tasks) + 1
      <4>1. tasks'[j] = submitted + 1
        BY <1>2, <3>1, EnqueueFacts
      <4> QED
        BY <4>1, <3>1, <2>1, <2>2
    <3>2. CASE j # Len(tasks) + 1
      <4>1. j \in 1 .. Len(tasks)
        BY <2>1, <2>2, <3>2
      <4>2. tasks'[j] = tasks[j]
        BY <1>2, <4>1, EnqueueFacts
      <4>3. tasks[j] = submitted - Len(tasks) + j
        BY <4>1 DEF TasksInOrder
      <4> QED
        BY <4>1, <4>2, <4>3, <2>1, <2>2
    <3> QED
      BY <3>1, <3>2
  <2> QED
    BY <2>3, <2>4 DEF TasksInOrder
<1>3. CASE UNCHANGED <<tasks, submitted>>
  BY <1>3 DEF TasksInOrder
<1>4. ASSUME NEW w \in Workers, Run(w) PROVE UNCHANGED <<tasks, submitted>>
  BY <1>4 DEF Run
<1> QED
  BY <1>1, <1>2, <1>3, <1>4, QueueFrame

\* No task is lost between the queue and the worker that runs it.
LEMMA TakenPreserved ==
  ASSUME TypeOK, TasksInOrder, TakenIsRun, TypeOK', Next
  PROVE  TakenIsRun'
<1>1. ASSUME NEW w \in Workers, Take(w) PROVE TakenIsRun'
  <2> DEFINE n == submitted - Len(tasks)
  <2>1. Len(tasks) \in Nat \ {0} /\ Len(tasks') = Len(tasks) - 1
    BY <1>1, TakeFacts
  <2>2. tasks[1] = n + 1 /\ n \in Nat
    BY <2>1 DEF TypeOK, TasksInOrder
  <2>3. /\ running' = [running EXCEPT ![w] = n + 1]
        /\ pc' = [pc EXCEPT ![w] = "run"] /\ pc[w] = "test"
        /\ finished' = finished /\ submitted' = submitted
    BY <1>1, <2>2, TakeFacts DEF Take
  <2>4. running \in [Workers -> 0 .. submitted] /\ w \in Workers
        /\ pc \in [Workers -> {"lock", "test", "sleep", "asleep", "run", "exited"}]
    BY <1>1 DEF TypeOK
  <2>5. \A u \in Workers : pc'[u] = "run" <=> running'[u] # 0
    BY <2>2, <2>3, <2>4 DEF TakenIsRun
  <2>6. running[w] = 0
    BY <2>3 DEF TakenIsRun
  <2>7. ASSUME NEW k \in 1 .. submitted' - Len(tasks')
        PROVE  k \in finished' \/ \E u \in Workers : running'[u] = k
    <3>1. CASE k = n + 1
      BY <3>1, <2>3, <2>4
    <3>2. CASE k # n + 1
      <4>1. k \in 1 .. n
        <5>1. submitted' - Len(tasks') = n + 1
          BY <2>1, <2>2, <2>3 DEF TypeOK
        <5> QED
          BY <5>1, <2>2, <3>2
      <4>2. k \in finished \/ \E u \in Workers : running[u] = k
        BY <4>1 DEF TakenIsRun
      <4> QED
        BY <4>1, <4>2, <2>3, <2>4, <2>6
    <3> QED
      BY <3>1, <3>2
  <2> QED
    BY <2>5, <2>7 DEF TakenIsRun
<1>2. ASSUME NEW c \in Clients, Enqueue(c), ~stop PROVE TakenIsRun'
  <2>1. UNCHANGED <<pc, running, finished>>
    BY <1>2 DEF Enqueue
  <2>3. /\ Len(tasks) \in Nat /\ submitted' = submitted + 1
        /\ Len(tasks') = Len(tasks) + 1
    BY <1>2, EnqueueFacts
  <2>4. submitted \in Nat
    BY DEF TypeOK
  <2>2. submitted' - Len(tasks') = submitted - Len(tasks)
    BY <2>3, <2>4
  <2> QED
    BY <2>1, <2>2 DEF TakenIsRun
<1>3. ASSUME NEW w \in Workers, Run(w) PROVE TakenIsRun'
  <2>1. /\ running' = [running EXCEPT ![w] = 0]
        /\ pc' = [pc EXCEPT ![w] = "lock"]
        /\ finished' = finished \union {running[w]}
        /\ UNCHANGED <<tasks, submitted>>
    BY <1>3 DEF Run
  <2>2. /\ running \in [Workers -> 0 .. submitted]
        /\ pc \in [Workers -> {"lock", "test", "sleep", "asleep", "run", "exited"}]
    BY DEF TypeOK
  <2>3. \A u \in Workers : pc'[u] = "run" <=> running'[u] # 0
    BY <2>1, <2>2 DEF TakenIsRun
  <2>4. ASSUME NEW k \in 1 .. submitted - Len(tasks)
        PROVE  k \in finished' \/ \E u \in Workers : running'[u] = k
    <3>1. k \in finished \/ \E u \in Workers : running[u] = k
      BY DEF TakenIsRun
    <3> QED
      BY <2>1, <2>2, <3>1
  <2> QED
    BY <2>1, <2>3, <2>4 DEF TakenIsRun
<1>4. ASSUME UNCHANGED <<tasks, submitted, running, finished>>,
             \A u \in Workers : pc'[u] = "run" <=> pc[u] = "run"
      PROVE  TakenIsRun'
  BY <1>4 DEF TakenIsRun
<1>5. ASSUME NEW w \in Workers,
             Lock(w) \/ TestFails(w) \/ Sleep(w) \/ Exit(w) \/ SpuriousWakeup(w)
      PROVE  TakenIsRun'
  <2>1. UNCHANGED <<tasks, submitted, running, finished>>
    BY <1>5 DEF Lock, TestFails, Sleep, Exit, SpuriousWakeup
  <2>2. \A u \in Workers : pc'[u] = "run" <=> pc[u] = "run"
    BY <1>5 DEF TypeOK, Lock, TestFails, Sleep, Exit, SpuriousWakeup
  <2> QED
    BY <2>1, <2>2, <1>4
<1>6. ASSUME NEW c \in Clients, NotifyOne(c) \/ (Enqueue(c) /\ stop)
      PROVE  TakenIsRun'
  <2>1. UNCHANGED <<tasks, submitted, running, finished>>
    BY <1>6 DEF NotifyOne, Enqueue
  <2>2. \A u \in Workers : pc'[u] = "run" <=> pc[u] = "run"
    BY <1>6 DEF TypeOK, NotifyOne, Enqueue
  <2> QED
    BY <2>1, <2>2, <1>4
<1>7. CASE DestructorStep
  <2>1. UNCHANGED <<tasks, submitted, running, finished>>
    BY <1>7 DEF DestructorStep, Stop, NotifyAll, Join
  <2>2. \A u \in Workers : pc'[u] = "run" <=> pc[u] = "run"
    BY <1>7 DEF TypeOK, DestructorStep, Stop, NotifyAll, Join
  <2> QED
    BY <2>1, <2>2, <1>4
<1> QED
  BY <1>1, <1>2, <1>3, <1>5, <1>6, <1>7 DEF Next, WorkerStep, ClientStep

\* No worker leaves while a task waits, and the last to end is the destructor.
LEMMA LeftPreserved ==
  ASSUME TypeOK, StopIsLast, LeftForGood, Next
  PROVE  LeftForGood'
<1> USE DEF TypeOK, LeftForGood
<1>1. ASSUME NEW w \in Workers, Exit(w) PROVE LeftForGood'
  BY <1>1 DEF Exit, StopIsLast
<1>2. ASSUME NEW w \in Workers, Take(w) PROVE LeftForGood'
  BY <1>2 DEF Take
<1>3. ASSUME NEW w \in Workers,
             Lock(w) \/ TestFails(w) \/ Sleep(w) \/ Run(w) \/ SpuriousWakeup(w)
      PROVE  LeftForGood'
  BY <1>3 DEF Lock, TestFails, Sleep, Run, SpuriousWakeup
<1>4. ASSUME NEW c \in Clients, Enqueue(c) PROVE LeftForGood'
  BY <1>4 DEF Enqueue, StopIsLast
<1>5. ASSUME NEW c \in Clients, NotifyOne(c) PROVE LeftForGood'
  BY <1>5 DEF NotifyOne
<1>6. CASE Stop
  BY <1>6 DEF Stop
<1>7. CASE NotifyAll
  BY <1>7 DEF NotifyAll
<1>8. CASE Join
  BY <1>8 DEF Join
<1> QED
  BY <1>1, <1>2, <1>3, <1>4, <1>5, <1>6, <1>7, <1>8
     DEF Next, WorkerStep, ClientStep, DestructorStep

\* A worker cannot fall asleep after the notify_all of the destructor: its
\* test sees stop, and one that has tested before has kept the mutex.
LEMMA StopReachesAllPreserved ==
  ASSUME TypeOK, StopIsLast, TestStillHolds, StopReachesAll, Next
  PROVE  StopReachesAll'
<1> USE DEF TypeOK, StopReachesAll
<1>1. ASSUME NEW w \in Workers, TestFails(w) PROVE StopReachesAll'
  BY <1>1 DEF TestFails, StopIsLast
<1>2. ASSUME NEW w \in Workers,
             Lock(w) \/ Sleep(w) \/ Take(w) \/ Exit(w) \/ Run(w) \/ SpuriousWakeup(w)
      PROVE  StopReachesAll'
  BY <1>2 DEF Lock, Sleep, Take, Exit, Run, SpuriousWakeup
<1>3. ASSUME NEW c \in Clients, Enqueue(c) PROVE StopReachesAll'
  BY <1>3 DEF Enqueue
<1>4. ASSUME NEW c \in Clients, NotifyOne(c) PROVE StopReachesAll'
  BY <1>4 DEF NotifyOne
<1>5. CASE Stop
  BY <1>5 DEF Stop
<1>6. CASE NotifyAll
  BY <1>6 DEF NotifyAll, StopIsLast, TestStillHolds
<1>7. CASE Join
  BY <1>7 DEF Join
<1> QED
  BY <1>1, <1>2, <1>3, <1>4, <1>5, <1>6, <1>7
     DEF Next, WorkerStep, ClientStep, DestructorStep

---------------------------------------------------------------------------
(* No lost wake-up: how many come for the tasks that wait.                 *)

\* The workers on their way to the queue.
Coming == {w \in Workers : pc[w] \in {"lock", "test"}}

\* The clients that have yet to notify.
Notifiers == {c \in Clients : cpc[c] = "notify"}

\* NoLostWakeup in these terms.
LEMMA NoLostWakeupIs ==
  NoLostWakeup <=>
    ((\E w \in Workers : pc[w] = "asleep") =>
       Len(tasks) <= Cardinality(Coming) + Cardinality(Notifiers))
BY DEF NoLostWakeup, Coming, Notifiers

\* Both can be counted.
LEMMA Countable ==
  /\ IsFiniteSet(Coming) /\ Cardinality(Coming) \in Nat
  /\ IsFiniteSet(Notifiers) /\ Cardinality(Notifiers) \in Nat
<1>1. Coming \subseteq Workers /\ Notifiers \subseteq Clients
  BY DEF Coming, Notifiers
<1> QED
  BY <1>1, FS_Subset, FS_CardinalityType, PoolAssumption

\* The same of the state after a step.
LEMMA CountableNext ==
  /\ IsFiniteSet(Coming') /\ Cardinality(Coming') \in Nat
  /\ IsFiniteSet(Notifiers') /\ Cardinality(Notifiers') \in Nat
<1>1. Coming' \subseteq Workers /\ Notifiers' \subseteq Clients
  BY DEF Coming, Notifiers
<1> QED
  BY <1>1, FS_Subset, FS_CardinalityType, PoolAssumption

\* A task enqueued adds a notification, a notification becomes a worker that
\* comes, and a worker stops coming only with a task or when none waits.
LEMMA NoLostWakeupPreserved ==
  ASSUME TypeOK, TestStillHolds, NoLostWakeup, Next
  PROVE  NoLostWakeup'
<1> DEFINE Asleep == \E w \in Workers : pc[w] = "asleep"
<1> DEFINE Covered == Len(tasks) <= Cardinality(Coming) + Cardinality(Notifiers)
<1>0. (Asleep => Covered) /\ (NoLostWakeup' <=> (Asleep' => Covered'))
  BY NoLostWakeupIs DEF NoLostWakeup, Coming, Notifiers
<1> USE DEF TypeOK
<1>1. ASSUME tasks' = <<>> PROVE NoLostWakeup'
  <2>1. Len(tasks') = 0
    BY <1>1, EmptySeq
  <2> QED
    BY <2>1, <1>0, CountableNext
<1>2. ASSUME Asleep' => Asleep, Coming' = Coming, Notifiers' = Notifiers,
             tasks' = tasks
      PROVE  NoLostWakeup'
  BY <1>2, <1>0
<1>3. ASSUME NEW w \in Workers, Lock(w) PROVE NoLostWakeup'
  BY <1>3, <1>2 DEF Lock, Coming, Notifiers
<1>4. ASSUME NEW w \in Workers, TestFails(w) \/ Sleep(w) \/ Exit(w)
      PROVE  NoLostWakeup'
  BY <1>4, <1>1 DEF TestFails, Sleep, Exit, TestStillHolds
<1>5. ASSUME NEW w \in Workers, Take(w) PROVE NoLostWakeup'
  <2>1. w \in Coming /\ Coming' = Coming \ {w} /\ Notifiers' = Notifiers
    BY <1>5 DEF Take, Coming, Notifiers
  <2>2. Cardinality(Coming') = Cardinality(Coming) - 1
    BY <2>1, Countable, FS_RemoveElement
  <2>3. Asleep' => Asleep
    BY <1>5 DEF Take
  <2>4. Len(tasks') = Len(tasks) - 1 /\ Len(tasks) \in Nat
    BY <1>5, TakeFacts
  <2>5. Covered => Covered'
    BY <2>1, <2>2, <2>4, Countable
  <2> QED
    BY <2>3, <2>5, <1>0
<1>6. ASSUME NEW w \in Workers, Run(w) \/ SpuriousWakeup(w)
      PROVE  NoLostWakeup'
  <2>1. w \notin Coming /\ Coming' = Coming \union {w} /\ Notifiers' = Notifiers
    BY <1>6 DEF Run, SpuriousWakeup, Coming, Notifiers
  <2>2. Cardinality(Coming') = Cardinality(Coming) + 1
    BY <2>1, Countable, FS_AddElement
  <2>3. (Asleep' => Asleep) /\ tasks' = tasks
    BY <1>6 DEF Run, SpuriousWakeup
  <2>4. Len(tasks) \in Nat
    BY LenProperties
  <2>5. Covered => Covered'
    BY <2>1, <2>2, <2>3, <2>4, Countable
  <2> QED
    BY <2>3, <2>5, <1>0
<1>7. ASSUME NEW c \in Clients, Enqueue(c), ~stop PROVE NoLostWakeup'
  <2>1. c \notin Notifiers /\ Notifiers' = Notifiers \union {c} /\ Coming' = Coming
    BY <1>7 DEF Enqueue, Coming, Notifiers
  <2>2. Cardinality(Notifiers') = Cardinality(Notifiers) + 1
    BY <2>1, Countable, FS_AddElement
  <2>3. Asleep' => Asleep
    BY <1>7 DEF Enqueue
  <2>4. Len(tasks') = Len(tasks) + 1 /\ Len(tasks) \in Nat
    BY <1>7, EnqueueFacts
  <2>5. Covered => Covered'
    BY <2>1, <2>2, <2>4, Countable
  <2> QED
    BY <2>3, <2>5, <1>0
<1>8. ASSUME NEW c \in Clients, Enqueue(c), stop PROVE NoLostWakeup'
  BY <1>8, <1>2 DEF Enqueue, Coming, Notifiers
<1>9. ASSUME NEW c \in Clients, NotifyOne(c) PROVE NoLostWakeup'
  <2>1. c \in Notifiers /\ Notifiers' = Notifiers \ {c} /\ tasks' = tasks
    BY <1>9 DEF NotifyOne, Notifiers
  <2>2. Cardinality(Notifiers') = Cardinality(Notifiers) - 1
    BY <2>1, Countable, FS_RemoveElement
  <2>3. CASE ~Asleep
    <3>1. ~Asleep'
      BY <1>9, <2>3 DEF NotifyOne
    <3> QED
      BY <3>1, <1>0
  <2>4. ASSUME NEW w \in Workers, Goes(w, "asleep", "lock") PROVE NoLostWakeup'
    <3>1. w \notin Coming /\ Coming' = Coming \union {w}
      BY <2>4 DEF Coming
    <3>2. Cardinality(Coming') = Cardinality(Coming) + 1
      BY <3>1, Countable, FS_AddElement
    <3>3. Asleep
      BY <2>4
    <3>4. Len(tasks) \in Nat
      BY LenProperties
    <3>5. Covered => Covered'
      BY <2>1, <2>2, <3>2, <3>4, Countable
    <3> QED
      BY <3>3, <3>5, <1>0
  <2> QED
    BY <1>9, <2>3, <2>4 DEF NotifyOne
<1>10. CASE Stop \/ Join
  BY <1>10, <1>2 DEF Stop, Join, Coming, Notifiers
<1>11. CASE NotifyAll
  <2>1. ~Asleep'
    BY <1>11 DEF NotifyAll
  <2> QED
    BY <2>1, <1>0
<1> QED
  BY <1>3, <1>4, <1>5, <1>6, <1>7, <1>8, <1>9, <1>10, <1>11
     DEF Next, WorkerStep, ClientStep, DestructorStep

---------------------------------------------------------------------------
(* The invariant, and what follows from it.                                *)

\* The invariant is inductive.
LEMMA InvStep == IInv /\ [Next]_vars => IInv'
<1> SUFFICES ASSUME IInv, [Next]_vars PROVE IInv'
  OBVIOUS
<1>1. CASE Next
  <2>1. TypeOK'
    BY <1>1, TypePreserved DEF IInv
  <2>2. MutexHolder' /\ TestStillHolds'
    BY <1>1, HolderPreserved, TestPreserved DEF IInv
  <2>3. StopIsLast' /\ ~threw'
    BY <1>1, StopPreserved DEF IInv
  <2>4. TasksInOrder'
    BY <1>1, OrderPreserved DEF IInv
  <2>5. TakenIsRun'
    BY <1>1, <2>1, TakenPreserved DEF IInv
  <2>6. LeftForGood' /\ StopReachesAll'
    BY <1>1, LeftPreserved, StopReachesAllPreserved DEF IInv
  <2>7. NoLostWakeup'
    BY <1>1, NoLostWakeupPreserved DEF IInv
  <2> QED
    BY <2>1, <2>2, <2>3, <2>4, <2>5, <2>6, <2>7 DEF IInv
<1>2. CASE UNCHANGED vars
  BY <1>2 DEF IInv, TypeOK, MutexHolder, TestStillHolds, StopIsLast,
              TasksInOrder, TakenIsRun, LeftForGood, NoLostWakeup, StopReachesAll
<1> QED
  BY <1>1, <1>2

\* The invariant holds whatever the threads do.
THEOREM PoolInvariance == Spec => []IInv
BY InitInv, InvStep, PTL DEF Spec

\* The variables of the pool keep their types.
THEOREM PoolTypeCorrect == Spec => []TypeOK
<1>1. IInv => TypeOK
  BY DEF IInv
<1> QED
  BY <1>1, PoolInvariance, PTL

\* No task waits while workers sleep that nobody will wake.
THEOREM WakeupsNeverLost == Spec => []NoLostWakeup
<1>1. IInv => NoLostWakeup
  BY DEF IInv
<1> QED
  BY <1>1, PoolInvariance, PTL

\* No worker sleeps after the notify_all of the destructor.
THEOREM DestructorWakesAll == Spec => []StopReachesAll
<1>1. IInv => StopReachesAll
  BY DEF IInv
<1> QED
  BY <1>1, PoolInvariance, PTL

\* When the destructor returns all tasks have been run.
THEOREM AllTasksAreRun == Spec => []NothingDropped
<1>1. ASSUME IInv PROVE NothingDropped
  <2>1. ASSUME dpc = "gone" PROVE finished = 1 .. submitted
    <3>1. \A w \in Workers : pc[w] = "exited"
      BY <1>1, <2>1 DEF IInv, LeftForGood
    <3>2. tasks = <<>>
      BY <1>1, <3>1, PoolAssumption DEF IInv, LeftForGood
    <3>3. Len(tasks) = 0 /\ submitted \in Nat /\ finished \subseteq 1 .. submitted
      BY <1>1, <3>2, EmptySeq DEF IInv, TypeOK
    <3>4. \A w \in Workers : running[w] = 0
      BY <1>1, <3>1 DEF IInv, TakenIsRun
    <3>5. 1 .. submitted \subseteq finished
      BY <1>1, <3>3, <3>4 DEF IInv, TakenIsRun
    <3> QED
      BY <3>3, <3>5
  <2> QED
    BY <2>1 DEF NothingDropped
<1> QED
  BY <1>1, PoolInvariance, PTL

---------------------------------------------------------------------------
(* The pool implements TaskPool.                                           *)

\* At first nobody has left and no task waits.
LEMMA InitRefines == Init => TP!Init
BY DEF Init, TP!Init

\* A step that moves no task, sets no stop and lets nobody leave.
LEMMA Stutters ==
  ASSUME UNCHANGED <<tasks, submitted, running, stop>>,
         \A u \in Workers : pc'[u] = "exited" <=> pc[u] = "exited"
  PROVE  UNCHANGED TP!vars
BY DEF TP!vars

\* Every step of the pool is a step of TaskPool or changes nothing it sees.
LEMMA StepRefines == IInv /\ [Next]_vars => [TP!Next]_TP!vars
<1> SUFFICES ASSUME IInv, [Next]_vars PROVE [TP!Next]_TP!vars
  OBVIOUS
<1>0. TypeOK /\ TakenIsRun
  BY DEF IInv
<1> USE <1>0 DEF TypeOK
<1>1. ASSUME NEW w \in Workers, Take(w) PROVE TP!Start(w)
  BY <1>1 DEF Take, TP!Start, TakenIsRun
<1>2. ASSUME NEW w \in Workers, Run(w) PROVE TP!Finish(w)
  BY <1>2 DEF Run, TP!Finish, TakenIsRun
<1>3. ASSUME NEW w \in Workers, Exit(w) PROVE TP!Leave(w)
  <2>1. running[w] = 0
    BY <1>3 DEF Exit, TakenIsRun
  <2>2. {u \in Workers : pc'[u] = "exited"}
          = {u \in Workers : pc[u] = "exited"} \union {w}
    BY <1>3 DEF Exit
  <2>3. stop /\ tasks = <<>> /\ UNCHANGED <<submitted, tasks, running, stop>>
    BY <1>3, Zenon DEF Exit
  <2> QED
    BY <2>1, <2>2, <2>3, Zenon DEF TP!Leave
<1>4. ASSUME NEW c \in Clients, Enqueue(c), ~stop PROVE TP!Submit
  BY <1>4 DEF Enqueue, TP!Submit
<1>5. ASSUME Stop PROVE TP!Close
  BY <1>5 DEF Stop, TP!Close
<1>6. ASSUME NEW w \in Workers,
             Lock(w) \/ TestFails(w) \/ Sleep(w) \/ SpuriousWakeup(w)
      PROVE  UNCHANGED TP!vars
  BY <1>6, Stutters DEF Lock, TestFails, Sleep, SpuriousWakeup
<1>7. ASSUME NEW c \in Clients, NotifyOne(c) \/ (Enqueue(c) /\ stop)
      PROVE  UNCHANGED TP!vars
  BY <1>7, Stutters DEF NotifyOne, Enqueue
<1>8. ASSUME NotifyAll \/ Join PROVE UNCHANGED TP!vars
  BY <1>8, Stutters DEF NotifyAll, Join
<1>9. ASSUME UNCHANGED vars PROVE UNCHANGED TP!vars
  BY <1>9, Stutters
<1> QED
  BY <1>1, <1>2, <1>3, <1>4, <1>5, <1>6, <1>7, <1>8, <1>9
     DEF Next, WorkerStep, ClientStep, DestructorStep, TP!Next

\* The pool with its mutex and notifications implements the pool without.
THEOREM PoolRefines == Spec => ImplementsTaskPool
BY InitRefines, StepRefines, PoolInvariance, PTL DEF Spec, ImplementsTaskPool, TP!Spec
=============================================================================
