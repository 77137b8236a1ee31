----------------------------- MODULE ThreadPool -----------------------------
(***************************************************************************)
(* thread_pool.h: workers that wait on a condition variable for tasks, the *)
(* clients that call enqueue, and the destructor.  FlushPipeline folds     *)
(* the waiting of the pool in one step that takes a task; this module is   *)
(* about what is folded: queue_mutex, condition and the notifications.     *)
(*                                                                         *)
(* A worker that evaluates the predicate of wait holds queue_mutex until   *)
(* it sleeps or leaves the critical section.  The critical sections of     *)
(* enqueue and of the destructor are one step each, and need the mutex.    *)
(***************************************************************************)
EXTENDS Integers, Sequences, FiniteSets

CONSTANTS
  Workers,  \* threads of the pool
  Clients,  \* threads that call enqueue
  Calls     \* calls of enqueue by each client

ASSUME PoolAssumption ==
  /\ IsFiniteSet(Workers) /\ Workers # {}
  /\ IsFiniteSet(Clients)
  /\ Calls \in Nat
  /\ "nobody" \notin Workers

VARIABLES
  tasks,      \* tasks, each the number of its enqueue
  submitted,  \* tasks enqueued so far
  stop,       \* stop
  holder,     \* the worker that holds queue_mutex
  pc,         \* where each worker is
  running,    \* the local task of each worker, 0 for none
  finished,   \* the tasks that have been run
  cpc,        \* where each client is
  calls,      \* calls each client has still to make
  dpc,        \* where the destructor is
  threw       \* an enqueue threw "enqueue on stopped ThreadPool"

queueVars  == <<tasks, submitted, stop>>
workerVars == <<holder, pc, running, finished>>
clientVars == <<cpc, calls, threw>>
vars == <<queueVars, workerVars, clientVars, dpc>>

Nobody == "nobody"

Init ==
  /\ tasks = <<>> /\ submitted = 0 /\ stop = FALSE
  /\ holder = Nobody
  /\ pc = [w \in Workers |-> "lock"]
  /\ running = [w \in Workers |-> 0]
  /\ finished = {}
  /\ cpc = [c \in Clients |-> "enqueue"]
  /\ calls = [c \in Clients |-> Calls]
  /\ dpc = "joinClients" /\ threw = FALSE

Goes(w, from, to) == pc[w] = from /\ pc' = [pc EXCEPT ![w] = to]

---------------------------------------------------------------------------
(* A worker.                                                               *)

\* The lock of queue_mutex, by the constructor of unique_lock or in wait.
Lock(w) ==
  /\ holder = Nobody /\ holder' = w
  /\ Goes(w, "lock", "test")
  /\ UNCHANGED <<queueVars, running, finished, clientVars, dpc>>

\* Mutant: wait without a predicate.
SleepRegardless(w) ==
  /\ ~stop
  /\ Goes(w, "test", "sleep")
  /\ UNCHANGED <<queueVars, holder, running, finished, clientVars, dpc>>

\* The predicate of wait is false.
TestFails(w) ==
  /\ ~stop /\ tasks = <<>>
  /\ Goes(w, "test", "sleep")
  /\ UNCHANGED <<queueVars, holder, running, finished, clientVars, dpc>>

\* wait unlocks the mutex and sleeps, in one step.
Sleep(w) ==
  /\ Goes(w, "sleep", "asleep")
  /\ holder' = Nobody
  /\ UNCHANGED <<queueVars, running, finished, clientVars, dpc>>

\* Mutant: the front of tasks is not popped.
TakeWithoutPop(w) ==
  /\ tasks # <<>>
  /\ Goes(w, "test", "run")
  /\ running' = [running EXCEPT ![w] = Head(tasks)]
  /\ holder' = Nobody
  /\ UNCHANGED <<queueVars, finished, clientVars, dpc>>

\* task = front, pop.
Take(w) ==
  /\ tasks # <<>>
  /\ Goes(w, "test", "run")
  /\ running' = [running EXCEPT ![w] = Head(tasks)]
  /\ tasks' = Tail(tasks)
  /\ holder' = Nobody
  /\ UNCHANGED <<submitted, stop, finished, clientVars, dpc>>

\* Mutant: a worker returns as soon as stop is set.
ExitAtOnce(w) ==
  /\ stop
  /\ Goes(w, "test", "exited")
  /\ holder' = Nobody
  /\ UNCHANGED <<queueVars, running, finished, clientVars, dpc>>

\* if (stop && tasks.empty()) return.
Exit(w) ==
  /\ stop /\ tasks = <<>>
  /\ Goes(w, "test", "exited")
  /\ holder' = Nobody
  /\ UNCHANGED <<queueVars, running, finished, clientVars, dpc>>

\* task() returns.
Run(w) ==
  /\ Goes(w, "run", "lock")
  /\ running' = [running EXCEPT ![w] = 0]
  /\ finished' = finished \union {running[w]}
  /\ UNCHANGED <<queueVars, holder, clientVars, dpc>>

SpuriousWakeup(w) ==
  /\ Goes(w, "asleep", "lock")
  /\ UNCHANGED <<queueVars, holder, running, finished, clientVars, dpc>>

---------------------------------------------------------------------------
(* enqueue.                                                                *)

\* Mutant: enqueue does not notify when a task is already waiting.
EnqueueQuiet(c) ==
  /\ cpc[c] = "enqueue" /\ calls[c] > 0 /\ holder = Nobody
  /\ tasks' = Append(tasks, submitted + 1) /\ submitted' = submitted + 1
  /\ cpc' = [cpc EXCEPT ![c] = IF tasks = <<>> THEN "notify" ELSE "enqueue"]
  /\ calls' = [calls EXCEPT ![c] = @ - 1]
  /\ UNCHANGED <<stop, threw, workerVars, dpc>>

\* The critical section of enqueue: throw, or emplace.
Enqueue(c) ==
  /\ cpc[c] = "enqueue" /\ calls[c] > 0 /\ holder = Nobody
  /\ calls' = [calls EXCEPT ![c] = @ - 1]
  /\ IF stop
     THEN threw' = TRUE /\ UNCHANGED <<tasks, submitted, cpc>>
     ELSE /\ tasks' = Append(tasks, submitted + 1)
          /\ submitted' = submitted + 1
          /\ cpc' = [cpc EXCEPT ![c] = "notify"]
          /\ UNCHANGED threw
  /\ UNCHANGED <<stop, workerVars, dpc>>

\* condition.notify_one, with the mutex released.
NotifyOne(c) ==
  /\ cpc[c] = "notify" /\ cpc' = [cpc EXCEPT ![c] = "enqueue"]
  /\ IF \A w \in Workers : pc[w] # "asleep" THEN UNCHANGED pc
     ELSE \E w \in Workers : Goes(w, "asleep", "lock")
  /\ UNCHANGED <<queueVars, holder, running, finished, calls, threw, dpc>>

---------------------------------------------------------------------------
(* ~ThreadPool, which main calls after it has joined the clients.          *)

DestructorGoes(from, to) == dpc = from /\ dpc' = to

\* Mutant: stop is set without the lock.
StopUnlocked ==
  /\ \A c \in Clients : calls[c] = 0 /\ cpc[c] = "enqueue"
  /\ DestructorGoes("joinClients", "notify")
  /\ stop' = TRUE
  /\ UNCHANGED <<tasks, submitted, workerVars, clientVars>>

Stop ==
  /\ \A c \in Clients : calls[c] = 0 /\ cpc[c] = "enqueue"
  /\ holder = Nobody
  /\ DestructorGoes("joinClients", "notify")
  /\ stop' = TRUE
  /\ UNCHANGED <<tasks, submitted, workerVars, clientVars>>

\* Mutant: notify_one.
NotifyAllButOne ==
  /\ DestructorGoes("notify", "join")
  /\ IF \A w \in Workers : pc[w] # "asleep" THEN UNCHANGED pc
     ELSE \E w \in Workers : Goes(w, "asleep", "lock")
  /\ UNCHANGED <<queueVars, holder, running, finished, clientVars>>

NotifyAll ==
  /\ DestructorGoes("notify", "join")
  /\ pc' = [w \in Workers |-> IF pc[w] = "asleep" THEN "lock" ELSE pc[w]]
  /\ UNCHANGED <<queueVars, holder, running, finished, clientVars>>

Join ==
  /\ \A w \in Workers : pc[w] = "exited"
  /\ DestructorGoes("join", "gone")
  /\ UNCHANGED <<queueVars, workerVars, clientVars>>

---------------------------------------------------------------------------
WorkerStep(w) ==
  \/ Lock(w) \/ TestFails(w) \/ Sleep(w) \/ Take(w) \/ Exit(w) \/ Run(w)

ClientStep(c) == Enqueue(c) \/ NotifyOne(c)

DestructorStep == Stop \/ NotifyAll \/ Join

Next ==
  \/ \E w \in Workers : WorkerStep(w) \/ SpuriousWakeup(w)
  \/ \E c \in Clients : ClientStep(c)
  \/ DestructorStep

Spec == Init /\ [][Next]_vars

\* Every thread that can run runs, every task ends, and a thread that waits
\* for queue_mutex gets it at last however often others take it.  The
\* destructor need never be called.
Fairness ==
  /\ \A w \in Workers : WF_vars(WorkerStep(w)) /\ SF_vars(Lock(w))
  /\ \A c \in Clients : SF_vars(ClientStep(c))
  /\ WF_vars(NotifyAll \/ Join)

FairSpec == Spec /\ Fairness
---------------------------------------------------------------------------
(* Safety.                                                                 *)

TypeOK ==
  /\ tasks \in Seq(Nat)
  /\ submitted \in Nat
  /\ stop \in BOOLEAN
  /\ holder \in Workers \union {Nobody}
  /\ pc \in [Workers -> {"lock", "test", "sleep", "asleep", "run", "exited"}]
  /\ running \in [Workers -> 0 .. submitted]
  /\ finished \subseteq 1 .. submitted
  /\ cpc \in [Clients -> {"enqueue", "notify"}]
  /\ calls \in [Clients -> 0 .. Calls]
  /\ dpc \in {"joinClients", "notify", "join", "gone"}
  /\ threw \in BOOLEAN

\* While a worker sleeps, every waiting task has somebody who will come for
\* it: a worker on its way to the queue or a notification about to be sent.
NoLostWakeup ==
  (\E w \in Workers : pc[w] = "asleep") =>
    Len(tasks) <= Cardinality({w \in Workers : pc[w] \in {"lock", "test"}})
                    + Cardinality({c \in Clients : cpc[c] = "notify"})

\* After notify_all no worker sleeps or is about to: none saw stop too early.
StopReachesAll ==
  dpc \in {"join", "gone"} => \A w \in Workers : pc[w] \notin {"sleep", "asleep"}

\* When the destructor returns, every task enqueued has been run, though stop
\* was set while tasks were waiting.
NothingDropped == dpc = "gone" => finished = 1 .. submitted

---------------------------------------------------------------------------
(* The inductive invariant behind the safety properties.                   *)

\* queue_mutex is held by the worker that is testing or about to sleep.
MutexHolder ==
  \A w \in Workers : pc[w] \in {"test", "sleep"} <=> holder = w

\* The worker about to sleep still sees what its test has seen: nobody can
\* enqueue or stop before it has released the mutex.
TestStillHolds ==
  \A w \in Workers : pc[w] = "sleep" => tasks = <<>> /\ ~stop

\* stop is set by the destructor, when the clients have ended.
StopIsLast ==
  /\ stop <=> dpc # "joinClients"
  /\ stop => \A c \in Clients : calls[c] = 0 /\ cpc[c] = "enqueue"

\* Tasks wait in the order of their numbers, up to the last one enqueued.
TasksInOrder ==
  /\ Len(tasks) <= submitted
  /\ \A j \in 1 .. Len(tasks) : tasks[j] = submitted - Len(tasks) + j

\* A worker has a task exactly while it runs it, and every task taken is
\* being run or finished.
TakenIsRun ==
  /\ \A w \in Workers : pc[w] = "run" <=> running[w] # 0
  /\ \A k \in 1 .. submitted - Len(tasks) :
       k \in finished \/ \E w \in Workers : running[w] = k

\* A worker leaves only when the pool is stopped and no task waits, and the
\* destructor returns only when all have left.
LeftForGood ==
  /\ \A w \in Workers : pc[w] = "exited" => stop /\ tasks = <<>>
  /\ dpc = "gone" => \A w \in Workers : pc[w] = "exited"

IInv ==
  /\ TypeOK /\ MutexHolder /\ TestStillHolds /\ StopIsLast
  /\ TasksInOrder /\ TakenIsRun /\ LeftForGood
  /\ NoLostWakeup /\ StopReachesAll /\ ~threw

---------------------------------------------------------------------------
TP == INSTANCE TaskPool
        WITH waiting <- tasks, closed <- stop,
             left <- {w \in Workers : pc[w] = "exited"}

\* The pool with its mutex and notifications implements the pool without.
ImplementsTaskPool == TP!Spec

---------------------------------------------------------------------------
(* Liveness, under FairSpec.                                               *)

\* Every task enqueued is run, without the help of spurious wake-ups or of the
\* notify_all in the destructor.
EveryTaskRuns ==
  \A k \in 1 .. Calls * Cardinality(Clients) :
    submitted >= k ~> k \in finished

\* The destructor returns, though tasks may be waiting when it is called.
PoolEnds == stop ~> dpc = "gone"
============================================================================
