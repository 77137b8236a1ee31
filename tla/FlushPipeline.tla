--------------------------- MODULE FlushPipeline ---------------------------
(***************************************************************************)
(* The DRAM write path of the benchmark (motivation1_main.cc, test_type 1):*)
(* one thread runs write_to_dram and fills Memory_SkipLists; a full list   *)
(* is pushed on queue_ (SkiplistWriteNVM::Flush) and CallThread tasks, run *)
(* by the workers of a ThreadPool, copy it to the list in NVM              *)
(* (FlushNVM::Run).  The main thread joins the writer, then destroys the   *)
(* pool, the DRAM side and the NVM side, in that order.                    *)
(*                                                                         *)
(* One action is one access to shared state, or one critical section of    *)
(* q_mutex_.  The unlocked reads of queue_, block_skiplist_num_ and        *)
(* is_running_ are actions of their own, since every other thread may move *)
(* between such a read and the step that relies on it.                     *)
(*                                                                         *)
(* A Memory_SkipList is an identifier g; listKeys[g] is its set of keys.   *)
(* A key is the number i of the operation that wrote it (write_to_dram     *)
(* puts i in every key, so keys are distinct).  The process aborts at the  *)
(* first failed assertion; the model also ends at the first use of a freed *)
(* list or a throwing enqueue.  fault records which one happened.          *)
(***************************************************************************)
EXTENDS Integers, Sequences

CONSTANTS
  Workers,         \* threads of the pool: ThreadPool(2)
  OpsNum,          \* ops_num: keys written by write_to_dram
  KeyBytes,        \* key.size(), the same for every key
  LogSize,         \* one_log_size: bytes after which a list is flushed
  SkiplistMaxNum   \* skiplist_max_num

ASSUME PipelineAssumption ==
  /\ Workers # {}
  /\ OpsNum \in Nat
  /\ KeyBytes \in Nat \ {0}
  /\ LogSize \in Nat
  /\ SkiplistMaxNum \in Nat \ {0}

VARIABLES
  wpc,        \* where the writer thread is
  ops,        \* keys inserted so far
  final,      \* the writer is in the Flush after the loop
  listKeys,   \* keys of every list ever created
  skiplist,   \* skiplist_: the list being filled, 0 for nullptr
  curSize,    \* cur_mem_skiplist_size_
  queue,      \* queue_
  block,      \* block_skiplist_num_
  mut,        \* holder of mut
  isRunning,  \* is_running_
  tasks,      \* CallThread tasks enqueued and not yet taken
  stop,       \* ThreadPool::stop
  pc,         \* where each worker is
  flush,      \* CallThread's local flush.skiplist_, 0 for nullptr
  todo,       \* keys that Run has still to visit
  freed,      \* lists that were deleted
  copied,     \* keys given to the NVM list
  nvmAlive,   \* skiplist_nvm was not deleted
  mpc,        \* where the main thread is
  fault       \* what ended the process early

writerVars == <<wpc, ops, final, curSize>>
listVars   == <<listKeys, skiplist>>
queueVars  == <<queue, block>>
poolVars   == <<tasks, stop>>
workerVars == <<pc, flush, todo>>
mainVars   == <<mpc, nvmAlive>>
vars == <<writerVars, listVars, queueVars, mut, isRunning, poolVars,
          workerVars, freed, copied, mainVars, fault>>

WriterPCs == {"insert", "push", "check", "lockMut", "pred", "block",
              "blocked", "testRunning", "enqueue", "realloc", "done"}
WorkerPCs == {"idle", "start", "first", "loop", "pop", "size", "notify",
              "run", "flushKeys", "finish", "exited"}
Faults == {"none", "assert_skiplist", "assert_start", "use_after_free",
           "enqueue_on_stopped"}

Init ==
  /\ wpc = "insert" /\ ops = 0 /\ final = FALSE /\ curSize = 0
  /\ listKeys = <<{}>> /\ skiplist = 1
  /\ queue = <<>> /\ block = 0
  /\ mut = "free" /\ isRunning = FALSE
  /\ tasks = 0 /\ stop = FALSE
  /\ pc = [w \in Workers |-> "idle"]
  /\ flush = [w \in Workers |-> 0]
  /\ todo = [w \in Workers |-> {}]
  /\ freed = {} /\ copied = {} /\ nvmAlive = TRUE
  /\ mpc = "join" /\ fault = "none"

---------------------------------------------------------------------------
(* The writer thread: write_to_dram, Insert, Flush and Realloc.            *)

WriterGoes(from, to) == wpc = from /\ wpc' = to

\* SkiplistWriteNVM::Insert, as called from the loop of write_to_dram.
Insert ==
  /\ ops < OpsNum
  /\ LET size == curSize + KeyBytes
     IN /\ WriterGoes("insert", IF size >= LogSize THEN "push" ELSE "insert")
        /\ curSize' = size
  /\ ops' = ops + 1
  /\ listKeys' = [listKeys EXCEPT ![skiplist] = @ \union {ops + 1}]
  /\ UNCHANGED <<final, skiplist, queueVars, mut, isRunning, poolVars,
                 workerVars, freed, copied, mainVars, fault>>

\* Mutant: write_to_dram without the Flush after its loop.
FinalFlushForgotten ==
  /\ ops = OpsNum
  /\ WriterGoes("insert", "done")
  /\ UNCHANGED <<ops, final, curSize, listVars, queueVars, mut, isRunning,
                 poolVars, workerVars, freed, copied, mainVars, fault>>

\* The Flush that write_to_dram calls after its loop.
FinalFlush ==
  /\ ops = OpsNum
  /\ WriterGoes("insert", "push")
  /\ final' = TRUE
  /\ UNCHANGED <<ops, curSize, listVars, queueVars, mut, isRunning, poolVars,
                 workerVars, freed, copied, mainVars, fault>>

\* Mutant: Flush leaves skiplist_ on the list it has pushed.
PushQueueKeepsList ==
  /\ WriterGoes("push", "check")
  /\ queue' = Append(queue, skiplist)
  /\ block' = block + 1
  /\ UNCHANGED <<ops, final, curSize, listVars, mut, isRunning, poolVars,
                 workerVars, freed, copied, mainVars, fault>>

\* The critical section of Flush.
PushQueue ==
  /\ WriterGoes("push", "check")
  /\ queue' = Append(queue, skiplist)
  /\ skiplist' = 0
  /\ block' = block + 1
  /\ UNCHANGED <<ops, final, curSize, listKeys, mut, isRunning, poolVars,
                 workerVars, freed, copied, mainVars, fault>>

\* Mutant: the limit is off by one.
CheckBlockOffByOne ==
  /\ WriterGoes("check", IF block > SkiplistMaxNum + 1
                         THEN "lockMut" ELSE "testRunning")
  /\ UNCHANGED <<ops, final, curSize, listVars, queueVars, mut, isRunning,
                 poolVars, workerVars, freed, copied, mainVars, fault>>

\* if (block_skiplist_num_ > skiplist_max_num_), read after the unlock.
CheckBlock ==
  /\ WriterGoes("check",
                IF block > SkiplistMaxNum THEN "lockMut" ELSE "testRunning")
  /\ UNCHANGED <<ops, final, curSize, listVars, queueVars, mut, isRunning,
                 poolVars, workerVars, freed, copied, mainVars, fault>>

\* unique_lock lk(mut); also the lock that wait() takes again when woken.
LockMut ==
  /\ mut = "free"
  /\ WriterGoes("lockMut", "pred")
  /\ mut' = "writer"
  /\ UNCHANGED <<ops, final, curSize, listVars, queueVars, isRunning,
                 poolVars, workerVars, freed, copied, mainVars, fault>>

\* The predicate of wait(): queue_ is read without q_mutex_.
EvalPredicate ==
  /\ \/ /\ Len(queue) <= SkiplistMaxNum
        /\ WriterGoes("pred", "realloc")
        /\ mut' = "free"
     \/ /\ Len(queue) > SkiplistMaxNum
        /\ WriterGoes("pred", "block")
        /\ UNCHANGED mut
  /\ UNCHANGED <<ops, final, curSize, listVars, queueVars, isRunning,
                 poolVars, workerVars, freed, copied, mainVars, fault>>

\* wait() releases mut and sleeps, in one step.
BlockOnCond ==
  /\ WriterGoes("block", "blocked")
  /\ mut' = "free"
  /\ UNCHANGED <<ops, final, curSize, listVars, queueVars, isRunning,
                 poolVars, workerVars, freed, copied, mainVars, fault>>

\* A condition variable may wake its waiter for no reason.
SpuriousWakeup ==
  /\ WriterGoes("blocked", "lockMut")
  /\ UNCHANGED <<ops, final, curSize, listVars, queueVars, mut, isRunning,
                 poolVars, workerVars, freed, copied, mainVars, fault>>

\* if (!is_running_.load()).
TestRunning ==
  /\ WriterGoes("testRunning", IF isRunning THEN "realloc" ELSE "enqueue")
  /\ UNCHANGED <<ops, final, curSize, listVars, queueVars, mut, isRunning,
                 poolVars, workerVars, freed, copied, mainVars, fault>>

\* tpool->enqueue(CallThread); enqueue throws when the pool is stopped.
Enqueue ==
  /\ WriterGoes("enqueue", "realloc")
  /\ IF stop THEN fault' = "enqueue_on_stopped" /\ UNCHANGED tasks
             ELSE tasks' = tasks + 1 /\ UNCHANGED fault
  /\ UNCHANGED <<ops, final, curSize, listVars, queueVars, mut, isRunning,
                 stop, workerVars, freed, copied, mainVars>>

Realloc ==
  /\ WriterGoes("realloc", IF final THEN "done" ELSE "insert")
  /\ curSize' = 0
  /\ listKeys' = Append(listKeys, {})
  /\ skiplist' = Len(listKeys) + 1
  /\ UNCHANGED <<ops, final, queueVars, mut, isRunning, poolVars, workerVars,
                 freed, copied, mainVars, fault>>

---------------------------------------------------------------------------
(* A worker of the pool: its loop, CallThread and FlushNVM::Run.           *)

WorkerGoes(w, from, to) == pc[w] = from /\ pc' = [pc EXCEPT ![w] = to]

TakeTask(w) ==
  /\ tasks > 0
  /\ WorkerGoes(w, "idle", "start")
  /\ tasks' = tasks - 1
  /\ UNCHANGED <<writerVars, listVars, queueVars, mut, isRunning, stop, flush,
                 todo, freed, copied, mainVars, fault>>

\* Mutant: ~ThreadPool wakes one worker only.
WorkerExitAlone(w) ==
  /\ stop /\ tasks = 0
  /\ \A v \in Workers : pc[v] # "exited"
  /\ WorkerGoes(w, "idle", "exited")
  /\ UNCHANGED <<writerVars, listVars, queueVars, mut, isRunning, poolVars,
                 flush, todo, freed, copied, mainVars, fault>>

\* A worker leaves its loop only when stopped and out of tasks.
WorkerExit(w) ==
  /\ stop /\ tasks = 0
  /\ WorkerGoes(w, "idle", "exited")
  /\ UNCHANGED <<writerVars, listVars, queueVars, mut, isRunning, poolVars,
                 flush, todo, freed, copied, mainVars, fault>>

\* FlushNVM flush; is_running_.store(true).
StartCallThread(w) ==
  /\ WorkerGoes(w, "start", "first")
  /\ flush' = [flush EXCEPT ![w] = 0]
  /\ isRunning' = TRUE
  /\ UNCHANGED <<writerVars, listVars, queueVars, mut, poolVars, todo, freed,
                 copied, mainVars, fault>>

\* "error: queue_ is empty!": the task returns and leaves is_running_ true.
FirstCheck(w) ==
  /\ WorkerGoes(w, "first", IF queue = <<>> THEN "idle" ELSE "loop")
  /\ UNCHANGED <<writerVars, listVars, queueVars, mut, isRunning, poolVars,
                 flush, todo, freed, copied, mainVars, fault>>

\* while (!queue_.empty()), read without q_mutex_.
LoopCheck(w) ==
  /\ WorkerGoes(w, "loop", IF queue = <<>> THEN "finish" ELSE "pop")
  /\ UNCHANGED <<writerVars, listVars, queueVars, mut, isRunning, poolVars,
                 flush, todo, freed, copied, mainVars, fault>>

\* Mutant: the counter is decremented even if the queue was found empty.
PopQueueCountsAlways(w) ==
  /\ WorkerGoes(w, "pop", "size")
  /\ IF queue = <<>>
     THEN UNCHANGED <<queue, flush>>
     ELSE /\ flush' = [flush EXCEPT ![w] = Head(queue)]
          /\ queue' = Tail(queue)
  /\ block' = block - 1
  /\ UNCHANGED <<writerVars, listVars, mut, isRunning, poolVars, todo, freed,
                 copied, mainVars, fault>>

\* Mutant: the front of the queue is copied and not popped.
PopQueueOnlyFront(w) ==
  /\ WorkerGoes(w, "pop", "size")
  /\ IF queue = <<>>
     THEN UNCHANGED flush
     ELSE flush' = [flush EXCEPT ![w] = Head(queue)]
  /\ UNCHANGED <<writerVars, listVars, queueVars, mut, isRunning, poolVars,
                 todo, freed, copied, mainVars, fault>>

\* The critical section of CallThread; flush keeps its value when another
\* worker emptied the queue first.
PopQueue(w) ==
  /\ WorkerGoes(w, "pop", "size")
  /\ IF queue = <<>>
     THEN UNCHANGED <<queueVars, flush>>
     ELSE /\ flush' = [flush EXCEPT ![w] = Head(queue)]
          /\ queue' = Tail(queue)
          /\ block' = block - 1
  /\ UNCHANGED <<writerVars, listVars, mut, isRunning, poolVars, todo, freed,
                 copied, mainVars, fault>>

\* Mutant: the comparison that decides to notify the writer is reversed.
CheckSizeReversed(w) ==
  /\ WorkerGoes(w, "size",
                IF Len(queue) > SkiplistMaxNum THEN "notify" ELSE "run")
  /\ UNCHANGED <<writerVars, listVars, queueVars, mut, isRunning, poolVars,
                 flush, todo, freed, copied, mainVars, fault>>

\* if (queue_.size() <= skiplist_max_num_), read after the unlock.
CheckSize(w) ==
  /\ WorkerGoes(w, "size",
                IF Len(queue) <= SkiplistMaxNum THEN "notify" ELSE "run")
  /\ UNCHANGED <<writerVars, listVars, queueVars, mut, isRunning, poolVars,
                 flush, todo, freed, copied, mainVars, fault>>

\* lock_guard lk(mut); queue_cond.notify_one().
NotifyOne(w) ==
  /\ mut = "free"
  /\ WorkerGoes(w, "notify", "run")
  /\ wpc' = IF wpc = "blocked" THEN "lockMut" ELSE wpc
  /\ UNCHANGED <<ops, final, curSize, listVars, queueVars, mut, isRunning,
                 poolVars, flush, todo, freed, copied, mainVars, fault>>

\* The entry of FlushNVM::Run and its assertions.
RunStart(w) ==
  /\ WorkerGoes(w, "run", "flushKeys")
  /\ \/ /\ flush[w] = 0
        /\ fault' = "assert_skiplist" /\ UNCHANGED todo
     \/ /\ flush[w] # 0 /\ flush[w] \in freed
        /\ fault' = "use_after_free" /\ UNCHANGED todo
     \/ /\ flush[w] # 0 /\ flush[w] \notin freed /\ listKeys[flush[w]] = {}
        /\ fault' = "assert_start" /\ UNCHANGED todo
     \/ /\ flush[w] # 0 /\ flush[w] \notin freed /\ listKeys[flush[w]] # {}
        /\ todo' = [todo EXCEPT ![w] = listKeys[flush[w]]]
        /\ UNCHANGED fault
  /\ UNCHANGED <<writerVars, listVars, queueVars, mut, isRunning, poolVars,
                 flush, freed, copied, mainVars>>

\* One turn of Run's loop: a key is given to the NVM list.  Keys come in key
\* order, whose first part is random: any order of the operation numbers is
\* possible.  Two workers may be here at once; what their Inserts, without a
\* lock, then do to the list is in PersistentSkipList, not in copied.
FlushKey(w) ==
  /\ pc[w] = "flushKeys"
  /\ \E k \in todo[w] :
       /\ copied' = copied \union {k}
       /\ todo' = [todo EXCEPT ![w] = @ \ {k}]
  /\ UNCHANGED <<writerVars, listVars, queueVars, mut, isRunning, poolVars,
                 pc, flush, freed, mainVars, fault>>

\* Mutant: Run's loop stops before the last node.
DeleteListEarly(w) ==
  /\ \E k \in 1 .. OpsNum : todo[w] \subseteq {k}
  /\ WorkerGoes(w, "flushKeys", "loop")
  /\ freed' = freed \union {flush[w]}
  /\ UNCHANGED <<writerVars, listVars, queueVars, mut, isRunning, poolVars,
                 flush, todo, copied, mainVars, fault>>

\* Mutant: Run does not delete the list.
DeleteListForgotten(w) ==
  /\ todo[w] = {}
  /\ WorkerGoes(w, "flushKeys", "loop")
  /\ UNCHANGED <<writerVars, listVars, queueVars, mut, isRunning, poolVars,
                 flush, todo, freed, copied, mainVars, fault>>

\* Mutant: CallThread flushes one list (if) and not all that wait (while).
DeleteListOnce(w) ==
  /\ todo[w] = {}
  /\ WorkerGoes(w, "flushKeys", "finish")
  /\ freed' = freed \union {flush[w]}
  /\ UNCHANGED <<writerVars, listVars, queueVars, mut, isRunning, poolVars,
                 flush, todo, copied, mainVars, fault>>

\* delete skiplist_ at the end of Run.
DeleteList(w) ==
  /\ todo[w] = {}
  /\ WorkerGoes(w, "flushKeys", "loop")
  /\ freed' = freed \union {flush[w]}
  /\ UNCHANGED <<writerVars, listVars, queueVars, mut, isRunning, poolVars,
                 flush, todo, copied, mainVars, fault>>

\* is_running_.store(false).
FinishCallThread(w) ==
  /\ WorkerGoes(w, "finish", "idle")
  /\ isRunning' = FALSE
  /\ UNCHANGED <<writerVars, listVars, queueVars, mut, poolVars, flush, todo,
                 freed, copied, mainVars, fault>>

---------------------------------------------------------------------------
(* The main thread after it started the writer.                            *)

MainGoes(from, to) == mpc = from /\ mpc' = to

\* t.join(), then ~ThreadPool sets stop and wakes the workers.
StopPool ==
  /\ wpc = "done"
  /\ MainGoes("join", "joinPool")
  /\ stop' = TRUE
  /\ UNCHANGED <<writerVars, listVars, queueVars, mut, isRunning, tasks,
                 workerVars, freed, copied, nvmAlive, fault>>

\* Mutant: ~ThreadPool does not join its workers.
JoinPoolAtOnce ==
  /\ MainGoes("joinPool", "deleteDram")
  /\ UNCHANGED <<writerVars, listVars, queueVars, mut, isRunning, poolVars,
                 workerVars, freed, copied, nvmAlive, fault>>

JoinPool ==
  /\ \A w \in Workers : pc[w] = "exited"
  /\ MainGoes("joinPool", "deleteDram")
  /\ UNCHANGED <<writerVars, listVars, queueVars, mut, isRunning, poolVars,
                 workerVars, freed, copied, nvmAlive, fault>>

\* delete skiplist_dram: the list that Realloc made last goes with it.
DeleteDram ==
  /\ MainGoes("deleteDram", "deleteNvm")
  /\ freed' = freed \union ({skiplist} \ {0})
  /\ skiplist' = 0
  /\ UNCHANGED <<writerVars, listKeys, queueVars, mut, isRunning, poolVars,
                 workerVars, copied, nvmAlive, fault>>

DeleteNvm ==
  /\ MainGoes("deleteNvm", "exit")
  /\ nvmAlive' = FALSE
  /\ UNCHANGED <<writerVars, listVars, queueVars, mut, isRunning, poolVars,
                 workerVars, freed, copied, fault>>

---------------------------------------------------------------------------
WriterStep ==
  /\ fault = "none"
  /\ \/ Insert \/ FinalFlush \/ PushQueue \/ CheckBlock \/ LockMut
     \/ EvalPredicate \/ BlockOnCond \/ TestRunning \/ Enqueue \/ Realloc

WorkerStep(w) ==
  /\ fault = "none"
  /\ \/ TakeTask(w) \/ WorkerExit(w) \/ StartCallThread(w) \/ FirstCheck(w)
     \/ LoopCheck(w) \/ PopQueue(w) \/ CheckSize(w) \/ NotifyOne(w)
     \/ RunStart(w) \/ FlushKey(w) \/ DeleteList(w) \/ FinishCallThread(w)

MainStep ==
  /\ fault = "none"
  /\ StopPool \/ JoinPool \/ DeleteDram \/ DeleteNvm

Wakeup == fault = "none" /\ SpuriousWakeup

Next ==
  \/ WriterStep
  \/ Wakeup
  \/ \E w \in Workers : WorkerStep(w)
  \/ MainStep

Spec == Init /\ [][Next]_vars

(* The scheduler runs every thread that can run.  A thread that waits for  *)
(* mut gets it if mut is free again and again (strong fairness), even if   *)
(* the writer keeps taking it after spurious wakeups; no wakeup is ever    *)
(* required to be spurious.                                                *)
Fairness ==
  /\ WF_vars(WriterStep)
  /\ WF_vars(MainStep)
  /\ \A w \in Workers :
       /\ WF_vars(WorkerStep(w))
       /\ SF_vars(fault = "none" /\ NotifyOne(w))

FairSpec == Spec /\ Fairness
---------------------------------------------------------------------------
(* Safety.                                                                 *)

Lists == 1 .. Len(listKeys)

\* Worker w took a list from the queue, flush[w], and did not delete it yet.
HasList(w) == flush[w] # 0 /\ flush[w] \notin freed

\* The shape of every variable of the write path.
TypeOK ==
  /\ wpc \in WriterPCs
  /\ ops \in 0 .. OpsNum
  /\ final \in BOOLEAN
  /\ curSize \in Nat
  /\ listKeys \in Seq(SUBSET (1 .. OpsNum))
  /\ skiplist \in Nat
  /\ queue \in Seq(Nat)
  /\ block \in Int
  /\ mut \in {"free", "writer"}
  /\ isRunning \in BOOLEAN
  /\ tasks \in Nat
  /\ stop \in BOOLEAN
  /\ pc \in [Workers -> WorkerPCs]
  /\ flush \in [Workers -> Nat]
  /\ todo \in [Workers -> SUBSET (1 .. OpsNum)]
  /\ freed \in SUBSET Nat
  /\ copied \in SUBSET (1 .. OpsNum)
  /\ nvmAlive \in BOOLEAN
  /\ mpc \in {"join", "joinPool", "deleteDram", "deleteNvm", "exit"}
  /\ fault \in Faults

\* block_skiplist_num_, the counter that decides whether Flush blocks, counts
\* the lists on queue_ whatever the workers do (it is unsigned in the code and
\* must not go below zero when two workers race for the last list).
BlockIsQueueLength == block = Len(queue)

\* "allow maximum number skiplist not dealt by background thread": Flush does
\* not return to Insert while more than skiplist_max_num lists are queued.
BackPressure == wpc = "insert" => Len(queue) <= SkiplistMaxNum

\* A list is the writer's, or on the queue once, or with one worker: two
\* threads never work on the same Memory_SkipList, although its pointer is
\* copied from SkiplistWriteNVM to the queue and from there to a worker.
OneOwner ==
  /\ \A i \in 1 .. Len(queue) : queue[i] # skiplist /\ queue[i] \notin freed
  /\ \A i, j \in 1 .. Len(queue) : queue[i] = queue[j] => i = j
  /\ \A w \in Workers :
       HasList(w) => /\ flush[w] # skiplist
                     /\ \A i \in 1 .. Len(queue) : queue[i] # flush[w]
                     /\ \A v \in Workers : flush[v] = flush[w] => v = w

\* No list is forgotten: one that is neither being filled nor queued nor
\* deleted is with a worker that still has to delete it.
NoListLost ==
  \A g \in Lists :
    \/ g = skiplist
    \/ \E i \in 1 .. Len(queue) : queue[i] = g
    \/ g \in freed
    \/ \E w \in Workers : HasList(w) /\ flush[w] = g

\* Deleting a list, by Run or by ~SkiplistWriteNVM at the end of main, never
\* destroys a key that was not given to the NVM list.
FreedOnlyWhenFlushed == \A g \in freed : listKeys[g] \subseteq copied

\* main deletes skiplist_nvm only when no CallThread is left that could use
\* it.
NvmOutlivesFlushers == ~nvmAlive => \A w \in Workers : pc[w] = "exited"

---------------------------------------------------------------------------
(* The write path implements WriteBehind.                                  *)

\* Keys that left SkiplistWriteNVM and were not given to the NVM list: those of
\* the queued lists, and those that a worker holds and has not visited.
HeldKeys(w) ==
  IF pc[w] = "flushKeys" THEN todo[w]
  ELSE IF HasList(w) THEN listKeys[flush[w]] ELSE {}

PendingKeys ==
  (UNION {listKeys[queue[i]] : i \in 1 .. Len(queue)})
    \union (UNION {HeldKeys(w) : w \in Workers})

DramKeys == IF skiplist = 0 THEN {} ELSE listKeys[skiplist]

WB == INSTANCE WriteBehind
        WITH written <- ops, dram <- DramKeys, pending <- PendingKeys

\* Every step of the threads is a step of WriteBehind or changes nothing in
\* it: keys are handed over by whole lists, and no key is given to the NVM list
\* twice or before its list was handed over, in any interleaving.  A list that
\* no CallThread takes is no step, so a key may be pending for ever.
ImplementsWriteBehind == WB!Spec

\* Every key written is in DRAM, or on the way, queued or with a worker, or was
\* given to the NVM list, and in only one of these.
EveryKeyInOnePlace == WB!EveryKeyInOnePlace

---------------------------------------------------------------------------
(* The inductive invariant behind the safety properties.                   *)

\* Every list pointer is nullptr or points to a list that was created.
ListRefs ==
  /\ skiplist \in {0} \union Lists
  /\ \A i \in 1 .. Len(queue) : queue[i] \in Lists
  /\ \A w \in Workers : flush[w] \in {0} \union Lists
  /\ freed \subseteq Lists

\* The writer has a list to fill except inside Flush, before Realloc, and
\* after main deleted it; it is always the newest one.
WriterList ==
  /\ skiplist = 0 <=>
       \/ wpc \notin {"insert", "push", "done"}
       \/ mpc \in {"deleteNvm", "exit"}
  /\ skiplist # 0 => skiplist = Len(listKeys) /\ skiplist \notin freed

\* A worker that holds a list is between the pop and the delete.
HolderIsBusy ==
  \A w \in Workers :
    HasList(w) => pc[w] \in {"size", "notify", "run", "flushKeys"}

\* A worker inside Run has copied exactly the keys of its list that it has
\* visited; without a list it has none to visit, and Run has failed.
RunProgress ==
  \A w \in Workers :
    IF pc[w] = "flushKeys" /\ HasList(w)
    THEN /\ todo[w] \subseteq listKeys[flush[w]]
         /\ todo[w] \intersect copied = {}
         /\ listKeys[flush[w]] \ todo[w] \subseteq copied
    ELSE todo[w] = {} /\ (pc[w] = "flushKeys" => fault # "none")

\* Every key written is in one list.
KeysInLists ==
  /\ \A g \in Lists : listKeys[g] \subseteq 1 .. ops
  /\ \A k \in 1 .. ops : \E g \in Lists : k \in listKeys[g]
  /\ \A g, h \in Lists : g # h => listKeys[g] \intersect listKeys[h] = {}

\* Keys are copied only from a list that a worker has been running.
CopiedByRun ==
  \A k \in copied : \E g \in Lists :
    /\ k \in listKeys[g]
    /\ \/ g \in freed
       \/ \E w \in Workers :
            /\ HasList(w) /\ flush[w] = g
            /\ pc[w] = "flushKeys" /\ k \notin todo[w]

\* Shutdown goes in order, and starts with an empty last list.
Shutdown ==
  /\ stop <=> mpc # "join"
  /\ stop => wpc = "done"
  /\ wpc = "done" => ops = OpsNum
  /\ final => ops = OpsNum
  /\ wpc = "done" /\ skiplist # 0 => listKeys[skiplist] = {}
  /\ mpc \notin {"join", "joinPool"} => \A w \in Workers : pc[w] = "exited"
  /\ nvmAlive <=> mpc # "exit"
  /\ fault # "enqueue_on_stopped"

\* Once Flush has decided not to wait, or has been woken, the queue is within
\* its limit, and only the writer can fill it again.
QueueBounded ==
  wpc \in {"insert", "push", "testRunning", "enqueue", "realloc", "done"} =>
    Len(queue) <= SkiplistMaxNum

IInv ==
  /\ TypeOK
  /\ BlockIsQueueLength
  /\ ListRefs
  /\ WriterList
  /\ OneOwner
  /\ NoListLost
  /\ HolderIsBusy
  /\ RunProgress
  /\ FreedOnlyWhenFlushed
  /\ KeysInLists
  /\ CopiedByRun
  /\ Shutdown
  /\ QueueBounded

---------------------------------------------------------------------------
(* Liveness, under FairSpec.                                               *)

\* A CallThread that will still look at queue_ before it returns.
Serving ==
  \/ tasks > 0
  \/ \E w \in Workers : pc[w] \notin {"idle", "finish", "exited"}

Ended == fault # "none"

\* While a CallThread is still serving, a writer that sleeps on queue_cond is
\* woken: notify_one is never missed.
BlockedWriterResumes ==
  (wpc = "blocked" /\ Serving) ~> (wpc = "realloc" \/ Ended)

\* While a CallThread is still serving, every queued list is copied and deleted
\* in the end.
QueuedListServed ==
  \A g \in 1 .. OpsNum + 1 :
    (Serving /\ \E i \in 1 .. Len(queue) : queue[i] = g)
      ~> (g \in freed \/ Ended)

\* Once the writer is done the process exits: ~ThreadPool joins every worker.
WriterDoneThenExit == wpc = "done" ~> (mpc = "exit" \/ Ended)

---------------------------------------------------------------------------
(* Statements of the repository that the code does not meet.               *)

\* motivation1_main.cc:92, "write DRAM data to NVM": when the process has
\* shut down, every key was given to the NVM list.
ExitMeansFlushed == mpc = "exit" => copied = 1 .. OpsNum

\* flush_nvm.cc:30, assert(skiplist_ != nullptr).
SkiplistNotNull == fault # "assert_skiplist"

\* flush_nvm.cc:39, assert(start != nullptr): a flushed list is not empty.
FlushedListNotEmpty == fault # "assert_start"

\* log_batch_wrapper.cc:112, "unlock anyone thread(actually only one) waiting
\* for queue_cond": the waiting writer goes on.
WaiterUnlocked == wpc = "blocked" ~> (wpc # "blocked" \/ Ended)
============================================================================
