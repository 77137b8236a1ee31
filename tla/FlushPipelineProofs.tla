------------------------ MODULE FlushPipelineProofs ------------------------
(***************************************************************************)
(* Proofs about FlushPipeline, for any number of workers, keys and lists.  *)
(* IInv is inductive; each safety property is one of its parts or follows  *)
(* from several of them.  There is one lemma per part of IInv, with one    *)
(* step per action that can disturb that part; a frame lemma says which    *)
(* actions those are.                                                      *)
(***************************************************************************)
EXTENDS FlushPipeline, SequenceTheorems, TLAPS

USE PipelineAssumption
    DEF vars, writerVars, listVars, queueVars, poolVars, workerVars, mainVars,
        WriterPCs, WorkerPCs, Faults, WriterGoes, WorkerGoes, MainGoes

---------------------------------------------------------------------------
(* What the actions do to the sequences.                                   *)

\* The head and the tail of a queue of lists (queue_.front, queue_.pop).
LEMMA PopFacts ==
  ASSUME NEW s \in Seq(Nat), s # <<>>
  PROVE  /\ Head(s) \in Nat /\ Head(s) = s[1] /\ Len(s) \in Nat \ {0}
         /\ Tail(s) \in Seq(Nat) /\ Len(Tail(s)) = Len(s) - 1
         /\ \A i \in 1 .. Len(Tail(s)) : Tail(s)[i] = s[i + 1]
BY HeadTailProperties, LenProperties, EmptySeq

\* Appending a list to the queue (queue_.push).
LEMMA PushFacts ==
  ASSUME NEW s \in Seq(Nat), NEW g \in Nat
  PROVE  /\ Append(s, g) \in Seq(Nat)
         /\ Len(Append(s, g)) = Len(s) + 1
         /\ \A i \in 1 .. Len(s) : Append(s, g)[i] = s[i]
         /\ Append(s, g)[Len(s) + 1] = g
BY AppendProperties, LenProperties

\* What CallThread takes from a queue that is not empty.
LEMMA PopQueueFacts ==
  ASSUME TypeOK, NEW w \in Workers, PopQueue(w), queue # <<>>
  PROVE  /\ Len(queue) \in Nat \ {0} /\ queue[1] \in Nat
         /\ flush' = [flush EXCEPT ![w] = queue[1]]
         /\ queue' \in Seq(Nat) /\ Len(queue') = Len(queue) - 1
         /\ \A i \in 1 .. Len(queue') : queue'[i] = queue[i + 1]
         /\ block' = block - 1
BY PopFacts DEF PopQueue, TypeOK

\* Insert adds the new key to the list being filled, and to no other.
LEMMA InsertFacts ==
  ASSUME TypeOK, ListRefs, WriterList, Shutdown, Insert
  PROVE  /\ skiplist \in Lists /\ Lists' = Lists
         /\ ops' = ops + 1 /\ ops + 1 \in 1 .. OpsNum
         /\ listKeys' \in Seq(SUBSET (1 .. OpsNum))
         /\ listKeys'[skiplist] = listKeys[skiplist] \union {ops + 1}
         /\ \A g \in Lists \ {skiplist} : listKeys'[g] = listKeys[g]
<1>1. skiplist \in Lists
  BY DEF Insert, Shutdown, WriterList, ListRefs
<1>2. ops' = ops + 1 /\ ops + 1 \in 1 .. OpsNum
  BY DEF TypeOK, Insert
<1>3. listKeys[skiplist] \union {ops + 1} \in SUBSET (1 .. OpsNum)
  BY <1>1, <1>2 DEF TypeOK, Lists
<1> QED
  BY <1>1, <1>2, <1>3, ExceptSeq DEF Insert, TypeOK, Lists

\* Realloc adds one empty list, and changes no other.
LEMMA ReallocFacts ==
  ASSUME TypeOK, Realloc
  PROVE  /\ skiplist' = Len(listKeys) + 1 /\ skiplist' \notin Lists
         /\ skiplist' \in Nat \ {0}
         /\ Lists' = Lists \union {skiplist'}
         /\ listKeys' \in Seq(SUBSET (1 .. OpsNum))
         /\ Len(listKeys') = skiplist'
         /\ listKeys'[skiplist'] = {}
         /\ \A g \in Lists : listKeys'[g] = listKeys[g]
<1>1. Len(listKeys) \in Nat
  BY LenProperties DEF TypeOK
<1>2. {} \in SUBSET (1 .. OpsNum)
  OBVIOUS
<1> QED
  BY <1>1, <1>2, AppendProperties DEF Realloc, TypeOK, Lists

---------------------------------------------------------------------------
(* Which actions change what.                                              *)

LEMMA ListFrame ==
  ASSUME Next
  PROVE  Insert \/ Realloc \/ UNCHANGED <<ops, listKeys>>
BY DEF Next, WriterStep, WorkerStep, MainStep, Wakeup,
       FinalFlush, PushQueue, CheckBlock, LockMut, EvalPredicate, BlockOnCond,
       SpuriousWakeup, TestRunning, Enqueue, TakeTask, WorkerExit,
       StartCallThread, FirstCheck, LoopCheck, PopQueue, CheckSize, NotifyOne,
       RunStart, FlushKey, DeleteList, FinishCallThread, StopPool, JoinPool,
       DeleteDram, DeleteNvm

LEMMA QueueFrame ==
  ASSUME Next
  PROVE  \/ PushQueue
         \/ \E w \in Workers : PopQueue(w)
         \/ UNCHANGED <<queue, block>>
BY DEF Next, WriterStep, WorkerStep, MainStep, Wakeup,
       Insert, FinalFlush, CheckBlock, LockMut, EvalPredicate, BlockOnCond,
       SpuriousWakeup, TestRunning, Enqueue, Realloc, TakeTask, WorkerExit,
       StartCallThread, FirstCheck, LoopCheck, CheckSize, NotifyOne,
       RunStart, FlushKey, DeleteList, FinishCallThread, StopPool, JoinPool,
       DeleteDram, DeleteNvm

\* The actions that move a pointer to a list.
LEMMA PointerFrame ==
  ASSUME Next
  PROVE  \/ PushQueue \/ Realloc \/ DeleteDram
         \/ \E w \in Workers :
              fault = "none" /\
              (StartCallThread(w) \/ PopQueue(w) \/ DeleteList(w))
         \/ UNCHANGED <<skiplist, queue, flush, freed>>
BY DEF Next, WriterStep, WorkerStep, MainStep, Wakeup,
       Insert, FinalFlush, CheckBlock, LockMut, EvalPredicate, BlockOnCond,
       SpuriousWakeup, TestRunning, Enqueue, TakeTask, WorkerExit,
       FirstCheck, LoopCheck, CheckSize, NotifyOne,
       RunStart, FlushKey, FinishCallThread, StopPool, JoinPool, DeleteNvm

\* A step that is not a worker's leaves the workers and copied alone.
LEMMA WorkerFrame ==
  ASSUME Next
  PROVE  /\ fault = "none"
         /\ \/ \E w \in Workers : WorkerStep(w)
            \/ /\ UNCHANGED <<pc, flush, todo, copied>>
               /\ freed \subseteq freed'
               /\ UNCHANGED freed \/ DeleteDram
BY DEF Next, WriterStep, WorkerStep, MainStep, Wakeup,
       Insert, FinalFlush, PushQueue, CheckBlock, LockMut, EvalPredicate,
       BlockOnCond, SpuriousWakeup, TestRunning, Enqueue, Realloc, StopPool,
       JoinPool, DeleteDram, DeleteNvm

---------------------------------------------------------------------------
(* Type correctness.                                                       *)

LEMMA WriterType ==
  ASSUME TypeOK, ListRefs, WriterList, Shutdown, WriterStep \/ Wakeup
  PROVE  TypeOK'
<1> USE DEF TypeOK
<1>1. CASE Insert
  <2>1. curSize' \in Nat /\ wpc' \in WriterPCs
    BY <1>1 DEF Insert
  <2>2. ops' \in 0 .. OpsNum /\ listKeys' \in Seq(SUBSET (1 .. OpsNum))
    BY <1>1, InsertFacts
  <2> QED BY <1>1, <2>1, <2>2 DEF Insert
<1>2. CASE FinalFlush BY <1>2 DEF FinalFlush
<1>3. CASE PushQueue
  <2>1. queue' \in Seq(Nat)
    BY <1>3, PushFacts DEF PushQueue
  <2> QED BY <1>3, <2>1 DEF PushQueue
<1>4. CASE CheckBlock BY <1>4 DEF CheckBlock
<1>5. CASE LockMut BY <1>5 DEF LockMut
<1>6. CASE EvalPredicate BY <1>6 DEF EvalPredicate
<1>7. CASE BlockOnCond BY <1>7 DEF BlockOnCond
<1>8. CASE SpuriousWakeup BY <1>8 DEF SpuriousWakeup
<1>9. CASE TestRunning BY <1>9 DEF TestRunning
<1>10. CASE Enqueue BY <1>10 DEF Enqueue
<1>11. CASE Realloc
  <2>1. skiplist' \in Nat /\ listKeys' \in Seq(SUBSET (1 .. OpsNum))
    BY <1>11, ReallocFacts
  <2> QED BY <1>11, <2>1 DEF Realloc
<1> QED
  BY <1>1, <1>2, <1>3, <1>4, <1>5, <1>6, <1>7, <1>8, <1>9, <1>10, <1>11
     DEF WriterStep, Wakeup

LEMMA WorkerType ==
  ASSUME TypeOK, ListRefs, NEW w \in Workers, WorkerStep(w)
  PROVE  TypeOK'
<1> USE DEF TypeOK
<1>1. CASE TakeTask(w) BY <1>1 DEF TakeTask
<1>2. CASE WorkerExit(w) BY <1>2 DEF WorkerExit
<1>3. CASE StartCallThread(w) BY <1>3 DEF StartCallThread
<1>4. CASE FirstCheck(w) BY <1>4 DEF FirstCheck
<1>5. CASE LoopCheck(w) BY <1>5 DEF LoopCheck
<1>6. CASE PopQueue(w)
  <2>1. pc' \in [Workers -> WorkerPCs]
    BY <1>6 DEF PopQueue
  <2>2. CASE queue = <<>>
    BY <1>6, <2>1, <2>2 DEF PopQueue
  <2>3. CASE queue # <<>>
    <3>2. /\ queue' \in Seq(Nat) /\ block' = block - 1 /\ queue[1] \in Nat
          /\ flush' = [flush EXCEPT ![w] = queue[1]]
      BY <1>6, <2>3, PopQueueFacts
    <3>1. queue' \in Seq(Nat) /\ block' \in Int
          /\ flush' \in [Workers -> Nat]
      BY <3>2
    <3> QED BY <1>6, <2>1, <3>1 DEF PopQueue
  <2> QED BY <2>2, <2>3
<1>7. CASE CheckSize(w) BY <1>7 DEF CheckSize
<1>8. CASE NotifyOne(w) BY <1>8 DEF NotifyOne
<1>9. CASE RunStart(w)
  <2>1. flush[w] # 0 => listKeys[flush[w]] \in SUBSET (1 .. OpsNum)
    BY DEF ListRefs, Lists
  <2>2. todo' \in [Workers -> SUBSET (1 .. OpsNum)] /\ fault' \in Faults
    BY <1>9, <2>1 DEF RunStart
  <2>3. pc' \in [Workers -> WorkerPCs]
    BY <1>9 DEF RunStart
  <2> QED BY <1>9, <2>2, <2>3 DEF RunStart
<1>10. CASE FlushKey(w)
  <2>1. copied' \in SUBSET (1 .. OpsNum)
    BY <1>10 DEF FlushKey
  <2>2. todo' \in [Workers -> SUBSET (1 .. OpsNum)]
    BY <1>10 DEF FlushKey
  <2> QED BY <1>10, <2>1, <2>2 DEF FlushKey
<1>11. CASE DeleteList(w)
  <2>1. freed' \in SUBSET Nat
    BY <1>11 DEF DeleteList
  <2>2. pc' \in [Workers -> WorkerPCs]
    BY <1>11 DEF DeleteList
  <2> QED BY <1>11, <2>1, <2>2 DEF DeleteList
<1>12. CASE FinishCallThread(w)
  <2>1. pc' \in [Workers -> WorkerPCs]
    BY <1>12 DEF FinishCallThread
  <2>2. isRunning' \in BOOLEAN
    BY <1>12 DEF FinishCallThread
  <2> QED BY <1>12, <2>1, <2>2 DEF FinishCallThread
<1> QED
  BY <1>1, <1>2, <1>3, <1>4, <1>5, <1>6, <1>7, <1>8, <1>9, <1>10, <1>11,
     <1>12 DEF WorkerStep

LEMMA MainType ==
  ASSUME TypeOK, MainStep
  PROVE  TypeOK'
<1> USE DEF TypeOK
<1>1. CASE StopPool BY <1>1 DEF StopPool
<1>2. CASE JoinPool BY <1>2 DEF JoinPool
<1>3. CASE DeleteDram BY <1>3 DEF DeleteDram
<1>4. CASE DeleteNvm BY <1>4 DEF DeleteNvm
<1> QED BY <1>1, <1>2, <1>3, <1>4 DEF MainStep

LEMMA TypePreserved ==
  ASSUME TypeOK, ListRefs, WriterList, Shutdown, Next
  PROVE  TypeOK'
BY WriterType, WorkerType, MainType DEF Next
---------------------------------------------------------------------------
(* The queue and its counter.                                              *)

\* Where the writer may go in a step that is not PushQueue.
LEMMA WriterFrame ==
  ASSUME Next
  PROVE  \/ PushQueue \/ Insert \/ FinalFlush \/ CheckBlock \/ EvalPredicate
         \/ Realloc
         \/ wpc = "testRunning" /\ wpc' \in {"enqueue", "realloc"}
         \/ wpc = "enqueue" /\ wpc' = "realloc"
         \/ wpc' \in {"pred", "blocked", "lockMut"}
         \/ UNCHANGED wpc
BY DEF Next, WriterStep, WorkerStep, MainStep, Wakeup,
       LockMut, BlockOnCond, SpuriousWakeup, TestRunning, Enqueue, TakeTask,
       WorkerExit, StartCallThread, FirstCheck, LoopCheck, PopQueue,
       CheckSize, NotifyOne, RunStart, FlushKey, DeleteList,
       FinishCallThread, StopPool, JoinPool, DeleteDram, DeleteNvm

LEMMA CountPreserved ==
  ASSUME TypeOK, BlockIsQueueLength, Next
  PROVE  BlockIsQueueLength'
<1>1. CASE PushQueue
  <2>1. Len(queue') = Len(queue) + 1
    BY <1>1, PushFacts DEF PushQueue, TypeOK
  <2> QED BY <1>1, <2>1 DEF PushQueue, BlockIsQueueLength
<1>2. ASSUME NEW w \in Workers, PopQueue(w)
      PROVE  BlockIsQueueLength'
  <2>1. CASE queue = <<>>
    BY <1>2, <2>1 DEF PopQueue, BlockIsQueueLength
  <2>2. CASE queue # <<>>
    BY <1>2, <2>2, PopQueueFacts DEF BlockIsQueueLength
  <2> QED BY <2>1, <2>2
<1>3. CASE UNCHANGED <<queue, block>>
  BY <1>3 DEF BlockIsQueueLength
<1> QED BY <1>1, <1>2, <1>3, QueueFrame

\* The queue only grows when the writer pushes.
LEMMA QueueShrinks ==
  ASSUME TypeOK, Next
  PROVE  PushQueue \/ Len(queue') <= Len(queue)
<1>1. Len(queue) \in Nat
  BY LenProperties DEF TypeOK
<1>2. ASSUME NEW w \in Workers, PopQueue(w)
      PROVE  Len(queue') <= Len(queue)
  <2>1. CASE queue = <<>>
    BY <1>1, <1>2, <2>1 DEF PopQueue
  <2>2. CASE queue # <<>>
    BY <1>2, <2>2, PopQueueFacts
  <2> QED BY <2>1, <2>2
<1>3. CASE UNCHANGED <<queue, block>>
  BY <1>1, <1>3
<1> QED BY <1>2, <1>3, QueueFrame

LEMMA BoundPreserved ==
  ASSUME TypeOK, TypeOK', BlockIsQueueLength, QueueBounded, Next
  PROVE  QueueBounded'
<1> DEFINE Bounded == Len(queue) <= SkiplistMaxNum
<1>1. Len(queue) \in Nat /\ Len(queue') \in Nat
  BY LenProperties DEF TypeOK
<1>2. CASE PushQueue BY <1>2 DEF PushQueue, QueueBounded
<1>3. CASE Len(queue') <= Len(queue)
  <2>1. Bounded => Bounded'
    BY <1>1, <1>3
  <2>2. CASE Insert \/ FinalFlush \/ Realloc
    BY <2>1, <2>2 DEF Insert, FinalFlush, Realloc, QueueBounded
  <2>3. CASE CheckBlock
    BY <2>1, <2>3 DEF CheckBlock, QueueBounded, BlockIsQueueLength
  <2>4. CASE EvalPredicate
    BY <2>1, <2>4 DEF EvalPredicate, QueueBounded
  <2> QED BY <1>2, <2>1, <2>2, <2>3, <2>4, WriterFrame DEF QueueBounded
<1> QED BY <1>2, <1>3, QueueShrinks
---------------------------------------------------------------------------
(* The pointers to the lists.                                              *)

WriterHasList == wpc \in {"insert", "push", "done"}
DramDeleted == mpc \in {"deleteNvm", "exit"}

\* The actions that matter to WriterList.
LEMMA WriterListFrame ==
  ASSUME Next
  PROVE  \/ PushQueue \/ Realloc \/ DeleteDram \/ Insert
         \/ \E w \in Workers : fault = "none" /\ DeleteList(w)
         \/ /\ UNCHANGED <<skiplist, listKeys, freed>>
            /\ WriterHasList' = WriterHasList
            /\ DramDeleted' = DramDeleted
BY DEF WriterHasList, DramDeleted, Next, WriterStep, WorkerStep, MainStep,
       Wakeup, FinalFlush, CheckBlock, LockMut, EvalPredicate, BlockOnCond,
       SpuriousWakeup, TestRunning, Enqueue, TakeTask, WorkerExit,
       StartCallThread, FirstCheck, LoopCheck, PopQueue, CheckSize, NotifyOne,
       RunStart, FlushKey, FinishCallThread, StopPool, JoinPool, DeleteNvm

LEMMA ListsGrow ==
  ASSUME TypeOK, ListRefs, WriterList, Shutdown, Next
  PROVE  Lists \subseteq Lists' /\ (Realloc \/ Lists' = Lists)
<1>1. CASE Insert BY <1>1, InsertFacts
<1>2. CASE Realloc BY <1>2, ReallocFacts
<1>3. CASE UNCHANGED <<ops, listKeys>> BY <1>3 DEF Lists
<1> QED BY <1>1, <1>2, <1>3, ListFrame

\* What RunProgress says of a worker in the loop of Run.
LEMMA InsideRun ==
  ASSUME ListRefs, RunProgress, fault = "none",
         NEW w \in Workers, pc[w] = "flushKeys"
  PROVE  /\ HasList(w) /\ flush[w] \in Lists
         /\ todo[w] \subseteq listKeys[flush[w]]
         /\ todo[w] \intersect copied = {}
         /\ listKeys[flush[w]] \ todo[w] \subseteq copied
BY DEF RunProgress, HasList, ListRefs

LEMMA RefsPreserved ==
  ASSUME TypeOK, ListRefs, WriterList, Shutdown, RunProgress, Next
  PROVE  ListRefs'
<1>1. Lists \subseteq Lists'
  BY ListsGrow
<1>2. CASE PushQueue
  <2>1. skiplist \in Lists
    BY <1>2 DEF PushQueue, WriterList, Shutdown, ListRefs
  <2>2. Len(queue') = Len(queue) + 1 /\ Len(queue) \in Nat
        /\ queue'[Len(queue) + 1] = skiplist
        /\ \A i \in 1 .. Len(queue) : queue'[i] = queue[i]
    BY <1>2, PushFacts, LenProperties DEF PushQueue, TypeOK
  <2>3. \A i \in 1 .. Len(queue') : queue'[i] \in Lists
    BY <2>1, <2>2 DEF ListRefs
  <2> QED BY <1>1, <1>2, <2>3 DEF PushQueue, ListRefs
<1>3. CASE Realloc
  <2>1. skiplist' \in Lists'
    BY <1>3, ReallocFacts
  <2> QED BY <1>1, <1>3, <2>1 DEF Realloc, ListRefs
<1>4. CASE DeleteDram
  BY <1>1, <1>4 DEF DeleteDram, ListRefs
<1>5. ASSUME NEW w \in Workers, StartCallThread(w)
      PROVE  ListRefs'
  BY <1>1, <1>5 DEF StartCallThread, ListRefs, TypeOK
<1>6. ASSUME NEW w \in Workers, PopQueue(w)
      PROVE  ListRefs'
  <2>1. CASE queue = <<>>
    BY <1>1, <1>6, <2>1 DEF PopQueue, ListRefs
  <2>2. CASE queue # <<>>
    <3>1. ASSUME NEW i \in 1 .. Len(queue')
          PROVE  queue'[i] \in Lists
      <4>1. i + 1 \in 1 .. Len(queue) /\ queue'[i] = queue[i + 1]
        BY <1>6, <2>2, PopQueueFacts
      <4> QED BY <4>1 DEF ListRefs
    <3>2. flush' = [flush EXCEPT ![w] = queue[1]] /\ 1 \in 1 .. Len(queue)
      BY <1>6, <2>2, PopQueueFacts
    <3>3. \A v \in Workers : flush'[v] \in {0} \union Lists
      BY <3>2 DEF ListRefs, TypeOK
    <3> QED BY <1>1, <1>6, <3>1, <3>3 DEF PopQueue, ListRefs
  <2> QED BY <2>1, <2>2
<1>7. ASSUME NEW w \in Workers, DeleteList(w), fault = "none"
      PROVE  ListRefs'
  <2>1. flush[w] \in Lists
    BY <1>7, InsideRun DEF DeleteList
  <2> QED BY <1>1, <1>7, <2>1 DEF DeleteList, ListRefs
<1>8. CASE UNCHANGED <<skiplist, queue, flush, freed>>
  BY <1>1, <1>8 DEF ListRefs
<1> QED
  BY <1>2, <1>3, <1>4, <1>5, <1>6, <1>7, <1>8, PointerFrame

\* skiplist_ and the newest list: only Flush, Realloc and main touch them.
LEMMA WriterListPreserved ==
  ASSUME TypeOK, ListRefs, WriterList, OneOwner, Shutdown, RunProgress,
         HolderIsBusy, Next
  PROVE  WriterList'
<1>1. CASE PushQueue
  BY <1>1 DEF PushQueue, WriterList, Shutdown
<1>2. CASE Realloc
  <2>1. skiplist' # 0 /\ skiplist' = Len(listKeys') /\ skiplist' \notin Lists
    BY <1>2, ReallocFacts
  <2>2. skiplist' \notin freed'
    BY <1>2, <2>1 DEF Realloc, ListRefs
  <2>3. wpc' \in {"insert", "done"} /\ mpc' \notin {"deleteNvm", "exit"}
    BY <1>2 DEF Realloc, Shutdown, TypeOK
  <2> QED BY <2>1, <2>2, <2>3 DEF WriterList
<1>3. CASE DeleteDram
  BY <1>3 DEF DeleteDram, WriterList
<1>4. CASE Insert
  <2>1. Len(listKeys') = Len(listKeys) /\ skiplist \in Lists
    BY <1>4, InsertFacts, ExceptSeq DEF Insert, TypeOK, Lists
  <2> QED BY <1>4, <2>1 DEF Insert, WriterList
<1>5. ASSUME NEW w \in Workers, DeleteList(w), fault = "none"
      PROVE  WriterList'
  <2>1. HasList(w)
    BY <1>5, InsideRun DEF DeleteList
  <2>2. flush[w] # skiplist
    BY <2>1 DEF OneOwner
  <2> QED BY <1>5, <2>2 DEF DeleteList, WriterList
<1>6. CASE /\ UNCHANGED <<skiplist, listKeys, freed>>
           /\ WriterHasList' = WriterHasList
           /\ DramDeleted' = DramDeleted
  BY <1>6 DEF WriterList, WriterHasList, DramDeleted
<1> QED BY <1>1, <1>2, <1>3, <1>4, <1>5, <1>6, WriterListFrame
---------------------------------------------------------------------------
(* Who owns a list.                                                        *)

\* A worker without a list gets one only from PopQueue, and keeps it until
\* it deletes it.
LEMMA HolderPreserved ==
  ASSUME TypeOK, ListRefs, HolderIsBusy, RunProgress, Next
  PROVE  HolderIsBusy'
<1> USE DEF HolderIsBusy, HasList, TypeOK
<1>1. ASSUME NEW w \in Workers, WorkerStep(w)
      PROVE  HolderIsBusy'
  <2>1. CASE TakeTask(w) BY <2>1 DEF TakeTask
  <2>2. CASE WorkerExit(w) BY <2>2 DEF WorkerExit
  <2>3. CASE StartCallThread(w) BY <2>3 DEF StartCallThread
  <2>4. CASE FirstCheck(w) BY <2>4 DEF FirstCheck
  <2>5. CASE LoopCheck(w) BY <2>5 DEF LoopCheck
  <2>6. CASE PopQueue(w)
    <3>1. pc' = [pc EXCEPT ![w] = "size"] /\ freed' = freed
      BY <2>6 DEF PopQueue
    <3>2. \A v \in Workers \ {w} : flush'[v] = flush[v]
      BY <2>6 DEF PopQueue
    <3> QED BY <3>1, <3>2
  <2>7. CASE CheckSize(w) BY <2>7 DEF CheckSize
  <2>8. CASE NotifyOne(w) BY <2>8 DEF NotifyOne
  <2>9. CASE RunStart(w)
    <3>1. UNCHANGED <<flush, freed>> /\ pc' = [pc EXCEPT ![w] = "flushKeys"]
      BY <2>9 DEF RunStart
    <3> QED BY <3>1
  <2>10. CASE FlushKey(w) BY <2>10 DEF FlushKey
  <2>11. CASE DeleteList(w) BY <2>11 DEF DeleteList
  <2>12. CASE FinishCallThread(w) BY <2>12 DEF FinishCallThread
  <2> QED
    BY <1>1, <2>1, <2>2, <2>3, <2>4, <2>5, <2>6, <2>7, <2>8, <2>9, <2>10,
       <2>11, <2>12 DEF WorkerStep
<1>2. CASE UNCHANGED <<pc, flush>> /\ freed \subseteq freed'
  BY <1>2
<1> QED BY <1>1, <1>2, WorkerFrame

LEMMA OwnerPreserved ==
  ASSUME TypeOK, ListRefs, WriterList, OneOwner, HolderIsBusy, RunProgress,
         Shutdown, Next
  PROVE  OneOwner'
<1>1. CASE PushQueue
  <2>1. skiplist # 0 /\ skiplist \notin freed
    BY <1>1 DEF PushQueue, WriterList, Shutdown
  <2>2. /\ Len(queue) \in Nat /\ Len(queue') = Len(queue) + 1
        /\ queue'[Len(queue) + 1] = skiplist
        /\ \A i \in 1 .. Len(queue) : queue'[i] = queue[i]
    BY <1>1, PushFacts, LenProperties DEF PushQueue, TypeOK
  <2>3. UNCHANGED <<flush, freed>> /\ skiplist' = 0
    BY <1>1 DEF PushQueue
  <2>4. \A i \in 1 .. Len(queue') : i \in 1 .. Len(queue) \/ i = Len(queue) + 1
    BY <2>2
  <2>5. \A i \in 1 .. Len(queue) : queue[i] # 0
    BY DEF ListRefs, Lists
  <2>6. \A i \in 1 .. Len(queue') :
          queue'[i] # skiplist' /\ queue'[i] \notin freed'
    BY <2>1, <2>2, <2>3, <2>4, <2>5 DEF OneOwner
  <2>7. \A i, j \in 1 .. Len(queue') : queue'[i] = queue'[j] => i = j
    BY <2>2, <2>4 DEF OneOwner
  <2>8. ASSUME NEW w \in Workers, HasList(w)
        PROVE  /\ flush[w] # skiplist'
               /\ \A i \in 1 .. Len(queue') : queue'[i] # flush[w]
    BY <2>2, <2>3, <2>4, <2>8 DEF OneOwner, HasList
  <2> QED BY <2>3, <2>6, <2>7, <2>8 DEF OneOwner, HasList
<1>2. CASE Realloc
  <2>1. skiplist' \notin Lists /\ skiplist' # 0
        /\ UNCHANGED <<queue, flush, freed>>
    BY <1>2, ReallocFacts DEF Realloc
  <2> QED BY <2>1 DEF OneOwner, HasList, ListRefs
<1>3. CASE DeleteDram
  <2>1. \A i \in 1 .. Len(queue) : queue[i] # 0
    BY DEF ListRefs, Lists
  <2> QED BY <1>3, <2>1 DEF DeleteDram, OneOwner, HasList
<1>4. ASSUME NEW w \in Workers, StartCallThread(w)
      PROVE  OneOwner'
  BY <1>4 DEF StartCallThread, OneOwner, HasList, TypeOK
<1>5. ASSUME NEW w \in Workers, PopQueue(w)
      PROVE  OneOwner'
  <2>1. CASE queue = <<>>
    BY <1>5, <2>1 DEF PopQueue, OneOwner, HasList
  <2>2. CASE queue # <<>>
    <3>1. UNCHANGED <<skiplist, freed>> /\ 1 \in 1 .. Len(queue)
          /\ flush' = [flush EXCEPT ![w] = queue[1]]
      BY <1>5, <2>2, PopQueueFacts DEF PopQueue
    <3>2. ASSUME NEW i \in 1 .. Len(queue')
          PROVE  i + 1 \in 2 .. Len(queue) /\ queue'[i] = queue[i + 1]
                 /\ i + 1 \in 1 .. Len(queue) /\ i + 1 # 1
      BY <1>5, <2>2, PopQueueFacts
    <3>3. \A i \in 1 .. Len(queue') :
            queue'[i] # skiplist' /\ queue'[i] \notin freed'
      BY <3>1, <3>2 DEF OneOwner
    <3>4. \A i, j \in 1 .. Len(queue') : queue'[i] = queue'[j] => i = j
      BY <3>2 DEF OneOwner
    <3>5. \A i \in 1 .. Len(queue') : queue'[i] # queue[1]
      BY <3>1, <3>2 DEF OneOwner
    <3>6. \A v \in Workers \ {w} : flush'[v] = flush[v]
      BY <3>1 DEF TypeOK
    <3>7. flush'[w] = queue[1]
      BY <3>1 DEF TypeOK
    <3>8. queue[1] # skiplist /\ queue[1] \notin freed /\ queue[1] # 0
      BY <3>1 DEF OneOwner, ListRefs, Lists
    <3>9. \A v \in Workers \ {w} : flush[v] # queue[1]
      BY <3>1, <3>8 DEF OneOwner, HasList
    <3>10. ASSUME NEW v \in Workers \ {w}, HasList(v)'
           PROVE  /\ flush'[v] # skiplist'
                  /\ \A i \in 1 .. Len(queue') : queue'[i] # flush'[v]
                  /\ \A u \in Workers : flush'[u] = flush'[v] => u = v
      <4>1. HasList(v)
        BY <3>1, <3>6, <3>10 DEF HasList
      <4>2. \A i \in 1 .. Len(queue') : queue'[i] # flush[v]
        BY <3>2, <4>1 DEF OneOwner
      <4> QED BY <3>1, <3>6, <3>7, <3>9, <4>1, <4>2 DEF OneOwner
    <3>11. /\ flush'[w] # skiplist'
           /\ \A i \in 1 .. Len(queue') : queue'[i] # flush'[w]
           /\ \A u \in Workers : flush'[u] = flush'[w] => u = w
      BY <3>1, <3>5, <3>6, <3>7, <3>8, <3>9
    <3> QED BY <3>3, <3>4, <3>10, <3>11 DEF OneOwner
  <2> QED BY <2>1, <2>2
<1>6. ASSUME NEW w \in Workers, DeleteList(w), fault = "none"
      PROVE  OneOwner'
  <2>1. HasList(w)
    BY <1>6, InsideRun DEF DeleteList
  <2>2. UNCHANGED <<skiplist, queue, flush>> /\ freed' = freed \union {flush[w]}
    BY <1>6 DEF DeleteList
  <2>3. \A i \in 1 .. Len(queue) : queue[i] # flush[w]
    BY <2>1 DEF OneOwner
  <2> QED BY <2>2, <2>3 DEF OneOwner, HasList
<1>7. CASE UNCHANGED <<skiplist, queue, flush, freed>>
  BY <1>7 DEF OneOwner, HasList
<1> QED BY <1>1, <1>2, <1>3, <1>4, <1>5, <1>6, <1>7, PointerFrame
LEMMA ListKept ==
  ASSUME TypeOK, ListRefs, WriterList, OneOwner, NoListLost, HolderIsBusy,
         RunProgress, Shutdown, Next
  PROVE  NoListLost'
<1> DEFINE Kept(g) == \/ g = skiplist
                      \/ \E i \in 1 .. Len(queue) : queue[i] = g
                      \/ g \in freed
                      \/ \E w \in Workers : HasList(w) /\ flush[w] = g
<1> SUFFICES ASSUME NEW g \in Lists' PROVE Kept(g)'
  BY DEF NoListLost
<1>1. g \in Lists \/ (Realloc /\ g = skiplist')
  BY ListsGrow, ReallocFacts
<1>2. g \in Lists => Kept(g)
  BY DEF NoListLost
<1>3. CASE PushQueue
  <2>1. /\ Len(queue') = Len(queue) + 1 /\ Len(queue) \in Nat
        /\ queue'[Len(queue) + 1] = skiplist
        /\ \A i \in 1 .. Len(queue) : queue'[i] = queue[i]
        /\ UNCHANGED <<flush, freed, listKeys>>
    BY <1>3, PushFacts, LenProperties DEF PushQueue, TypeOK
  <2>2. Kept(g)
    BY <1>2, <2>1 DEF Lists
  <2>3. Len(queue') \in 1 .. Len(queue')
        /\ \A i \in 1 .. Len(queue) : i \in 1 .. Len(queue')
    BY <2>1
  <2>4. CASE g = skiplist
    BY <2>1, <2>3, <2>4
  <2>5. CASE g # skiplist
    BY <2>1, <2>2, <2>3, <2>5 DEF HasList
  <2> QED BY <2>4, <2>5
<1>4. CASE Realloc
  <2>1. skiplist = 0 /\ UNCHANGED <<queue, flush, freed>>
    BY <1>4 DEF Realloc, WriterList
  <2>2. g = skiplist' \/ (g \in Lists /\ g # 0)
    BY <1>1 DEF Lists
  <2> QED BY <1>2, <2>1, <2>2 DEF HasList
<1>5. CASE DeleteDram
  <2>1. g \in Lists /\ g # 0
    BY <1>5 DEF DeleteDram, Lists
  <2> QED BY <1>2, <1>5, <2>1 DEF DeleteDram, HasList
<1>6. ASSUME NEW w \in Workers, StartCallThread(w)
      PROVE  Kept(g)'
  <2>1. ~HasList(w) /\ g \in Lists
    BY <1>6 DEF StartCallThread, HolderIsBusy, Lists
  <2> QED BY <1>2, <1>6, <2>1 DEF StartCallThread, HasList, TypeOK
<1>7. ASSUME NEW w \in Workers, PopQueue(w)
      PROVE  Kept(g)'
  <2>1. ~HasList(w) /\ g \in Lists /\ UNCHANGED <<skiplist, freed>>
    BY <1>7 DEF PopQueue, HolderIsBusy, Lists
  <2>2. CASE queue = <<>>
    BY <1>2, <1>7, <2>1, <2>2 DEF PopQueue, HasList
  <2>3. CASE queue # <<>>
    <3>1. /\ Len(queue) \in Nat \ {0} /\ 1 \in 1 .. Len(queue)
          /\ flush' = [flush EXCEPT ![w] = queue[1]]
          /\ Len(queue') = Len(queue) - 1
          /\ \A i \in 1 .. Len(queue') : queue'[i] = queue[i + 1]
      BY <1>7, <2>3, PopQueueFacts
    <3>2. CASE \E i \in 1 .. Len(queue) : queue[i] = g
      <4>1. PICK i \in 1 .. Len(queue) : queue[i] = g
        BY <3>2
      <4>2. CASE i = 1
        <5>1. flush'[w] = g /\ g # 0
          BY <3>1, <4>1, <4>2, <2>1 DEF TypeOK, Lists
        <5>2. g \notin freed
          BY <3>1, <4>1, <4>2 DEF OneOwner
        <5> QED BY <2>1, <5>1, <5>2 DEF HasList
      <4>3. CASE i # 1
        <5>1. i - 1 \in 1 .. Len(queue') /\ queue'[i - 1] = g
          BY <3>1, <4>1, <4>3
        <5> QED BY <5>1
      <4> QED BY <4>2, <4>3
    <3>3. CASE g = skiplist \/ g \in freed
      BY <2>1, <3>3
    <3>4. CASE \E v \in Workers : HasList(v) /\ flush[v] = g
      <4>1. PICK v \in Workers : HasList(v) /\ flush[v] = g
        BY <3>4
      <4>2. flush'[v] = flush[v]
        BY <2>1, <3>1, <4>1 DEF TypeOK
      <4> QED BY <2>1, <4>1, <4>2 DEF HasList
    <3> QED BY <1>2, <2>1, <3>2, <3>3, <3>4
  <2> QED BY <2>2, <2>3
<1>8. ASSUME NEW w \in Workers, DeleteList(w)
      PROVE  Kept(g)'
  <2>1. g \in Lists /\ UNCHANGED <<skiplist, queue, flush>>
        /\ freed' = freed \union {flush[w]}
    BY <1>8 DEF DeleteList, Lists
  <2> QED BY <1>2, <2>1 DEF HasList
<1>9. CASE UNCHANGED <<skiplist, queue, flush, freed>> /\ ~Realloc
  BY <1>1, <1>2, <1>9 DEF HasList
<1> QED BY <1>3, <1>4, <1>5, <1>6, <1>7, <1>8, <1>9, PointerFrame

---------------------------------------------------------------------------
(* The keys in the lists.                                                  *)

\* Only Insert changes an existing list, and only the one being filled.
LEMMA KeysGrow ==
  ASSUME TypeOK, ListRefs, WriterList, Shutdown, Next
  PROVE  /\ \A g \in Lists : g \in Lists' /\ listKeys[g] \subseteq listKeys'[g]
         /\ \A g \in Lists : g # skiplist => listKeys'[g] = listKeys[g]
<1>1. CASE Insert BY <1>1, InsertFacts
<1>2. CASE Realloc BY <1>2, ReallocFacts
<1>3. CASE UNCHANGED <<ops, listKeys>> BY <1>3 DEF Lists
<1> QED BY <1>1, <1>2, <1>3, ListFrame

LEMMA KeysPreserved ==
  ASSUME TypeOK, ListRefs, WriterList, Shutdown, KeysInLists, Next
  PROVE  KeysInLists'
<1>1. CASE Insert
  <2>1. /\ skiplist \in Lists /\ Lists' = Lists
        /\ ops' = ops + 1 /\ ops \in Nat
        /\ listKeys'[skiplist] = listKeys[skiplist] \union {ops + 1}
        /\ \A g \in Lists \ {skiplist} : listKeys'[g] = listKeys[g]
    BY <1>1, InsertFacts DEF TypeOK
  <2>2. \A k \in 1 .. ops' : k \in 1 .. ops \/ k = ops + 1
    BY <2>1
  <2>3. 1 .. ops \subseteq 1 .. ops' /\ ops + 1 \in 1 .. ops'
        /\ ops + 1 \notin 1 .. ops
    BY <2>1
  <2>4. \A g \in Lists' : listKeys'[g] \subseteq 1 .. ops'
    BY <2>1, <2>3 DEF KeysInLists
  <2>5. \A k \in 1 .. ops' : \E g \in Lists' : k \in listKeys'[g]
    BY <2>1, <2>2 DEF KeysInLists
  <2>6. \A g, h \in Lists' :
          g # h => listKeys'[g] \intersect listKeys'[h] = {}
    BY <2>1, <2>3 DEF KeysInLists
  <2> QED BY <2>4, <2>5, <2>6 DEF KeysInLists
<1>2. CASE Realloc
  <2>1. UNCHANGED ops
    BY <1>2 DEF Realloc
  <2> QED BY <1>2, <2>1, ReallocFacts DEF KeysInLists
<1>3. CASE UNCHANGED <<ops, listKeys>>
  BY <1>3 DEF KeysInLists, Lists
<1> QED BY <1>1, <1>2, <1>3, ListFrame
---------------------------------------------------------------------------
(* Shutdown.                                                               *)

LEMMA ShutdownPreserved ==
  ASSUME TypeOK, ListRefs, WriterList, Shutdown, Next
  PROVE  Shutdown'
<1> USE DEF Shutdown
<1>1. CASE WriterStep
  <2>1. mpc = "join" /\ ~stop
    BY <1>1 DEF WriterStep, Insert, FinalFlush, PushQueue, CheckBlock,
         LockMut, EvalPredicate, BlockOnCond, TestRunning, Enqueue, Realloc
  <2>2. UNCHANGED <<mpc, stop, nvmAlive>>
    BY <1>1 DEF WriterStep, Insert, FinalFlush, PushQueue, CheckBlock,
         LockMut, EvalPredicate, BlockOnCond, TestRunning, Enqueue, Realloc
  <2>3. fault' # "enqueue_on_stopped"
    BY <1>1, <2>1 DEF WriterStep, Insert, FinalFlush, PushQueue, CheckBlock,
         LockMut, EvalPredicate, BlockOnCond, TestRunning, Enqueue, Realloc
  <2>4. wpc' = "done" => Realloc /\ final /\ UNCHANGED ops
    BY <1>1 DEF WriterStep, Insert, FinalFlush, PushQueue, CheckBlock,
         LockMut, EvalPredicate, BlockOnCond, TestRunning, Enqueue, Realloc
  <2>5. wpc' = "done" /\ skiplist' # 0 => listKeys'[skiplist'] = {}
    BY <2>4, ReallocFacts
  <2>6. final' => ops' = OpsNum
    <3>1. CASE Insert
      BY <3>1 DEF Insert, TypeOK
    <3>2. CASE ~Insert
      BY <1>1, <3>2 DEF WriterStep, FinalFlush, PushQueue, CheckBlock,
           LockMut, EvalPredicate, BlockOnCond, TestRunning, Enqueue, Realloc
    <3> QED BY <3>1, <3>2
  <2> QED BY <2>1, <2>2, <2>3, <2>4, <2>5, <2>6
<1>2. CASE Wakeup
  BY <1>2 DEF Wakeup, SpuriousWakeup
<1>3. ASSUME NEW w \in Workers, WorkerStep(w)
      PROVE  Shutdown'
  <2> USE DEF WorkerStep, TakeTask, WorkerExit, StartCallThread, FirstCheck,
          LoopCheck, PopQueue, CheckSize, NotifyOne, RunStart, FlushKey,
          DeleteList, FinishCallThread
  <2>1. UNCHANGED <<ops, final, listKeys, skiplist, stop, mpc, nvmAlive>>
    BY <1>3
  <2>2. wpc' = "done" <=> wpc = "done"
    BY <1>3
  <2>3. fault' # "enqueue_on_stopped"
    BY <1>3
  <2>4. mpc \notin {"join", "joinPool"} => FALSE
    BY <1>3
  <2> QED BY <2>1, <2>2, <2>3, <2>4
<1>4. CASE MainStep
  <2>1. CASE StopPool BY <2>1 DEF StopPool
  <2>2. CASE JoinPool BY <2>2 DEF JoinPool
  <2>3. CASE DeleteDram BY <2>3 DEF DeleteDram
  <2>4. CASE DeleteNvm BY <2>4 DEF DeleteNvm
  <2> QED BY <1>4, <2>1, <2>2, <2>3, <2>4 DEF MainStep
<1> QED BY <1>1, <1>2, <1>3, <1>4 DEF Next

---------------------------------------------------------------------------
(* The keys given to the NVM list.                                         *)

\* The lists that two workers hold have no key in common.
LEMMA HeldListsDisjoint ==
  ASSUME OneOwner, KeysInLists, ListRefs,
         NEW v \in Workers, NEW w \in Workers, v # w, HasList(v), HasList(w)
  PROVE  listKeys[flush[v]] \intersect listKeys[flush[w]] = {}
BY DEF OneOwner, KeysInLists, ListRefs, HasList

\* The actions that touch a worker inside Run, its list or copied.
LEMMA RunFrame ==
  ASSUME TypeOK, Next
  PROVE  \/ \E w \in Workers :
              fault = "none" /\ (RunStart(w) \/ FlushKey(w) \/ DeleteList(w))
         \/ DeleteDram
         \/ /\ fault = "none" /\ UNCHANGED <<todo, copied, freed>>
            /\ \A v \in Workers :
                 /\ pc'[v] = "flushKeys" <=> pc[v] = "flushKeys"
                 /\ pc[v] = "flushKeys" => flush'[v] = flush[v]
                 /\ flush'[v] # flush[v] =>
                      StartCallThread(v) \/ PopQueue(v)
<1> DEFINE Same == /\ UNCHANGED <<todo, copied, freed>>
                   /\ \A v \in Workers :
                        /\ pc'[v] = "flushKeys" <=> pc[v] = "flushKeys"
                        /\ pc[v] = "flushKeys" => flush'[v] = flush[v]
                        /\ flush'[v] # flush[v] =>
                             StartCallThread(v) \/ PopQueue(v)
<1>1. ASSUME NEW w \in Workers, WorkerStep(w)
      PROVE  RunStart(w) \/ FlushKey(w) \/ DeleteList(w) \/ Same
  <2>1. CASE \/ TakeTask(w) \/ WorkerExit(w) \/ FirstCheck(w)
             \/ LoopCheck(w) \/ CheckSize(w) \/ NotifyOne(w)
             \/ FinishCallThread(w)
    BY <2>1 DEF TypeOK, TakeTask, WorkerExit, FirstCheck, LoopCheck,
         CheckSize, NotifyOne, FinishCallThread
  <2>2. CASE StartCallThread(w)
    <3>1. \A v \in Workers \ {w} : flush'[v] = flush[v] /\ pc'[v] = pc[v]
      BY <2>2 DEF TypeOK, StartCallThread
    <3>2. pc[w] # "flushKeys" /\ pc'[w] # "flushKeys"
      BY <2>2 DEF TypeOK, StartCallThread
    <3> QED BY <2>2, <3>1, <3>2 DEF StartCallThread
  <2>3. CASE PopQueue(w)
    <3>1. \A v \in Workers \ {w} : flush'[v] = flush[v] /\ pc'[v] = pc[v]
      BY <2>3 DEF TypeOK, PopQueue
    <3>2. pc[w] # "flushKeys" /\ pc'[w] # "flushKeys"
      BY <2>3 DEF TypeOK, PopQueue
    <3>3. UNCHANGED <<todo, copied, freed>>
      BY <2>3 DEF PopQueue
    <3> QED BY <2>3, <3>1, <3>2, <3>3
  <2> QED BY <1>1, <2>1, <2>2, <2>3 DEF WorkerStep
<1>2. fault = "none"
  BY WorkerFrame
<1>3. CASE UNCHANGED <<pc, flush, todo, copied, freed>>
  BY <1>2, <1>3
<1> QED BY <1>1, <1>2, <1>3, WorkerFrame

LEMMA RunPreserved ==
  ASSUME TypeOK, ListRefs, WriterList, OneOwner, RunProgress, KeysInLists,
         CopiedByRun, Shutdown, Next
  PROVE  RunProgress'
<1> DEFINE Copied(v) ==
      IF pc[v] = "flushKeys" /\ HasList(v)
      THEN /\ todo[v] \subseteq listKeys[flush[v]]
           /\ todo[v] \intersect copied = {}
           /\ listKeys[flush[v]] \ todo[v] \subseteq copied
      ELSE todo[v] = {} /\ (pc[v] = "flushKeys" => fault # "none")
<1> SUFFICES ASSUME NEW v \in Workers PROVE Copied(v)'
  BY DEF RunProgress
<1>0. fault = "none" /\ Copied(v)
  BY WorkerFrame DEF RunProgress
<1>1. HasList(v) => /\ flush[v] # skiplist /\ flush[v] \in Lists
                    /\ listKeys'[flush[v]] = listKeys[flush[v]]
  BY KeysGrow DEF OneOwner, HasList, ListRefs
<1>2. CASE DeleteDram
  BY <1>0, <1>1, <1>2 DEF DeleteDram, HasList
<1>3. ASSUME NEW w \in Workers, RunStart(w)
      PROVE  Copied(v)'
  <2>1. /\ UNCHANGED <<flush, freed, copied, listKeys>>
        /\ pc[w] = "run" /\ pc' = [pc EXCEPT ![w] = "flushKeys"]
        /\ \A u \in Workers \ {w} : todo'[u] = todo[u]
    BY <1>3 DEF RunStart, TypeOK
  <2>2. CASE v # w
    BY <1>0, <2>1, <2>2 DEF TypeOK, HasList
  <2>3. CASE v = w /\ ~HasList(v)
    <3>1. todo' = todo /\ fault' # "none"
      BY <1>3, <2>3 DEF RunStart, HasList
    <3> QED BY <1>0, <2>1, <2>3, <3>1 DEF HasList
  <2>4. CASE v = w /\ HasList(v)
    <3>1. ASSUME NEW k \in listKeys[flush[v]], k \in copied
          PROVE  FALSE
      <4>1. PICK g \in Lists :
              /\ k \in listKeys[g]
              /\ \/ g \in freed
                 \/ \E u \in Workers :
                      HasList(u) /\ flush[u] = g /\ pc[u] = "flushKeys"
        BY <3>1 DEF CopiedByRun
      <4>2. g = flush[v]
        BY <1>1, <2>4, <3>1, <4>1 DEF KeysInLists
      <4>3. PICK u \in Workers : flush[u] = flush[v] /\ pc[u] = "flushKeys"
        BY <2>4, <4>1, <4>2 DEF HasList
      <4>4. u = v
        BY <2>4, <4>3 DEF OneOwner
      <4> QED BY <2>1, <2>4, <4>3, <4>4
    <3>2. todo'[v] = listKeys[flush[v]]
      BY <1>0, <1>3, <2>1, <2>4 DEF TypeOK, RunStart, HasList
    <3>3. HasList(v)' /\ pc'[v] = "flushKeys"
      BY <2>1, <2>4 DEF HasList, TypeOK
    <3> QED BY <2>1, <3>1, <3>2, <3>3
  <2> QED BY <2>2, <2>3, <2>4
<1>4. ASSUME NEW w \in Workers, FlushKey(w)
      PROVE  Copied(v)'
  <2>1. PICK k \in todo[w] : /\ copied' = copied \union {k}
                             /\ todo' = [todo EXCEPT ![w] = @ \ {k}]
    BY <1>4 DEF FlushKey
  <2>2. UNCHANGED <<pc, flush, freed, listKeys, fault>> /\ pc[w] = "flushKeys"
    BY <1>4 DEF FlushKey
  <2>3. HasList(w) /\ todo[w] \subseteq listKeys[flush[w]]
    BY <1>0, <2>2, InsideRun
  <2>4. CASE v = w
    <3>1. todo'[v] = todo[v] \ {k}
      BY <2>1, <2>4 DEF TypeOK
    <3> QED BY <1>0, <2>1, <2>2, <2>3, <2>4, <3>1 DEF HasList
  <2>5. CASE v # w
    <3>1. todo'[v] = todo[v]
      BY <2>1, <2>5 DEF TypeOK
    <3>2. HasList(v) => k \notin listKeys[flush[v]]
      BY <2>1, <2>3, <2>5, HeldListsDisjoint
    <3> QED BY <1>0, <2>1, <2>2, <3>1, <3>2 DEF HasList
  <2> QED BY <2>4, <2>5
<1>5. ASSUME NEW w \in Workers, DeleteList(w)
      PROVE  Copied(v)'
  <2>1. /\ UNCHANGED <<flush, todo, copied, listKeys, fault>>
        /\ freed' = freed \union {flush[w]} /\ todo[w] = {}
        /\ pc[w] = "flushKeys" /\ pc' = [pc EXCEPT ![w] = "loop"]
    BY <1>5 DEF DeleteList
  <2>2. HasList(w)
    BY <1>0, <2>1, InsideRun
  <2>3. CASE v = w
    BY <2>1, <2>3 DEF TypeOK
  <2>4. CASE v # w
    <3>1. flush[v] # flush[w]
      BY <2>2, <2>4 DEF OneOwner
    <3> QED BY <1>0, <2>1, <2>4, <3>1 DEF HasList, TypeOK
  <2> QED BY <2>3, <2>4
<1>6. CASE /\ UNCHANGED <<todo, copied, freed>>
           /\ pc'[v] = "flushKeys" <=> pc[v] = "flushKeys"
           /\ pc[v] = "flushKeys" => flush'[v] = flush[v]
  BY <1>0, <1>1, <1>6 DEF HasList
<1> QED BY <1>2, <1>3, <1>4, <1>5, <1>6, RunFrame

LEMMA CopiedGrows ==
  ASSUME TypeOK, Next
  PROVE  copied \subseteq copied'
BY RunFrame DEF RunStart, FlushKey, DeleteList, DeleteDram

LEMMA FreedPreserved ==
  ASSUME TypeOK, ListRefs, WriterList, OneOwner, RunProgress,
         FreedOnlyWhenFlushed, Shutdown, Next
  PROVE  FreedOnlyWhenFlushed'
<1>1. copied \subseteq copied'
  BY CopiedGrows
<1>2. \A g \in freed : g \in Lists
  BY DEF ListRefs
<1>3. ASSUME NEW g \in freed, g # skiplist
      PROVE  listKeys'[g] \subseteq copied'
  BY <1>1, <1>2, <1>3, KeysGrow DEF FreedOnlyWhenFlushed
<1>4. ASSUME NEW g \in freed
      PROVE  listKeys'[g] \subseteq copied'
  <2>1. g # skiplist
    BY <1>2 DEF WriterList, Lists
  <2> QED BY <1>3, <2>1
<1>5. CASE UNCHANGED freed
  BY <1>4, <1>5 DEF FreedOnlyWhenFlushed
<1>6. CASE DeleteDram
  <2>1. skiplist # 0 => listKeys[skiplist] = {}
    BY <1>6 DEF DeleteDram, Shutdown
  <2> QED BY <1>4, <1>6, <2>1 DEF DeleteDram, FreedOnlyWhenFlushed
<1>7. ASSUME NEW w \in Workers, DeleteList(w), fault = "none"
      PROVE  FreedOnlyWhenFlushed'
  <2>1. listKeys[flush[w]] \subseteq copied
    BY <1>7, InsideRun DEF DeleteList
  <2> QED BY <1>4, <1>7, <2>1 DEF DeleteList, FreedOnlyWhenFlushed
<1>8. UNCHANGED freed \/ DeleteDram
      \/ \E w \in Workers : fault = "none" /\ DeleteList(w)
  BY RunFrame DEF RunStart, FlushKey
<1> QED BY <1>5, <1>6, <1>7, <1>8

LEMMA CopiedPreserved ==
  ASSUME TypeOK, ListRefs, WriterList, OneOwner, RunProgress, KeysInLists,
         CopiedByRun, HolderIsBusy, Shutdown, Next
  PROVE  CopiedByRun'
<1> DEFINE From(k, g) ==
      /\ k \in listKeys[g]
      /\ \/ g \in freed
         \/ \E v \in Workers :
              /\ HasList(v) /\ flush[v] = g
              /\ pc[v] = "flushKeys" /\ k \notin todo[v]
<1> SUFFICES ASSUME NEW k \in copied' PROVE \E g \in Lists' : From(k, g)'
  BY DEF CopiedByRun
<1>1. k \in copied => \E g \in Lists : From(k, g)
  BY DEF CopiedByRun
<1>2. \A g \in Lists : g \in Lists' /\ listKeys[g] \subseteq listKeys'[g]
  BY KeysGrow
<1>3. CASE DeleteDram
  <2>1. /\ UNCHANGED <<pc, flush, todo, copied, listKeys>> /\ Lists' = Lists
        /\ freed' = freed \union ({skiplist} \ {0})
    BY <1>3 DEF DeleteDram, Lists
  <2> QED BY <1>1, <2>1 DEF HasList
<1>4. ASSUME NEW w \in Workers, RunStart(w)
      PROVE  \E g \in Lists' : From(k, g)'
  <2>1. /\ UNCHANGED <<flush, freed, copied, listKeys>> /\ Lists' = Lists
        /\ pc[w] # "flushKeys"
        /\ \A v \in Workers \ {w} : pc'[v] = pc[v] /\ todo'[v] = todo[v]
    BY <1>4 DEF RunStart, TypeOK, Lists
  <2> QED BY <1>1, <2>1 DEF HasList
<1>5. ASSUME NEW w \in Workers, FlushKey(w), fault = "none"
      PROVE  \E g \in Lists' : From(k, g)'
  <2>1. /\ UNCHANGED <<pc, flush, freed, listKeys>> /\ Lists' = Lists
        /\ pc[w] = "flushKeys"
    BY <1>5 DEF FlushKey, Lists
  <2>2. \A v \in Workers : todo'[v] \subseteq todo[v]
    BY <1>5 DEF FlushKey, TypeOK
  <2>3. CASE k \in copied
    BY <1>1, <2>1, <2>2, <2>3 DEF HasList
  <2>4. CASE k \notin copied
    <3>1. k \in todo[w] /\ k \notin todo'[w]
      BY <1>5, <2>4 DEF FlushKey, TypeOK
    <3>2. flush[w] \in Lists /\ HasList(w) /\ k \in listKeys[flush[w]]
      BY <1>5, <2>1, <3>1, InsideRun
    <3> QED BY <2>1, <3>1, <3>2 DEF HasList
  <2> QED BY <2>3, <2>4
<1>6. ASSUME NEW w \in Workers, DeleteList(w)
      PROVE  \E g \in Lists' : From(k, g)'
  <2>1. /\ UNCHANGED <<flush, todo, copied, listKeys>> /\ Lists' = Lists
        /\ freed' = freed \union {flush[w]}
        /\ \A v \in Workers \ {w} : pc'[v] = pc[v]
    BY <1>6 DEF DeleteList, TypeOK, Lists
  <2> QED BY <1>1, <2>1 DEF HasList
<1>7. CASE /\ UNCHANGED <<todo, copied, freed>>
           /\ \A v \in Workers :
                /\ pc'[v] = "flushKeys" <=> pc[v] = "flushKeys"
                /\ pc[v] = "flushKeys" => flush'[v] = flush[v]
  BY <1>1, <1>2, <1>7 DEF HasList
<1> QED BY <1>3, <1>4, <1>5, <1>6, <1>7, RunFrame
---------------------------------------------------------------------------
(* The inductive invariant.                                                *)

\* A step that is not a step of a thread leaves every variable as it was.
LEMMA StutterInv ==
  ASSUME IInv, UNCHANGED vars
  PROVE  IInv'
<1> USE DEF IInv, Lists, HasList
<1>1. TypeOK' /\ BlockIsQueueLength' /\ ListRefs' /\ WriterList'
  BY DEF TypeOK, BlockIsQueueLength, ListRefs, WriterList
<1>2. OneOwner' /\ NoListLost' /\ HolderIsBusy'
  BY DEF OneOwner, NoListLost, HolderIsBusy
<1>3. RunProgress' /\ FreedOnlyWhenFlushed' /\ KeysInLists' /\ CopiedByRun'
  BY DEF RunProgress, FreedOnlyWhenFlushed, KeysInLists, CopiedByRun
<1>4. Shutdown' /\ QueueBounded'
  BY DEF Shutdown, QueueBounded
<1> QED BY <1>1, <1>2, <1>3, <1>4

LEMMA InitInv == Init => IInv
<1> SUFFICES ASSUME Init PROVE IInv
  OBVIOUS
<1>1. Len(listKeys) = 1 /\ listKeys[1] = {} /\ Lists = {1}
      /\ listKeys \in Seq(SUBSET (1 .. OpsNum))
  BY DEF Init, Lists
<1>2. Len(queue) = 0 /\ queue \in Seq(Nat) /\ 1 .. Len(queue) = {}
  BY DEF Init
<1>3. TypeOK
  <2>1. todo \in [Workers -> SUBSET (1 .. OpsNum)]
    BY DEF Init
  <2>2. pc \in [Workers -> WorkerPCs] /\ flush \in [Workers -> Nat]
    BY DEF Init
  <2>3. /\ wpc = "insert" /\ ops = 0 /\ final = FALSE /\ curSize = 0
        /\ skiplist = 1 /\ block = 0 /\ mut = "free" /\ isRunning = FALSE
        /\ tasks = 0 /\ stop = FALSE /\ freed = {} /\ copied = {}
        /\ nvmAlive = TRUE /\ mpc = "join" /\ fault = "none"
    BY DEF Init
  <2>4. ops \in 0 .. OpsNum
    BY <2>3
  <2>5. freed \in SUBSET Nat /\ copied \in SUBSET (1 .. OpsNum)
    BY <2>3
  <2>6. /\ final \in BOOLEAN /\ isRunning \in BOOLEAN /\ stop \in BOOLEAN
        /\ nvmAlive \in BOOLEAN
    BY <2>3
  <2>7. /\ wpc \in WriterPCs /\ curSize \in Nat /\ skiplist \in Nat
        /\ block \in Int /\ mut \in {"free", "writer"} /\ tasks \in Nat
        /\ mpc \in {"join", "joinPool", "deleteDram", "deleteNvm", "exit"}
        /\ fault \in Faults
    BY <2>3
  <2> QED BY <1>1, <1>2, <2>1, <2>2, <2>4, <2>5, <2>6, <2>7 DEF TypeOK
<1>4. ListRefs /\ WriterList /\ BlockIsQueueLength
  BY <1>1, <1>2 DEF Init, ListRefs, WriterList, BlockIsQueueLength
<1>5. OneOwner /\ NoListLost /\ HolderIsBusy
  BY <1>1, <1>2 DEF Init, OneOwner, NoListLost, HolderIsBusy, HasList
<1>6. RunProgress /\ FreedOnlyWhenFlushed /\ CopiedByRun
  BY DEF Init, RunProgress, FreedOnlyWhenFlushed, CopiedByRun
<1>7. KeysInLists
  BY <1>1 DEF Init, KeysInLists
<1>8. Shutdown /\ QueueBounded
  BY <1>2 DEF Init, Shutdown, QueueBounded
<1> QED BY <1>3, <1>4, <1>5, <1>6, <1>7, <1>8 DEF IInv

LEMMA NextInv == IInv /\ [Next]_vars => IInv'
<1> SUFFICES ASSUME IInv, [Next]_vars PROVE IInv'
  OBVIOUS
<1>1. CASE UNCHANGED vars
  BY <1>1, StutterInv
<1>2. CASE Next
  <2>1. TypeOK'
    BY <1>2, TypePreserved DEF IInv
  <2>2. BlockIsQueueLength' /\ QueueBounded'
    BY <1>2, <2>1, CountPreserved, BoundPreserved DEF IInv
  <2>3. ListRefs' /\ WriterList'
    BY <1>2, RefsPreserved, WriterListPreserved DEF IInv
  <2>4. OneOwner' /\ NoListLost' /\ HolderIsBusy'
    BY <1>2, OwnerPreserved, ListKept, HolderPreserved DEF IInv
  <2>5. RunProgress' /\ FreedOnlyWhenFlushed'
    BY <1>2, RunPreserved, FreedPreserved DEF IInv
  <2>6. KeysInLists' /\ CopiedByRun'
    BY <1>2, KeysPreserved, CopiedPreserved DEF IInv
  <2>7. Shutdown'
    BY <1>2, ShutdownPreserved DEF IInv
  <2> QED BY <2>1, <2>2, <2>3, <2>4, <2>5, <2>6, <2>7 DEF IInv
<1> QED BY <1>1, <1>2

\* The invariant the other theorems rest on, whatever the workers interleave.
THEOREM Invariance == Spec => []IInv
BY InitInv, NextInv, PTL DEF Spec
---------------------------------------------------------------------------
(* The safety properties.                                                  *)

\* Every variable keeps its type, for any number of workers and keys.
THEOREM TypeCorrect == Spec => []TypeOK
BY Invariance, PTL DEF IInv

\* The counter that Flush tests without q_mutex_ equals queue_.size(): no
\* decrement is lost or done twice when several workers pop.
THEOREM CounterCorrect == Spec => []BlockIsQueueLength
BY Invariance, PTL DEF IInv

\* Flush never lets the writer go on while more than skiplist_max_num lists
\* wait, although it tests the limit before it locks mut.
THEOREM BackPressureHolds == Spec => []BackPressure
<1>1. IInv => BackPressure
  BY DEF IInv, QueueBounded, BackPressure
<1> QED BY <1>1, Invariance, PTL

\* Two threads never have the same list, for any number of workers.
THEOREM OneOwnerHolds == Spec => []OneOwner
BY Invariance, PTL DEF IInv

\* No list is leaked or forgotten, for any number of workers.
THEOREM NoListLostHolds == Spec => []NoListLost
BY Invariance, PTL DEF IInv

\* A list is deleted only when all its keys were given to the NVM list.
THEOREM FreedFlushed == Spec => []FreedOnlyWhenFlushed
BY Invariance, PTL DEF IInv

\* skiplist_nvm is deleted after the last CallThread has returned.
THEOREM NvmOutlives == Spec => []NvmOutlivesFlushers
<1>1. IInv => NvmOutlivesFlushers
  BY DEF IInv, Shutdown, NvmOutlivesFlushers
<1> QED BY <1>1, Invariance, PTL
---------------------------------------------------------------------------
(* FlushPipeline implements WriteBehind.                                   *)

\* A worker's keys are keys of its list; a worker without a list has none.
LEMMA HeldKeysFacts ==
  ASSUME IInv, NEW w \in Workers
  PROVE  /\ HasList(w) => HeldKeys(w) \subseteq listKeys[flush[w]]
         /\ ~HasList(w) => HeldKeys(w) = {}
         /\ HasList(w) => flush[w] \in Lists /\ flush[w] # skiplist
BY DEF IInv, RunProgress, HeldKeys, ListRefs, OneOwner, HasList

\* PendingKeys is fixed by the queued lists and the keys of each worker.
LEMMA SamePending ==
  ASSUME UNCHANGED queue,
         \A i \in 1 .. Len(queue) : listKeys'[queue[i]] = listKeys[queue[i]],
         \A w \in Workers : HeldKeys(w)' = HeldKeys(w)
  PROVE  PendingKeys' = PendingKeys
BY DEF PendingKeys

LEMMA RefInit == Init => WB!Init
<1> SUFFICES ASSUME Init PROVE WB!Init
  OBVIOUS
<1>1. listKeys[1] = {} /\ 1 .. Len(queue) = {}
  BY DEF Init
<1>2. \A w \in Workers : HeldKeys(w) = {}
  BY DEF Init, HeldKeys, HasList
<1>3. PendingKeys = {}
  BY <1>1, <1>2 DEF PendingKeys
<1>4. DramKeys = {}
  BY <1>1 DEF Init, DramKeys
<1> QED BY <1>3, <1>4 DEF Init, WB!Init

LEMMA RefWriter ==
  ASSUME IInv, IInv', Insert \/ PushQueue \/ Realloc \/ DeleteDram
  PROVE  [WB!Next]_(WB!vars)
<1> USE DEF IInv
<1>1. CASE Insert
  <2>1. /\ skiplist \in Lists /\ skiplist # 0
        /\ listKeys'[skiplist] = listKeys[skiplist] \union {ops + 1}
        /\ \A g \in Lists \ {skiplist} : listKeys'[g] = listKeys[g]
        /\ ops' = ops + 1 /\ ops < OpsNum
        /\ UNCHANGED <<skiplist, queue, pc, flush, todo, freed, copied>>
    BY <1>1, InsertFacts DEF Insert, Lists
  <2>2. DramKeys' = DramKeys \union {ops + 1}
    BY <2>1 DEF DramKeys
  <2>3. \A i \in 1 .. Len(queue) : listKeys'[queue[i]] = listKeys[queue[i]]
    BY <2>1 DEF OneOwner, ListRefs
  <2>4. \A w \in Workers : HeldKeys(w)' = HeldKeys(w)
    BY <2>1, HeldKeysFacts DEF HeldKeys, HasList
  <2>5. PendingKeys' = PendingKeys
    BY <2>1, <2>3, <2>4, SamePending
  <2> QED BY <2>1, <2>2, <2>5 DEF WB!Next, WB!Write
<1>2. CASE PushQueue
  <2>1. /\ skiplist # 0 /\ skiplist' = 0
        /\ UNCHANGED <<ops, listKeys, pc, flush, todo, freed, copied>>
    BY <1>2 DEF PushQueue, WriterList, Shutdown
  <2>2. /\ Len(queue') = Len(queue) + 1 /\ Len(queue) \in Nat
        /\ queue'[Len(queue) + 1] = skiplist
        /\ \A i \in 1 .. Len(queue) : queue'[i] = queue[i]
    BY <1>2, PushFacts, LenProperties DEF PushQueue, TypeOK
  <2>3. DramKeys' = {} /\ DramKeys = listKeys[skiplist]
    BY <2>1 DEF DramKeys
  <2>4. \A w \in Workers : HeldKeys(w)' = HeldKeys(w)
    BY <2>1 DEF HeldKeys, HasList
  <2>5. ASSUME NEW k
        PROVE  (\E i \in 1 .. Len(queue') : k \in listKeys[queue'[i]]) <=>
                 \/ \E i \in 1 .. Len(queue) : k \in listKeys[queue[i]]
                 \/ k \in listKeys[skiplist]
    <3>1. \A i \in 1 .. Len(queue') :
            i \in 1 .. Len(queue) \/ i = Len(queue) + 1
      BY <2>2
    <3>2. \A i \in 1 .. Len(queue) : i \in 1 .. Len(queue')
      BY <2>2
    <3>3. Len(queue) + 1 \in 1 .. Len(queue')
      BY <2>2
    <3> QED BY <2>2, <3>1, <3>2, <3>3
  <2>6. PendingKeys' = PendingKeys \union DramKeys
    <3>1. (UNION {listKeys[queue'[i]] : i \in 1 .. Len(queue')})
            = (UNION {listKeys[queue[i]] : i \in 1 .. Len(queue)})
                \union listKeys[skiplist]
      BY <2>5
    <3>2. (UNION {HeldKeys(w) : w \in Workers})'
            = UNION {HeldKeys(w) : w \in Workers}
      BY <2>4
    <3>3. listKeys' = listKeys
      BY <2>1
    <3> QED BY <2>3, <3>1, <3>2, <3>3 DEF PendingKeys
  <2> QED BY <2>1, <2>3, <2>6 DEF WB!Next, WB!HandOver
<1>3. CASE Realloc
  <2>1. /\ skiplist = 0 /\ skiplist' # 0 /\ listKeys'[skiplist'] = {}
        /\ \A g \in Lists : listKeys'[g] = listKeys[g]
        /\ UNCHANGED <<ops, queue, pc, flush, todo, freed, copied>>
    BY <1>3, ReallocFacts DEF Realloc, WriterList
  <2>2. DramKeys' = DramKeys
    BY <2>1 DEF DramKeys
  <2>3. \A i \in 1 .. Len(queue) : listKeys'[queue[i]] = listKeys[queue[i]]
    BY <2>1 DEF ListRefs
  <2>4. \A w \in Workers : HeldKeys(w)' = HeldKeys(w)
    BY <2>1, HeldKeysFacts DEF HeldKeys, HasList
  <2>5. PendingKeys' = PendingKeys
    BY <2>1, <2>3, <2>4, SamePending
  <2> QED BY <2>1, <2>2, <2>5 DEF WB!vars
<1>4. CASE DeleteDram
  <2>1. /\ skiplist' = 0 /\ freed' = freed \union ({skiplist} \ {0})
        /\ UNCHANGED <<ops, listKeys, queue, pc, flush, todo, copied>>
    BY <1>4 DEF DeleteDram
  <2>2. DramKeys = {} /\ DramKeys' = {}
    BY <1>4, <2>1 DEF DramKeys, DeleteDram, Shutdown
  <2>3. \A w \in Workers : HeldKeys(w)' = HeldKeys(w)
    BY <2>1, HeldKeysFacts DEF HeldKeys, HasList
  <2>4. PendingKeys' = PendingKeys
    BY <2>1, <2>3, SamePending
  <2> QED BY <2>1, <2>2, <2>4 DEF WB!vars
<1> QED BY <1>1, <1>2, <1>3, <1>4

LEMMA RefPop ==
  ASSUME IInv, IInv', NEW w \in Workers, PopQueue(w)
  PROVE  UNCHANGED WB!vars
<1> USE DEF IInv
<1>1. UNCHANGED <<ops, listKeys, skiplist, freed, copied, todo>>
  BY DEF PopQueue
<1>2. ~HasList(w) /\ pc[w] # "flushKeys" /\ pc'[w] # "flushKeys"
  BY DEF PopQueue, HolderIsBusy, TypeOK
<1>3. \A v \in Workers \ {w} : HeldKeys(v)' = HeldKeys(v)
  BY <1>1 DEF PopQueue, HeldKeys, HasList, TypeOK
<1>4. DramKeys' = DramKeys
  BY <1>1 DEF DramKeys
<1>5. CASE queue = <<>>
  <2>1. UNCHANGED <<queue, flush>>
    BY <1>5 DEF PopQueue
  <2>2. HeldKeys(w)' = HeldKeys(w)
    BY <1>1, <1>2, <2>1 DEF HeldKeys, HasList
  <2>3. PendingKeys' = PendingKeys
    BY <1>1, <1>3, <2>1, <2>2, SamePending
  <2> QED BY <1>1, <1>4, <2>3 DEF WB!vars
<1>6. CASE queue # <<>>
  <2>p. /\ Len(queue) \in Nat \ {0}
        /\ flush' = [flush EXCEPT ![w] = queue[1]]
        /\ Len(queue') = Len(queue) - 1
        /\ \A i \in 1 .. Len(queue') : queue'[i] = queue[i + 1]
    BY <1>6, PopQueueFacts
  <2>1. /\ Len(queue) \in Nat \ {0} /\ 1 \in 1 .. Len(queue)
        /\ flush'[w] = queue[1]
        /\ Len(queue') = Len(queue) - 1
        /\ \A i \in 1 .. Len(queue') : queue'[i] = queue[i + 1]
    BY <2>p DEF TypeOK
  <2>2. queue[1] # 0 /\ queue[1] \notin freed
    BY <2>1 DEF OneOwner, ListRefs, Lists
  <2>3. HeldKeys(w) = {} /\ HeldKeys(w)' = listKeys[queue[1]]
    BY <1>1, <1>2, <2>1, <2>2 DEF HeldKeys, HasList
  <2>4. ASSUME NEW k
        PROVE  (\E i \in 1 .. Len(queue) : k \in listKeys[queue[i]]) <=>
                 \/ \E i \in 1 .. Len(queue') : k \in listKeys[queue'[i]]
                 \/ k \in listKeys[queue[1]]
    <3>1. \A i \in 1 .. Len(queue') : i + 1 \in 1 .. Len(queue)
      BY <2>1
    <3>2. \A i \in 1 .. Len(queue) : i = 1 \/ i - 1 \in 1 .. Len(queue')
      BY <2>1
    <3>3. \A i \in 1 .. Len(queue) : i # 1 => queue'[i - 1] = queue[i]
      BY <2>1, <3>2
    <3> QED BY <2>1, <3>1, <3>2, <3>3
  <2>5. ASSUME NEW k
        PROVE  (\E v \in Workers : k \in HeldKeys(v)') <=>
                 \/ \E v \in Workers : k \in HeldKeys(v)
                 \/ k \in listKeys[queue[1]]
    BY <1>3, <2>3
  <2>6. PendingKeys' = PendingKeys
    BY <1>1, <2>4, <2>5 DEF PendingKeys
  <2> QED BY <1>1, <1>4, <2>6 DEF WB!vars
<1> QED BY <1>5, <1>6

LEMMA RefFlushKey ==
  ASSUME IInv, NEW w \in Workers, FlushKey(w), fault = "none"
  PROVE  WB!Next
<1> USE DEF IInv
<1>1. PICK k \in todo[w] : /\ copied' = copied \union {k}
                           /\ todo' = [todo EXCEPT ![w] = @ \ {k}]
  BY DEF FlushKey
<1>2. /\ UNCHANGED <<ops, listKeys, skiplist, queue, pc, flush, freed>>
      /\ pc[w] = "flushKeys"
  BY DEF FlushKey
<1>3. DramKeys' = DramKeys
  BY <1>2 DEF DramKeys
<1>4. HasList(w) /\ k \in listKeys[flush[w]] /\ flush[w] \in Lists
  BY <1>1, <1>2, InsideRun
<1>5. \A i \in 1 .. Len(queue) : k \notin listKeys[queue[i]]
  BY <1>4 DEF OneOwner, KeysInLists, ListRefs
<1>6. \A v \in Workers \ {w} : k \notin HeldKeys(v)
  BY <1>4, HeldKeysFacts, HeldListsDisjoint
<1>7. \A v \in Workers \ {w} : HeldKeys(v)' = HeldKeys(v)
  BY <1>1, <1>2 DEF HeldKeys, HasList, TypeOK
<1>8. HeldKeys(w) = todo[w] /\ HeldKeys(w)' = todo[w] \ {k}
  BY <1>1, <1>2 DEF HeldKeys, TypeOK
<1>9. PendingKeys' = PendingKeys \ {k}
  BY <1>2, <1>5, <1>6, <1>7, <1>8 DEF PendingKeys
<1>10. k \in PendingKeys /\ k \in 1 .. OpsNum
  BY <1>1, <1>8 DEF PendingKeys, TypeOK
<1> QED BY <1>1, <1>2, <1>3, <1>9, <1>10 DEF WB!Next, WB!Drain

\* The other steps of a worker change what it does next, and no key's place.
LEMMA RefWorker ==
  ASSUME IInv, IInv', NEW w \in Workers,
         StartCallThread(w) \/ RunStart(w) \/ DeleteList(w), fault = "none"
  PROVE  UNCHANGED WB!vars
<1> USE DEF IInv
<1>1. UNCHANGED <<ops, listKeys, skiplist, queue, copied>>
  BY DEF StartCallThread, RunStart, DeleteList
<1>2. \A v \in Workers \ {w} : pc'[v] = pc[v] /\ flush'[v] = flush[v]
                               /\ todo'[v] = todo[v]
  BY DEF StartCallThread, RunStart, DeleteList, TypeOK
<1>3. \A v \in Workers \ {w} : HasList(v)' = HasList(v)
  <2>1. CASE DeleteList(w)
    <3>1. freed' = freed \union {flush[w]} /\ HasList(w)
      BY <2>1, InsideRun DEF DeleteList
    <3>2. \A v \in Workers \ {w} : flush[v] # flush[w]
      BY <3>1 DEF OneOwner
    <3> QED BY <1>2, <3>1, <3>2 DEF HasList
  <2>2. CASE StartCallThread(w) \/ RunStart(w)
    <3>1. freed' = freed
      BY <2>2 DEF StartCallThread, RunStart
    <3> QED BY <1>2, <3>1 DEF HasList
  <2> QED BY <2>1, <2>2
<1>4. HeldKeys(w)' = HeldKeys(w)
  <2>1. CASE StartCallThread(w)
    <3>1. ~HasList(w) /\ pc[w] # "flushKeys"
      BY <2>1 DEF StartCallThread, HolderIsBusy
    <3>2. ~HasList(w)' /\ pc'[w] # "flushKeys"
      BY <2>1 DEF StartCallThread, HasList, TypeOK
    <3> QED BY <3>1, <3>2 DEF HeldKeys
  <2>2. CASE RunStart(w)
    <3>1. pc[w] # "flushKeys" /\ pc'[w] = "flushKeys" /\ todo[w] = {}
      BY <2>2 DEF RunStart, TypeOK, RunProgress
    <3>2. todo'[w] = IF HasList(w) THEN listKeys[flush[w]] ELSE {}
      BY <2>2, <3>1 DEF RunStart, HasList, TypeOK
    <3> QED BY <3>1, <3>2 DEF HeldKeys
  <2>3. CASE DeleteList(w)
    <3>1. HeldKeys(w) = {}
      BY <2>3 DEF DeleteList, HeldKeys
    <3>2. pc'[w] # "flushKeys" /\ ~HasList(w)'
      BY <2>3 DEF DeleteList, HasList, TypeOK
    <3> QED BY <3>1, <3>2 DEF HeldKeys
  <2> QED BY <2>1, <2>2, <2>3
<1>5. \A v \in Workers : HeldKeys(v)' = HeldKeys(v)
  BY <1>1, <1>2, <1>3, <1>4 DEF HeldKeys
<1>6. PendingKeys' = PendingKeys
  BY <1>1, <1>5, SamePending
<1>7. DramKeys' = DramKeys
  BY <1>1 DEF DramKeys
<1> QED BY <1>1, <1>6, <1>7 DEF WB!vars

LEMMA RefNext ==
  ASSUME IInv, IInv', [Next]_vars
  PROVE  [WB!Next]_(WB!vars)
<1>1. CASE UNCHANGED vars
  <2>1. \A w \in Workers : HeldKeys(w)' = HeldKeys(w)
    BY <1>1 DEF HeldKeys, HasList
  <2>2. PendingKeys' = PendingKeys /\ DramKeys' = DramKeys
    BY <1>1, <2>1, SamePending DEF DramKeys
  <2> QED BY <1>1, <2>2 DEF WB!vars
<1>2. CASE Next
  <2>1. CASE Insert \/ PushQueue \/ Realloc \/ DeleteDram
    BY <2>1, RefWriter
  <2>2. ASSUME NEW w \in Workers, fault = "none",
               StartCallThread(w) \/ RunStart(w) \/ DeleteList(w)
        PROVE  UNCHANGED WB!vars
    BY <2>2, RefWorker
  <2>3. ASSUME NEW w \in Workers, PopQueue(w)
        PROVE  UNCHANGED WB!vars
    BY <2>3, RefPop
  <2>4. ASSUME NEW w \in Workers, FlushKey(w), fault = "none"
        PROVE  WB!Next
    BY <2>4, RefFlushKey
  <2>5. CASE /\ UNCHANGED <<ops, listKeys, skiplist, queue, flush, todo, copied,
                            freed>>
             /\ \A v \in Workers : pc'[v] = "flushKeys" <=> pc[v] = "flushKeys"
    <3>1. \A w \in Workers : HeldKeys(w)' = HeldKeys(w)
      BY <2>5 DEF HeldKeys, HasList
    <3>2. PendingKeys' = PendingKeys /\ DramKeys' = DramKeys
      BY <2>5, <3>1, SamePending DEF DramKeys
    <3> QED BY <2>5, <3>2 DEF WB!vars
  <2>6. TypeOK
    BY DEF IInv
  <2> QED
    BY <1>2, <2>1, <2>2, <2>3, <2>4, <2>5, <2>6, ListFrame, PointerFrame,
       RunFrame
<1> QED BY <1>1, <1>2

\* The threads of the write path do what WriteBehind says, in any
\* interleaving: lists are handed over as a whole, and a key is given to the
\* NVM list at most once, and only after its list was handed over.
THEOREM Refinement == Spec => ImplementsWriteBehind
BY RefInit, RefNext, Invariance, PTL DEF Spec, WB!Spec, ImplementsWriteBehind

\* Every key that write_to_dram inserted is in the list being filled, on the
\* way to NVM, or given to the NVM list, and in only one of the three.
THEOREM NoKeyLost == Spec => []EveryKeyInOnePlace
<1>1. WB!Init => EveryKeyInOnePlace
  BY DEF WB!Init, EveryKeyInOnePlace, WB!EveryKeyInOnePlace
<1>2. ASSUME TypeOK, EveryKeyInOnePlace, [WB!Next]_(WB!vars)
      PROVE  EveryKeyInOnePlace'
  <2> USE DEF EveryKeyInOnePlace, WB!EveryKeyInOnePlace
  <2>1. CASE WB!Write
    <3>1. 1 .. ops' = (1 .. ops) \union {ops + 1} /\ ops + 1 \notin 1 .. ops
      BY <1>2, <2>1 DEF WB!Write, TypeOK
    <3> QED BY <1>2, <2>1, <3>1 DEF WB!Write
  <2>2. CASE WB!HandOver
    BY <1>2, <2>2 DEF WB!HandOver
  <2>3. ASSUME NEW k \in 1 .. OpsNum, WB!Drain(k)
        PROVE  EveryKeyInOnePlace'
    BY <1>2, <2>3 DEF WB!Drain
  <2>4. CASE UNCHANGED WB!vars
    BY <1>2, <2>4 DEF WB!vars
  <2> QED BY <1>2, <2>1, <2>2, <2>3, <2>4 DEF WB!Next
<1> QED
  BY <1>1, <1>2, Refinement, TypeCorrect, PTL
     DEF ImplementsWriteBehind, WB!Spec
============================================================================
