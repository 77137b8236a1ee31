# PersistTreeTest in TLA+

PersistTreeTest is a benchmark of skip lists in persistent memory (NVM). Its
main experiment (`motivation1_main.cc`, `test_type` 1) writes keys to skip lists
in DRAM and lets background threads copy each full list to one skip list in
NVM. This directory holds TLA+ models of that program, TLC configurations that
check them, and proofs checked by TLAPS.

All file names below are relative to `src/`. The models describe the program as
the `Makefile` builds it: `-DCZL_DEBUG -DDRAM_CANCEL_LOG -DCAL_ACCESS_COUNT
-DEVERY_1G_PRINT`, no `NDEBUG` (assertions are on), no thread-local storage, and no
optimisation (`Memory_SkipList::FindLessThan` has a result type and no `return`, which
is harmless only then; its result is not used).

## 1. Inventory

| Part | State | Operations | Interacts through |
|---|---|---|---|
| Driver (`motivation1_main.cc`) | parameters, the pool, the two global lists | `write_to_dram`, `write_to_nvm`, `parse_input`, `main` | starts the writer thread; joins it, then destroys pool, DRAM side, NVM side |
| Write path, `SkiplistWriteNVM` (`log_batch_wrapper.*`) | `skiplist_`, `cur_mem_skiplist_size_`, `block_skiplist_num_`; static `queue_`, `q_mutex_`, `mut`, `queue_cond`, `is_running_` | `Insert`, `Flush`, `Realloc`, `CallThread`, destructor | `queue_` between writer and workers, the condition variable for back-pressure, tasks in the pool |
| `FlushNVM` (`flush_nvm.*`) | pointer to one DRAM list | `Run` | inserts in the NVM list, deletes the DRAM list |
| Thread pool (`thread_pool.h`) | `tasks`, `workers`, `stop`, a mutex and a condition variable | constructor and worker loop, `enqueue`, destructor | runs `CallThread` |
| Skip list in NVM (`persistent_skip_list.*`, `nvm_node.h`, wrapper) | nodes, `prev_`, `max_height_` | constructor, `Insert` (`FindNextNode`, `FindLessThan`), `Print*` | called by `Run`, without a lock; libpmem |
| NVM allocator (`persistent_skiplist_no_transaction.*`) | mapping, bump pointer | `Allocate`, `AllocateAligned` | called by the NVM list |
| Skip list in DRAM (`log_batch.*`, `Memory_SkipList`) | nodes, `prev_`, `max_height_` | constructor, `Insert`, destructor | filled by the writer, read and deleted by a worker |
| Log of DRAM keys (`AllocateFile`, the log in `Insert`, in `log_batch_wrapper.cc`) | one file per list, bump pointer | open, append | only in a build without `DRAM_CANCEL_LOG` |
| Varints, `AEP_LOG` (`log_batch.*`) | a buffer; a list of log entries | append, read, rotate | nothing in the program calls them |
| Random numbers (`random.*`) | `seed_`, one for all threads | `Next`, `GetTLSInstance` | heights of nodes, numbers in keys |

What is hard here:

* **interleavings**: `queue_.empty()`, `block_skiplist_num_` and `is_running_`
  are read outside the mutex that protects their writes, and decisions are taken
  on the values later (`log_batch_wrapper.cc:96, 101, 143, 149`);
* **condition variable**: the predicate reads `queue_`, which is protected by
  another mutex than the one given to `wait` (`log_batch_wrapper.cc:145`);
* **ownership**: the raw pointer of a DRAM list goes from `SkiplistWriteNVM` to
  `queue_` to a worker's `FlushNVM`, and each of the three may delete it;
* **boundaries**: the last `Flush` may push an empty list;
* **durability**: the NVM list stores and persists one pointer at a time, and a
  power failure may come in between, or after a partial write back;
* **saved predecessors**: both lists start most Inserts from `prev_`, left by
  the one before;
* **lost wake-ups**: `enqueue` notifies after it has released the mutex;
* **names and sizes of log files**: see 2.5;
* **shutdown**: the pool, the DRAM side and the NVM side are destroyed while
  tasks may still be queued;
* **a shared generator**: without thread-local storage every thread steps the
  same `seed_`, without a lock;
* **parameters**: the bump allocator never looks at its capacity, and the driver
  divides by quotients of `VALUE_SIZE`.

What makes each part correct: the write path drops no list and no key, copies
no key twice or early and, while a `CallThread` serves, every list in the end; it
bounds the lists in DRAM and gets the writer going again;
the NVM list stays in order at every level, reaches every node, and is in that
state after a power failure too; the pool runs every task and can be destroyed;
the DRAM list is sorted and frees each node once; a key in DRAM is in the log of its
list, which is large enough; the generator has its full period; a command line that is accepted
makes distinct keys, fits the mapping and runs to its end.

## 2. Modules

| Module | What it is |
|---|---|
| `FlushPipeline` | the write path, `FlushNVM`, the pool and the shutdown of `main`, composed |
| `WriteBehind` | what the write path promises: keys go from DRAM to pending, by whole lists, and from there to the NVM list, each at most once; a safety specification, in which a key may be pending for ever |
| `FlushPipelineProofs` | theorems about `FlushPipeline` |
| `MCFlushPipeline` | symmetry of the workers, for TLC |
| `PersistentSkipList` | the list in NVM and what a power failure leaves of it |
| `DurableSet` | what that list promises to one writer |
| `PersistentSkipListProofs` | theorems about `PersistentSkipList` |
| `MCPersistentSkipList` | the orders of keys, for TLC |
| `ThreadPool` | the pool with its mutex, condition variable and destructor |
| `TaskPool` | what a pool promises: tasks in order, each taken once, none left behind |
| `MemorySkipList` | the list in DRAM: nodes, saved predecessors, destructor |
| `LogFiles` | the write path of the build with a log: lists, their log files, what is in them |
| `Random` | the generator, shared by the writer and the workers |
| `Workload`, `MCWorkload` | the driver with its parameters, the keys it formats, the bytes of NVM, and the print-outs; command lines, for TLC |
| `ThreadPoolProofs`, `RandomProofs`, `LogFilesProofs`, `MemorySkipListProofs`, `WorkloadProofs` | theorems about the modules they are named after |
| `NumberLemmas` | facts about natural numbers that the proofs about both lists and the driver count with |
| `MCMemorySkipList`, `MCLogFiles` | inputs, for TLC |

Definitions whose comment says "mutant" are variants of an action with a
plausible bug. They are used by no specification; with one of them in the place
of the action it mimics, the property listed with it in `PROJECT.json` fails.

### 2.1 FlushPipeline

There are three kinds of threads. `wpc`, `pc[w]` and `mpc` are the places where
the writer, worker `w` and the main thread are.

| Actions | Code |
|---|---|
| `Insert`, `FinalFlush` | one turn of the loop of `write_to_dram`; the `Flush` after it |
| `PushQueue`, `CheckBlock`, `LockMut`, `EvalPredicate`, `BlockOnCond`, `SpuriousWakeup`, `TestRunning`, `Enqueue`, `Realloc` | `SkiplistWriteNVM::Flush`, one action per access to shared state |
| `TakeTask`, `WorkerExit` | the loop of a pool worker |
| `StartCallThread`, `FirstCheck`, `LoopCheck`, `PopQueue`, `CheckSize`, `NotifyOne`, `FinishCallThread` | `CallThread`, again one action per access |
| `RunStart`, `FlushKey`, `DeleteList` | `FlushNVM::Run`: the assertions, one key, the delete |
| `StopPool`, `JoinPool`, `DeleteDram`, `DeleteNvm` | the end of `main` |

What is abstracted, and why that is sound:

* a critical section of `q_mutex_` is one action. Unlocked readers of the same
  variables then see the state before or after it, which are also the values
  they can read on the machine the program is for;
* `is_running_` is stored and loaded in relaxed order, and modelled as
  sequentially consistent. Every such access is separated from the accesses it
  matters with by a lock or unlock of a mutex;
* a DRAM list is its set of keys, and keys are operation numbers (each key
  contains the loop counter). The order in which `Run` visits the keys follows
  the random number in them, so `FlushKey` takes any key left;
* `copied` is the keys that were given to `PersistentSkiplistWrapper::Insert`, not
  the list that their Inserts make. With two workers in `Run` these are not
  locked and may lose a node; `skiplist_two_flushers` is about that;
* the process ends at the first failed assertion; the model also ends at the
  first use of a deleted list. `fault` says which;
* the pool's mutex and condition variable are folded in `TakeTask` and
  `Enqueue`. `ThreadPool` is about what is folded, and implements a pool that
  is folded in the same way (2.3).

### 2.2 PersistentSkipList

A node is the number of the Insert that made it. `next` is what the CPU sees, `pm`
what is in NVM. `StartAtFinger`, `StartFindNextNode` and `StartFindLessThan` are
the three outcomes of the comparisons at the start of `Insert`; `Advance` and
`Descend` are the loop of the two searches; `Grow` chooses a height; `Link`,
`PersistNew`, `LinkPrev` and `PersistPrev` are, for one level, the store and the
persist of `x->SetNext` and of `prev_[i]->SetNext`. `WriteBack` is the cache:
between a store and its persist the whole pointer, or half of it, may get to
NVM. Half of it because the allocator does not align: the key of the head takes
one byte, so every later node starts at an odd address and a pointer may lie
across two cache lines (`Torn`).

Words of NVM other than `next_` are not in `pm`. For `key_`, `keyDurable` holds
the nodes for which some `pmem_persist` certainly covered it.

The first comparisons of `Insert` and each turn of a search are one action.
With one thread nothing else can move in between except the cache. With two
threads this leaves out some interleavings, and the violation is found without
them.

### 2.3 ThreadPool

A worker is in `lock` (wants `queue_mutex`), `test` (holds it and is about to
evaluate the predicate of `wait`), `sleep` (holds it, the predicate was false),
`asleep`, `run` or `exited`. `TestFails` and `Sleep` are apart so that a
notification sent without the mutex may come in between: one sent there is lost,
and the properties say that this does no harm. `Enqueue` is the critical
section of `enqueue`, `NotifyOne` what follows it; `Stop`, `NotifyAll` and
`Join` are `~ThreadPool`. In the program there is one client, the writer thread,
and `main` joins it before the destructor runs; `Stop` has that as its guard.

`TaskPool` has neither mutex nor notification. Its `Submit`, `Start`, `Finish`,
`Close` and `Leave` are the steps that `FlushPipeline` uses the pool by
(`Enqueue`, `TakeTask`, `FinishCallThread`, `StopPool`, `WorkerExit`).

### 2.4 MemorySkipList

The list belongs to one thread at a time (`OneOwner` of `FlushPipeline`), so a
whole `Insert` is one action, and its search a function of the list. `Place` is
`prev_` after the comparisons at the start of `Insert` and the search they call
for; `Right` is the loop of the two searches on one level, `Search` the levels from the
highest in use; `Linked` is the loop that links the node at each of its levels. A node has
as many pointers as its height, so that an access behind them stops TLC. A key
that is equal to `prev_[0]` or to its successor is copied over the node with
the pointers in it; `Overwrite` ends the model there. An equal key that is met
inside a search is not noticed by the code, and gets a second node in front of the
first; `LevelsSorted` says so.

### 2.5 LogFiles

With the log, `Insert` first copies the key to the log file of the current list
(`WriteLog`), then to the list (`InsertInList`). `Flush` hands the list over and
`Realloc` makes the next, with its file (`AllocateFile`). `Name` is the end of the name that `snprintf` makes. The number is a `uint32_t`
printed as an `int` (`Signed`) with at least eight characters, of which the size that is
given keeps the first seven (`Leading`): all but the last digit of a number of up to
eight digits, all but two or three of one of nine or ten; a sign takes one of the
seven. `skiplist_seq_number_` is never initialised, so the first number is any of
`FirstNumbers`, and the next wraps (`NextNumber`); lists are therefore identified by
the order in which they are made, and `log` has the name of the file of each.
A new allocator starts at the beginning of its file. The file is a function from
places to keys; that keys have equal size makes a place a number. Nothing stops
the bump pointer at the end of the mapping, `capacity`; what the program would do
there is left open, and the model goes on. A list is handed over when the key just
inserted has reached `maxSize`, so that a `one_log_size` of 0, which `parse_input`
accepts, gives lists of one key. `maxSize` is what `Init` sets after the first file was
made. The workers are one action, `Flushed`.

### 2.6 Random

`Next()` is two statements on `seed_`, `seed_ = reduced` and `if (seed_ > M) seed_ -= M`,
and a `return seed_`. Each read and each store is an action: `Multiply`,
`StoreReduced`, `Test`, `Subtract`, `StoreSubtracted`, `Return`. `reg` is what a
thread has read and not stored, in the width of `seed_` (`Word`), where a
subtraction may wrap. `exact` follows the definition, `(s * A) % M`, and `raced`
remembers whether two calls have overlapped. The modulus is given by `Half`, which is
2^31 in the program. The instance is made by the writer:
a worker needs a list, and a list needs a number.

### 2.7 Workload

`ParseInput`, `InitNvm`, `WriteToNvm`, `WriteToDram`, `LastFlush`, `RunEmptyList`, `JoinPool`, `PrintList`
are `parse_input`, the rest of `main` and the two write functions. `phase` also
says how the program ended: `usage`, `assertion`, `divByZero` or `done`. A key is
the sequence of its digits (`Pad`, `Key`, from the quotients in `Rest`), since two parts of the program read it:
the lists compare `KEY_SIZE` bytes of it, and the print-outs decode them to a number
and a counter and complain if they do not grow (`Decoded`, `OutOfOrder`). `Inserted` puts one key in its place, and a list is what
inserting its keys makes (`ListOf`). `used` counts
what `Allocate` has handed out, `ListSize` for a list that is copied. When lists are handed over is the matter of
`FlushPipeline`; here `FlushList` takes any keys in DRAM, so that what holds here
holds for every schedule. Whether the list of the last `Flush` is empty depends on the size
of a list too, so `RunEmptyList`, its failed assertion, may happen in any run of the DRAM
path and, without a key, must. `Extras` are the bytes that a copied key may be longer by:
`NewNode` of the DRAM list does not terminate the key that `Run` reads as a C string.

The model has the DRAM path only for counters that fit the format, because a
longer key is handled by `MemorySkipList`'s equal keys, and parameters that are not
negative.

## 3. Runs

| Run | Bounds | Result |
|---|---|---|
| `pipeline` | 2 workers, 9 keys in 5 lists, 1 list may wait, fair | all safety properties and the refinement of `WriteBehind` hold; the writer is woken and queued lists are flushed while a `CallThread` serves; shutdown ends |
| `pipeline_lost_list` | 3 keys | **violated**: the process can exit with a list that was not copied to NVM |
| `pipeline_null_flush` | 5 keys | **violated**: `assert(skiplist_ != nullptr)` can fail |
| `pipeline_empty_flush` | 4 keys | **violated**: `assert(start != nullptr)` can fail |
| `pipeline_stuck_writer` | 5 keys, fair | **violated**: the writer can wait forever |
| `skiplist_safety` | 4 keys in every order, heights 1 to 3, fair | order, saved predecessors, durability, the refinement of `DurableSet`, and every Insert ends |
| `skiplist_two_flushers` | 2 threads, 3 keys | **violated**: the list gets out of order |
| `pool` | 3 workers, 2 clients, 2 calls each, fair | no lost wake-up, `stop` reaches every worker, no task dropped, the refinement of `TaskPool`; every task is run and the destructor returns |
| `memory_list` | 4 Inserts of 4 keys, heights 1 to 3 | every level sorted and complete, the shortcut as good as a search, each node deleted once |
| `log_safety` | 9 keys of 3 bytes in lists of 1 to 4, five sizes of a log, numbers before a change of name, of length, of sign, and before the wrap | keys stay in the log until a later list takes over the file; a log runs over its mapping in exactly the lists that need more than there is |
| `random` | 3 threads, a generator of 3 bits (`Half` = 8), good and bad seeds, fair | what a call returns when calls do not overlap, and its full period; what an overlap or a bad seed can do, and that it lasts |
| `workload` | 28 command lines, up to 5 keys of two binary digits per number, a mapping of 910 bytes | keys distinct and in order until the counter outgrows the format; which command lines outgrow the mapping or divide by zero; no node aligned |

**Why the bounds are enough.** A list takes two keys, so that a list may be
partly copied. Five lists with one allowed to wait let the writer go through the
whole of `Flush`, the wait included, more than once, and let `is_running_` be
set, cleared and set again. Two workers are what `main` creates. Other sizes, two lists that wait, an empty last list, are covered
by the proofs, which hold for all. In the list,
four nodes of height up to three have a level that is empty, one with one node
and one with more, saved predecessors that are older than the last Insert, and
all three kinds of start. The same holds for `memory_list`. In the pool, three workers
and four tasks let a notified worker find the task gone, let two clients notify one
after the other, and let `stop` come with tasks on the queue; a worker that has exited
stays so, and tasks are alike. In `log_safety` nine keys make three to ten lists, which
is enough to go past a change of name from the numbers in `FirstNumbers`, unless a
hundred or a thousand numbers have one name. The word is 2000000020 and not 2^32,
since TLC has integers of 32 bits; numbers of one to ten digits and both signs are
below it. The sizes 0, 3, 4, 5 and 11 with a key of 3 bytes, a default of 6 and a reserve of 1 give a
first file that is too small, a later one, neither, and a list that fits exactly. In `random`, `M` is 7 and `A`
is a primitive root of it, as 16807 is of 2^31 - 1; the smallest field has the
same algebra, and three threads are what lets a subtraction be overtaken twice.
In `workload`, four is the first counter with three digits in base two, as 10^8 is
the first with nine in base ten: three keys are below it and five beyond. 910 bytes
hold the head and the nodes of some of the command lines, and not those of others,
with nodes of height 1 and of height 20. Values of 0, 1, 8, 2^20 and 2^21 bytes give every
combination of the two divisions.

The type invariant of a module is part of the first invariant of its run
(`FingersFit`, `LevelsSorted`, `CoveredUntilReopened`, `ExactWhenAlone`,
`EveryPairHasItsKey`); those of `FlushPipeline` and `ThreadPool` are proved, and
all the others are part of the inductive invariants of section 4.

**Deadlock** is checked in `random` and `workload`, whose `Ended` is the only state that
stays. It is not checked in the other runs: their programs end, by `exit` or by a fault.

**Fairness.** `FairSpec` of `FlushPipeline` has weak fairness for each thread
(the operating system runs every runnable thread), and strong fairness for
`NotifyOne`, which needs `mut`: the writer may take that mutex again and again
when it is woken without reason, and mutexes of the platform do not starve a
waiter forever. No fairness is assumed of spurious wake-ups. `FairSpec` of the
list has weak fairness for the inserting thread, whose loop is bounded by the
number of keys. In `ThreadPool` each worker has weak fairness (a task ends), and who
waits for `queue_mutex` gets it (strong fairness of `Lock` and of a client's
steps); spurious wake-ups are not fair, and the destructor need not be called, so
that `EveryTaskRuns` does not depend on its `notify_all`. In `Random` only the writer has
weak fairness: a worker draws a number when it has a key to insert, perhaps never.

### What the runs found

1. *A list can be lost* (`log_batch_wrapper.cc:149`). `Flush` starts a `CallThread`
   only if `is_running_` is false. A `CallThread` that has already found `queue_`
   empty clears the flag only at line 117, and one that returns at line 98
   never does. The list pushed in between has no thread.
2. *The writer can wait forever* (`log_batch_wrapper.cc:145`). After 1., the next
   `Flush` waits without starting a `CallThread`.
3. *`Run` without a list* (`log_batch_wrapper.cc:103`). Two `CallThread`s can be
   pending, since the flag is set when a task starts and not when it is
   enqueued. The one that comes too late calls `Run` on `nullptr`, or on the list
   it deleted in the turn before (`use_after_free` in `fault`).
4. *`Run` of an empty list* (`motivation1_main.cc:92`), when the keys fill the last
   list exactly.
5. *Two flushers* (`persistent_skip_list.cc:177`). In the same states as 3., two
   workers can be inside `Run` at once, and `Insert` of the NVM list has no
   lock.

No run is spent on the following, which the models show in passing:

* *Equal keys* (`persistent_skip_list.cc:174`). The comment at lines 161 and 162 calls
  them impossible, and a key met inside a search gets a second node. The
  driver makes no equal keys while `ops_num` is below 10^8 (`EveryPairHasItsKey`);
  from there the counter has nine digits, of which `KEY_SIZE` shows eight.
* *Lists share a log file* (`log_batch_wrapper.cc:46`): only seven characters of the number
  are in the name, so up to ten lists in a row write to the beginning of one file, a hundred if
  the number has nine digits and a thousand if it has ten, which a number that nothing
  initialises may well have, while the keys of the earlier ones may be in DRAM only
  (`CoveredUntilReopened` says until when they are covered). And `Init` opens the first log
  file before it sets `max_mem_skiplist_size_` (lines 66, 71), so that file has the default size
  whatever `one_log_size` is. The `Makefile` switches the log off.
* *The generator* (`random.h:33, 75`). An overlap of two calls can leave `seed_` at zero or
  at `M`, from where it does not move (`StuckForever`): every `RandomHeight` then gives
  the same height. An overlap can also return a number above `kMaxNext`. `GoodSeed`
  replaces zero and lets `M` through (`SticksOnlyAfterRace`).
* *Divisions* (`motivation1_main.cc:74, 151`). `parse_input` accepts a `VALUE_SIZE` of zero and
  one above 1024000; `main` divides by the first and `write_to_dram` by a quotient that is zero
  for the second (`DividesByZero`).
* *Reserve of a log* (`log_batch_wrapper.cc:49`). The file is 1 MB larger than the list, which the
  last key may exceed when `VALUE_SIZE` is 2^20 or more. `OverrunsWhenTooLong` says for which sizes a
  log is written behind its mapping, here and in the first file, and for which it is not.
* *Capacity* (`persistent_skiplist_no_transaction.cc:21`). `Allocate` goes past the end of the
  mapping when the nodes are too many (`OverrunsOnlyIfTooSmall` says when they are).

The safety properties of `pipeline` hold in spite of 1. to 4.: a list
without a thread stays on `queue_`, its keys pending, and is not forgotten or freed, and a late
`CallThread` never gets the list of another. `skiplist_safety` is about one
flusher.

## 4. Proofs

`FlushPipelineProofs` proves, for every set of workers, number of keys, sizes and
limit that `PipelineAssumption` allows:

| Theorem | Statement |
|---|---|
| `Invariance` | `Spec => []IInv` |
| `TypeCorrect`, `CounterCorrect`, `BackPressureHolds`, `OneOwnerHolds`, `NoListLostHolds`, `FreedFlushed`, `NvmOutlives` | the safety properties of `pipeline` |
| `Refinement` | `Spec => ImplementsWriteBehind`: whole lists are handed over, and a key is copied at most once and not before |
| `NoKeyLost` | every key is in exactly one of DRAM, pending, copied |

The assumptions: there is a worker, `KeyBytes` and `SkiplistMaxNum` are positive,
the other parameters are natural numbers.

**The inductive invariant of the write path.** None of the properties is inductive. `OneOwner` needs to
know that the writer's list is the newest (`WriterList`), so that it cannot come
back on the queue, and that a worker holds a list only between pop and delete
(`HolderIsBusy`). `FreedOnlyWhenFlushed` needs the progress of `Run`
(`RunProgress`): the keys of a list that a worker has visited are copied, the
others are not; and for `~SkiplistWriteNVM`, which deletes a list without flushing it,
that the writer has ended with an empty one (`Shutdown`). `RunProgress` of one
worker survives the steps of another because lists have disjoint keys
(`KeysInLists`) and because a key is copied only from a list that is deleted or being
run (`CopiedByRun`). `BackPressure` needs `QueueBounded`: once the writer has read a
queue within the limit, only it can make the queue longer. `BlockIsQueueLength`
ties the counter, which `Flush` tests, to the queue, which the properties are about.

The proof that a step preserves `IInv` has a lemma per action. The refinement uses
`IInv` before and after a step: `PushQueue` is `HandOver`, `Insert` is `Write`,
`FlushKey` is `Drain`, all else changes nothing in `WriteBehind`. Neither
specification says that a pending key is ever copied: in the behaviour of `pipeline_lost_list` it is not. `NoKeyLost` then follows
from the invariant of `WriteBehind`.

`ThreadPoolProofs` proves, for every finite set of workers (not empty) and of clients and any number
of calls:

| Theorem | Statement |
|---|---|
| `PoolInvariance`, `PoolTypeCorrect` | `Spec => []IInv`, `Spec => []TypeOK` |
| `WakeupsNeverLost`, `DestructorWakesAll`, `AllTasksAreRun` | `NoLostWakeup`, `StopReachesAll`, `NothingDropped` |
| `PoolRefines` | `Spec => ImplementsTaskPool` |

The only other assumption is that the value that stands for "nobody" is not a worker.

**The inductive invariant of the pool.** `NoLostWakeup` counts: the tasks that wait are no more
than the workers on their way and the notifications to come, as long as a worker sleeps. `Take`
lowers both sides by one, `Enqueue` raises both, `NotifyOne` turns a notification into a worker. The
bound breaks only if a worker goes to sleep while a task waits, and that is what
`TestStillHolds` excludes: between the test and the sleep the worker is the `holder` of the
mutex (`MutexHolder`), and nobody else can enqueue or stop. `StopReachesAll` needs the same fact,
and that `stop` is set once the clients have ended (`StopIsLast`). `NothingDropped` needs
that a task not on the queue is being run or finished (`TakenIsRun`), which needs that
the queue is the last numbers in order (`TasksInOrder`), and that a worker leaves only
when no task will come again (`LeftForGood`). There is a lemma per part of `IInv`, with a step per
action. The refinement maps `Enqueue` to `Submit`, `Take` to `Start`, `Run` to `Finish`, `Exit` to `Leave`,
`Stop` to `Close`, and all else to a stutter.

`RandomProofs` proves, for every set of threads and all `Half` and `A` with `2 * A <= Half` and no
product of `A` with 1 .. `M` - 1 a multiple of `M` (which holds of 2^31 and 16807, since `M` is prime):

| Theorem | Statement |
|---|---|
| `RandomInvariance` | `Spec => []IInv` |
| `ExactCalls`, `SeedsNeverStick` | `ExactWhenAlone`, `SticksOnlyAfterRace` |
| `StuckStays` | `StuckForever` |

So what the run shows of three bits holds of the generator of the program. The arithmetic comes
first: the shift and the mask keep the remainder modulo `M` (`ReduceIsMod`), since `Half` is `M` + 1, and leave at
most 2 `M` of a seed up to `M` (`ReduceSeed`), so that one subtraction is enough. The invariant
says where the exact number is at each step of the one call under way (`StepAgrees`): in `reg` before a
store, in `seed` after it. It is stated for states without an overlap only; what holds with overlaps
is `TypeOK`, that is, that no sum leaves the word before the subtraction, and `StuckForever`, which needs
that zero and `M` are fixed points of `Reduce` (`ReduceStuck`).

`LogFilesProofs` proves, for any sizes of keys, logs and files (a log of 0 included), any number of
keys, any word and any first number in it:

| Theorem | Statement |
|---|---|
| `LogInvariance` | `Spec => []IInv` |
| `KeysAreLogged` | `CoveredUntilReopened` |
| `LogsOverrun` | `OverrunsWhenTooLong` |

`Covered` is the property for all lists, flushed ones included. It is preserved since a write goes to
the file of the newest list (`CurrentNewest`), which is the file of an older list only if the names are
equal, and to a place behind those of the keys of the newest list (`CurrentPlaced`). `SizeCounted` ties
the bump pointer to `cur_mem_skiplist_size_`, on which `Insert` decides to flush; from it, no list has more keys than
fill one, and a list that is flushed for its size has as many (`UpToFull`). Of `Name` the proofs use nothing: they hold
for every way to name files, and which lists get one name is what `Name` says.

`PersistentSkipListProofs` proves, for one thread (`OneThread`) whose keys are distinct
(`KeyingsInject`), any number of Inserts in any order and any maximal height:

| Theorem | Statement |
|---|---|
| `ListInvariance` | `Spec => []IInv` |
| `SearchFindsPlace`, `FingersAlwaysFit` | `PlaceFound`, `FingersFit` |
| `OnePointerLags`, `KeysOfPredecessors` | `NvmLagsByOnePointer`, `PredecessorsHaveKeys` |
| `PrintFindsOrder`, `WalksMeetEveryNode` | `InOrder`, `NothingCutOff` |
| `PowerFailureIsSafe` | `CrashSafe` |
| `DurableSetImplemented` | `Spec => ImplementsDurableSet` |

The two assumptions are hypotheses of the theorems and not of the module, since
the run `skiplist_two_flushers` is about what happens without the first. One thread is
what the list is made for. The driver's keys are distinct while `ops_num` is below 10^8
(`EveryPairHasItsKey`); section 3 says what an equal key does.

**The inductive invariant of the list.** The nodes of a level are a set, `On(i)`, defined by heights and by where
an Insert is, and not by walking the pointers. `Successors` says that each pointer of the level
leads to the next node of that set in order. `FingersFit`, with `Successors` at level 0, is what
makes the shortcut of `Insert` right: if the key fits between `prev_[0]` and its successor, no
node of any level is between `prev_[i]` and the key (`PlaceAtFinger`). `SearchPlaces` is the loop invariant of the
search, with `PlaceAtDescent` for the step down. `LinkPlaces` carries the places of the levels that
are not linked yet through the loop that links, since `prev_` changes level by level. The step that
matters is the store of `prev_[i]->SetNext` (`LinkedInOrder`): the new node has taken over
the successor of its place, so the level is in order before and after. What is in NVM follows from
what the CPU sees: `NvmLagsByOnePointer`, and `KeysWritten`, which `PredecessorsHaveKeys` needs because the cache
may write back at any time.

**Walks.** `Reach` collects what is met along pointers in N + 1 rounds. A set that holds the head and
what its nodes point at holds all of it (`ReachInside`), and N + 1 rounds close it
(`ReachClosed`), since each round that is not the last adds a node (`ChainStops`). So a node n is met if every node met in front
of it points at n or at another in front of it: otherwise take the one met that is nearest to
n (`WalkMeets`). For the CPU that is `Successors`. For NVM one pointer may differ
(`PointerInNvm`), and `CrashSafe` needs to know what it is before it is persisted: `OldPointer` says that it is torn or still leads to the node behind
the new one, so that the walk passes the node in flight and no other (`NvmOnTheWay`).

The refinement maps the store of `prev_[0]->SetNext` to `Add`, its persist or write back to `Persist`,
a write back of half of it to `Tear`, and all else to a stutter. `SetsAreSo` gives both sets of
`DurableSet` in terms of `On(0)` and of one pointer, which each action leaves alone or changes in one way.

`MemorySkipListProofs` proves, for any number of Inserts, any keys, equal ones included, and any maximal height:

| Theorem | Statement |
|---|---|
| `Invariance` | `Spec => []IInv` |
| `FingersAreSound` | `ShortcutIsSound` |
| `WalksAreSorted` | `LevelsSorted` |
| `DestructorIsComplete` | `DeletesEachNodeOnce` |

**The inductive invariant of the list in DRAM.** `NodesMade`, `Successors` and `FingersFit` say of a whole `Insert`
what their namesakes say of the NVM list between two; here equal keys are in the order (`Precedes`), the
later one first, which is what `Below` makes of them. On each level a key has one place, and
no other node is it (`OnePlace`). A search ends there from any node in front of it (`RightFinds`, `SearchFinds`), and so do the
comparisons with `prev_` (`PlaceFinds`); this is `ShortcutIsSound`. `DeletedSoFar` says that the nodes the destructor has
deleted are those in front of `cursor`, and `UpToSuccessor` that the next step adds `cursor` and
nothing else. `Overwrite` breaks the pointers of one node but keeps those of the list, because the copied
key is equal (`OverwritePreserves`).

`WorkloadProofs` proves, for any command lines, base, number of digits, heights, excess bytes and size of
the mapping that `WorkloadAssumption` allows:

| Theorem | Statement |
|---|---|
| `Invariance` | `Spec => []IInv` |
| `KeysTellPairsApart` | `EveryPairHasItsKey` |
| `PrintOutsFindOrder` | `NoOrderError` |
| `AllocationIsBounded` | `OverrunsOnlyIfTooSmall` |
| `NodesStayMisaligned` | `NodesMisaligned` |
| `ZeroDivisors` | `DividesByZero` |

**Digits.** A number below `KeyLimit` is padded to `Digits` digits (`PadIs`), and reading them gives the number back
(`NumberOfDigits`, `DecodedKey`), so that two pairs never have one key. The first
digit that differs decides which of two numbers is less (`DigitsDecide`); so the order of the bytes is that of
the pairs (`KeysInOrder`), which is what the print-outs check.

**Lists and bytes.** `Inserted` adds its key and keeps the order (`InsertedIs`, `InsertedSorted`), a fold of it adds a set
(`InsertsAre`), and the bytes of a list are at most those of nodes of full height and whole words (`ListSizeIs`).

**The inductive invariant of the driver.** `CountedPairs` bounds number and counter of a pair by `ops_num`, without which a key may be
longer than the format. `KeysPlaced` says that the keys in DRAM and in NVM are those of the pairs, each in one
place: a flushed key is then new to the NVM list, which `InsertedSorted` asks for. `BytesCounted` bounds `used` by the nodes of the list, and
their number by that of the pairs. `Reached` says which value sizes get past which division.
There is a lemma for each action that touches keys or bytes.

**How recursion is reasoned about.** `Search`, `Walk`, `Rest`, the folds: each is a function chosen by an equation. A
proof shows first that such a function exists, then what it is, both by counting. The claim is made a set of
numbers, which has a least member that fails or none (`LeastNumber`, `UpTo`), or a set of nodes, which has a last
one (`LastNode`), or a set of subsets, taken element by element (`OneByOne`). No theorem with an operator as
its parameter is needed.

**Only model-checked** are the liveness properties, which need fairness and `ENABLED` and so are outside TLAPS:
`BlockedWriterResumes`, `QueuedListServed`, `WriterDoneThenExit`, `EveryInsertEnds`, `EveryTaskRuns`, `PoolEnds`
and `CyclesWhenAlone`. Every other property of a passing run is stated by a theorem. The runs that expect
a violation show what the code does in one instance, and need no proof.

## 5. Plan

In this order; what is done is marked.

1. `FlushPipeline`, `WriteBehind`, proofs. *Done.*
2. `PersistentSkipList`, `DurableSet`, proofs. *Done*, walks, power failures and the refinement included.
3. `ThreadPool`, `TaskPool`, proofs. *Done.*
4. `MemorySkipList`, proofs. *Done.*
5. `LogFiles`, proofs. *Done.*
6. `Workload`, proofs: parameters, keys, allocator. *Done.*
7. `Random`, proofs. *Done.*
8. Left: an abstract sorted set that `MemorySkipList` implements, which is what `FlushPipeline` takes a list for;
   and that no list stays on the queue as long as `is_running_` is not cleared behind a push.

## 6. Not modelled

* `libpmem.h` (third party): `pmem_persist` makes a store durable. That the mapping
  is persistent memory, which the allocator asks for and does not check, is
  assumed.
* In the other models heights and numbers are chosen freely: what the generator can return
  after a race is only known to `Random`.
* `AEP_LOG` and the varints (`log_batch.cc:9` to `110`): no code of the program makes an `AEP_LOG`, and
  only its own file calls `PutVarint32`. There is no state of the program in which they
  run, and so no schedule, no inputs and no properties that their callers rely on.
* `AllocateAligned`, `Reset`, `Uniform`, `OneIn`, `Skewed`, `Random64`, `Put_log`: called by nothing, or empty.
* Negative parameters, for which `atoi` and the conversions to unsigned decide, and a
  `VALUE_SIZE` too large for the stack, where both write functions keep the buffer they
  format in (`motivation1_main.cc:68`).
* Printing, timing and access counts; `test.cpp`, `test_pmem_memcpy.cc`,
  `log_batch.cc.bak` and `2.txt`, which are not part of the program.
* Recovery: the program has none; the crash properties are about the image that
  a recovery would start from.
