------------------------------ MODULE TaskPool ------------------------------
(***************************************************************************)
(* What a thread pool promises: tasks are taken in the order they were     *)
(* submitted, each by one worker, which runs one task at a time.  Once the *)
(* pool is closed workers leave, but only when no task waits.              *)
(***************************************************************************)
EXTENDS Integers, Sequences

CONSTANT Workers

VARIABLES
  submitted,  \* number of tasks submitted; a task is its number
  waiting,    \* the tasks not yet taken
  running,    \* the task of each worker, 0 for none
  closed,     \* no more tasks are accepted
  left        \* the workers that have left

vars == <<submitted, waiting, running, closed, left>>

Init ==
  /\ submitted = 0 /\ waiting = <<>>
  /\ running = [w \in Workers |-> 0]
  /\ closed = FALSE /\ left = {}

Submit ==
  /\ ~closed
  /\ submitted' = submitted + 1
  /\ waiting' = Append(waiting, submitted + 1)
  /\ UNCHANGED <<running, closed, left>>

Start(w) ==
  /\ w \notin left /\ running[w] = 0 /\ waiting # <<>>
  /\ running' = [running EXCEPT ![w] = Head(waiting)]
  /\ waiting' = Tail(waiting)
  /\ UNCHANGED <<submitted, closed, left>>

Finish(w) ==
  /\ running[w] # 0
  /\ running' = [running EXCEPT ![w] = 0]
  /\ UNCHANGED <<submitted, waiting, closed, left>>

Close ==
  /\ closed' = TRUE
  /\ UNCHANGED <<submitted, waiting, running, left>>

Leave(w) ==
  /\ closed /\ waiting = <<>> /\ running[w] = 0
  /\ left' = left \union {w}
  /\ UNCHANGED <<submitted, waiting, running, closed>>

Next ==
  \/ Submit \/ Close
  \/ \E w \in Workers : Start(w) \/ Finish(w) \/ Leave(w)

Spec == Init /\ [][Next]_vars
============================================================================
