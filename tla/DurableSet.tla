----------------------------- MODULE DurableSet -----------------------------
(***************************************************************************)
(* What the skip list in NVM promises to a single writer: elements are     *)
(* added one at a time, never lost, and an element is durable before the   *)
(* next one is added.  Only in between may a power failure cost elements.  *)
(***************************************************************************)
EXTENDS Integers

CONSTANT N  \* elements are 1 .. N

VARIABLES
  contents,  \* the elements that a walk meets
  durable    \* those it would meet after a power failure

vars == <<contents, durable>>

Init == contents = {} /\ durable = {}

Add(n) ==
  /\ contents = durable /\ n \notin contents
  /\ contents' = contents \union {n}
  /\ UNCHANGED durable

\* The element that was added is written back in part.
Tear ==
  /\ contents # durable
  /\ durable' \in SUBSET durable
  /\ UNCHANGED contents

Persist ==
  /\ durable' = contents
  /\ UNCHANGED contents

Next == Persist \/ Tear \/ \E n \in 1 .. N : Add(n)

Spec == Init /\ [][Next]_vars
============================================================================
