---------------------------- MODULE WriteBehind ----------------------------
(***************************************************************************)
(* What the DRAM write path promises, without threads, queues or locks: a  *)
(* key written goes to a buffer in DRAM, the buffer is handed over as a    *)
(* whole, and a key is given to the list in NVM at most once, never before *)
(* its buffer was handed over.  That every key is, is not promised: Spec   *)
(* has no fairness, a key may be pending for ever, and in FlushPipeline,   *)
(* which implements this up to the first failed assertion, some are.       *)
(***************************************************************************)
EXTENDS Integers

CONSTANT OpsNum  \* number of keys to write; key k is the k-th

VARIABLES
  written,  \* keys written so far: 1 .. written
  dram,     \* keys in the buffer being filled
  pending,  \* keys handed over and not yet given to the NVM list
  copied    \* keys given to the NVM list

vars == <<written, dram, pending, copied>>

Init == written = 0 /\ dram = {} /\ pending = {} /\ copied = {}

Write ==
  /\ written < OpsNum
  /\ written' = written + 1
  /\ dram' = dram \union {written + 1}
  /\ UNCHANGED <<pending, copied>>

HandOver ==
  /\ pending' = pending \union dram
  /\ dram' = {}
  /\ UNCHANGED <<written, copied>>

Drain(k) ==
  /\ k \in pending
  /\ pending' = pending \ {k}
  /\ copied' = copied \union {k}
  /\ UNCHANGED <<written, dram>>

Next == Write \/ HandOver \/ \E k \in 1 .. OpsNum : Drain(k)

Spec == Init /\ [][Next]_vars

\* Every key written is in exactly one of the three places: none drops out on
\* the way to NVM, where it may stay, and none is copied twice.
EveryKeyInOnePlace ==
  /\ 1 .. written = dram \union pending \union copied
  /\ dram \intersect pending = {}
  /\ dram \intersect copied = {}
  /\ pending \intersect copied = {}
============================================================================
