-------------------------- MODULE MCFlushPipeline --------------------------
(* FlushPipeline for TLC: the workers of the pool are interchangeable.     *)
EXTENDS FlushPipeline, TLC

WorkerSymmetry == Permutations(Workers)
============================================================================
