-------------------------- MODULE MCMemorySkipList --------------------------
(* MemorySkipList for TLC.                                                 *)
EXTENDS MemorySkipList

SmallKeys == 1 .. N
============================================================================
