------------------------ MODULE MCPersistentSkipList ------------------------
(* PersistentSkipList for TLC: the orders in which keys may arrive.        *)
EXTENDS PersistentSkipList, TLC

DistinctKeys == Permutations(1 .. N)
============================================================================
