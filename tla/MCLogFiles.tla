----------------------------- MODULE MCLogFiles -----------------------------
(* LogFiles for TLC.  The word is smaller than 2^32 because TLC's integers *)
(* are; it still has numbers of ten digits, negative ones, and wraps.      *)
EXTENDS LogFiles

\* Numbers before a change of file name, or of the length of the number, before
\* the sign and before the wrap, and others.
SomeNumbers ==
  {0, 8, 27, 98, 99999997, 100000098, 999999998, 1000000007, Word - 101, Word - 3, Word - 1}
============================================================================
