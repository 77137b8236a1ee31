---------------------------- MODULE MCWorkload ----------------------------
(* Command lines for Workload: each test with every value size, the number *)
(* of keys below and, for the direct test, beyond Base ^ Digits = 4, and   *)
(* command lines that parse_input refuses.                                 *)
EXTENDS Workload

Line(num, test, value, ops, max) ==
  [num |-> num, test |-> test, value |-> value, ops |-> ops, max |-> max]

MCArgs ==
  {Line(8, 0, v, o, 1) : v \in {0, 1, 8, 2 ^ 20, 2 ^ 21}, o \in {0, 3, 5}}
    \cup {Line(8, 1, v, o, 20) : v \in {0, 1, 8, 2 ^ 20}, o \in {0, 3}}
    \cup {Line(7, 0, 8, 3, 1), Line(8, 2, 8, 3, 1), Line(8, 0, 12, 3, 1),
          Line(8, 1, 8, 3, 0), Line(8, 1, 8, 3, 21)}
===========================================================================
