------------------------------- MODULE Random -------------------------------
(***************************************************************************)
(* random.h and random.cc: the generator behind the numbers of the test    *)
(* and the heights of both skip lists.  The build has no thread-local      *)
(* storage, so that GetTLSInstance gives the writer and the workers one    *)
(* instance, and Next() is a read, a store, a test, and perhaps a read and *)
(* a store again of a seed_ they all share.                                *)
(*                                                                         *)
(* The program has Half = 2^31 and A = 16807; a run takes a smaller power  *)
(* of two and a primitive root of the smaller M.                           *)
(***************************************************************************)
EXTENDS Integers

CONSTANTS
  Threads,  \* threads that draw numbers
  Writer,   \* the thread of write_to_dram or write_to_nvm
  Half,     \* 2^31, where >> 31 cuts and & M ends
  A,        \* the multiplier
  Seeds     \* what the hash of the writer's thread id may be

M == Half - 1
Word == 2 * Half

\* 2 * A <= Half keeps the first reduction in the word of seed_; no product
\* with A is a multiple of M, since M is prime.
ASSUME RandomAssumption ==
  /\ Writer \in Threads
  /\ Half \in Nat /\ A \in Nat \ {0} /\ 2 * A <= Half
  /\ \A s \in 1 .. M - 1 : (s * A) % M # 0
  /\ Seeds \subseteq Nat

VARIABLES
  seed,      \* seed_, or Unset before the instance is there
  pc,        \* where each thread is in Next()
  reg,       \* what each thread has read and not yet stored
  raced,     \* two calls of Next() have overlapped
  stuckAtM,  \* the instance was made with seed M
  exact      \* the seed by the definition, (s * A) % M for every call

vars == <<seed, pc, reg, raced, stuckAtM, exact>>

Unset == -1

\* Mutant: the seed is masked and not tested.
MaskedSeed(s) == s % Half

\* s & M has M + 1 values; only 0 is replaced.
GoodSeed(s) == IF s % Half # 0 THEN s % Half ELSE 1

\* Mutant: the high part is shifted one bit too few.
ShiftedShort(p) == (p \div (Half \div 2)) + (p % Half)

\* (product >> 31) + (product & M)
Reduce(p) == (p \div Half) + (p % Half)

Init ==
  /\ seed = Unset /\ exact = Unset
  /\ pc = [t \in Threads |-> "idle"]
  /\ reg = [t \in Threads |-> 0]
  /\ raced = FALSE /\ stuckAtM = FALSE

Goes(t, from, to) == pc[t] = from /\ pc' = [pc EXCEPT ![t] = to]

---------------------------------------------------------------------------
\* The first call of GetTLSInstance.  It is the writer's: the workers have
\* no list to flush before the writer has drawn a number.
GetTLSInstance ==
  /\ seed = Unset
  /\ \E s \in Seeds : seed' = GoodSeed(s)
  /\ exact' = seed' /\ stuckAtM' = (seed' = M)
  /\ UNCHANGED <<pc, reg, raced>>

\* product = seed_ * A, and the reduction of it, which is local.
Multiply(t) ==
  /\ seed # Unset
  /\ Goes(t, "idle", "reduce")
  /\ reg' = [reg EXCEPT ![t] = Reduce(seed * A)]
  /\ raced' = (raced \/ \E u \in Threads : pc[u] # "idle")
  /\ exact' = (exact * A) % M
  /\ UNCHANGED <<seed, stuckAtM>>

StoreReduced(t) ==
  /\ Goes(t, "reduce", "test")
  /\ seed' = reg[t]
  /\ reg' = [reg EXCEPT ![t] = 0]
  /\ UNCHANGED <<raced, stuckAtM, exact>>

\* Mutant: the second subtraction is left out.
NeverTooBig == FALSE

TooBig == seed > M

Test(t) ==
  /\ Goes(t, "test", IF TooBig THEN "subtract" ELSE "return")
  /\ UNCHANGED <<seed, reg, raced, stuckAtM, exact>>

\* seed_ -= M reads seed_ again, and wraps as uint32_t does.
Subtract(t) ==
  /\ Goes(t, "subtract", "store")
  /\ reg' = [reg EXCEPT ![t] = (seed - M) % Word]
  /\ UNCHANGED <<seed, raced, stuckAtM, exact>>

StoreSubtracted(t) ==
  /\ Goes(t, "store", "return")
  /\ seed' = reg[t]
  /\ reg' = [reg EXCEPT ![t] = 0]
  /\ UNCHANGED <<raced, stuckAtM, exact>>

\* return seed_ reads it once more.
Return(t) ==
  /\ Goes(t, "return", "idle")
  /\ UNCHANGED <<seed, reg, raced, stuckAtM, exact>>

Step(t) ==
  \/ Multiply(t) \/ StoreReduced(t) \/ Test(t)
  \/ Subtract(t) \/ StoreSubtracted(t) \/ Return(t)

Next == GetTLSInstance \/ \E t \in Threads : Step(t)

Spec == Init /\ [][Next]_vars

\* The writer draws its next number when it has inserted the last one.  The
\* workers draw one only when they have a key to insert, perhaps never.
Fairness == WF_vars(GetTLSInstance) /\ WF_vars(Step(Writer))
FairSpec == Spec /\ Fairness

---------------------------------------------------------------------------
\* The variables have their types, and reg holds what fits the word.
TypeOK ==
  /\ seed \in 0 .. Word - 1 \cup {Unset}
  /\ pc \in [Threads -> {"idle", "reduce", "test", "subtract", "store", "return"}]
  /\ reg \in [Threads -> 0 .. Word - 1]
  /\ raced \in BOOLEAN /\ stuckAtM \in BOOLEAN
  /\ exact \in 0 .. M \cup {Unset}

Stuck == seed # Unset /\ seed % M = 0

\* While no two calls overlapped, the shift, the mask and the subtraction
\* compute what the comment promises, (seed_ * A) % M, after any number of
\* calls, and return at most kMaxNext (random.h:33, 41-57).  With an overlap
\* the last read of seed_ may see the first reduction of another thread.
ExactWhenAlone ==
  /\ TypeOK
  /\ ~raced => \A t \in Threads :
       pc[t] = "return" => seed \in 0 .. M /\ seed % M = exact % M

\* seed_ becomes zero or M only by an overlap of two calls, or because the
\* hash of the thread id had the bits of M, which GoodSeed lets through
\* (random.h:30, 44).
SticksOnlyAfterRace == Stuck => raced \/ stuckAtM

\* Once seed_ is zero or M and no thread is about to subtract, it stays zero
\* or M for ever, whatever the threads do (random.h:44-45), and RandomHeight
\* gives one height only.  A thread caught before its subtraction may still
\* get it out: three threads find M, 0 and 0 - M.
AllStuck ==
  /\ seed \in {0, M}
  /\ \A t \in Threads : reg[t] \in {0, M} /\ pc[t] \notin {"subtract", "store"}
StuckForever == [][AllStuck => AllStuck']_vars

\* From when the workers are idle for good, the seeds cycle through every
\* number in [1, M-1] (random.h:45-46), also after the overlaps there were,
\* unless one of them left zero or M.
WorkersIdle == \A t \in Threads \ {Writer} : pc[t] = "idle"
CyclesWhenAlone ==
  <>[]WorkersIdle => <>[]Stuck \/ \A v \in 1 .. M - 1 : []<>(seed = v)

---------------------------------------------------------------------------
(* The inductive invariant behind the safety properties.                   *)

\* The instance and the number that follows the definition begin together,
\* and nobody is inside Next() before that.
BeginTogether ==
  /\ seed = Unset <=> exact = Unset
  /\ seed = Unset => \A t \in Threads : pc[t] = "idle"

OneCall == \A t, u \in Threads : pc[t] # "idle" /\ pc[u] # "idle" => t = u

AgreesUpTo(x, bound) == x \in 0 .. bound /\ x % M = exact % M

\* Where the exact number is while one call of Next() is under way: in seed_
\* or in what the caller is about to store there.
StepAgrees(t) ==
  /\ pc[t] = "reduce" => AgreesUpTo(reg[t], 2 * M)
  /\ pc[t] \in {"test", "subtract"} => AgreesUpTo(seed, 2 * M)
  /\ pc[t] = "subtract" => TooBig
  /\ pc[t] = "store" => AgreesUpTo(reg[t], M)
  /\ pc[t] = "return" => AgreesUpTo(seed, M)

NoRaceAgrees ==
  ~raced =>
    /\ OneCall
    /\ \A t \in Threads : StepAgrees(t)
    /\ (\A t \in Threads : pc[t] = "idle") /\ seed # Unset => AgreesUpTo(seed, M)

\* The exact number is never a multiple of M unless it began as one, and
\* neither is seed_ while no calls overlap.
NeverZero ==
  seed # Unset /\ ~stuckAtM => exact % M # 0 /\ (~raced => seed % M # 0)

IInv == TypeOK /\ BeginTogether /\ NoRaceAgrees /\ NeverZero
=============================================================================
