---------------------------- MODULE RandomProofs ----------------------------
(***************************************************************************)
(* Proofs about Random, for any number of threads and any modulus and      *)
(* multiplier that RandomAssumption allows, those of the program among     *)
(* them: what a call returns when it is alone, and what a seed of zero or  *)
(* M leads to.  The first section is arithmetic modulo M.                  *)
(***************************************************************************)
EXTENDS Random, TLAPS

---------------------------------------------------------------------------
(* Arithmetic.                                                             *)

\* What division with a remainder gives.
LEMMA DivMod ==
  ASSUME NEW p \in Nat, NEW d \in Nat \ {0}
  PROVE  /\ p = (p \div d) * d + (p % d)
         /\ p % d \in 0 .. d - 1 /\ p \div d \in Nat
OBVIOUS

\* The quotient and the remainder can be read off a sum: there is one of each.
LEMMA DivModIs ==
  ASSUME NEW p \in Nat, NEW q \in Nat, NEW d \in Nat \ {0},
         NEW r \in 0 .. d - 1, p = q * d + r
  PROVE  p \div d = q /\ p % d = r
<1> DEFINE t == p \div d
           s == p % d
<1>1. p = t * d + s /\ s \in 0 .. d - 1 /\ t \in Nat
  BY DivMod
<1> HIDE DEF t, s
<1>2. q * d + r = t * d + s
  BY <1>1
<1>4. CASE q < t
  <2>1. t * d >= (q + 1) * d
    BY <1>1, <1>4
  <2> QED
    BY <1>1, <1>2, <2>1
<1>5. CASE t < q
  <2>1. q * d >= (t + 1) * d
    BY <1>1, <1>5
  <2> QED
    BY <1>1, <1>2, <2>1
<1>3. q = t /\ r = s
  BY <1>1, <1>2, <1>4, <1>5
<1> QED
  BY <1>3 DEF t, s

\* A multiple of d does not change the remainder.
LEMMA ModPlusMultiple ==
  ASSUME NEW x \in Nat, NEW k \in Nat, NEW d \in Nat \ {0}
  PROVE  (x + k * d) % d = x % d
<1> DEFINE y == x + k * d
           q == x \div d
           r == x % d
<1>1. x = q * d + r /\ r \in 0 .. d - 1 /\ q \in Nat
  BY DivMod
<1>2. y \in Nat
  OBVIOUS
<1>3. y = x + k * d
  OBVIOUS
<1> HIDE DEF y, q, r
<1>4. y = (q + k) * d + r /\ q + k \in Nat
  BY <1>1, <1>3
<1>5. y % d = r
  BY <1>1, <1>2, <1>4, DivModIs, Zenon
<1> QED
  BY <1>5 DEF y, r

\* The remainder of a product is that of the product of the remainder.
LEMMA ModTimes ==
  ASSUME NEW x \in Nat, NEW c \in Nat, NEW d \in Nat \ {0}
  PROVE  (x * c) % d = ((x % d) * c) % d
<1>1. x = (x \div d) * d + (x % d) /\ x % d \in Nat /\ x \div d \in Nat
  BY DivMod
<1> DEFINE q == x \div d
           r == x % d
<1>2. x = q * d + r /\ q \in Nat /\ r \in Nat
  BY <1>1
<1> HIDE DEF q, r
<1>3. x * c = r * c + (q * c) * d
  BY <1>2
<1>4. r * c \in Nat /\ q * c \in Nat
  BY <1>2
<1>6. (r * c + (q * c) * d) % d = (r * c) % d
  BY <1>4, ModPlusMultiple, Zenon
<1>5. (x * c) % d = (r * c) % d
  BY <1>3, <1>6, Zenon
<1> QED
  BY <1>5 DEF r

\* A remainder is its own remainder.
LEMMA ModSmall ==
  ASSUME NEW d \in Nat \ {0}, NEW r \in 0 .. d - 1
  PROVE  r % d = r
<1>1. r \in Nat /\ r = 0 * d + r
  OBVIOUS
<1>2. 0 \in Nat
  OBVIOUS
<1> QED
  BY <1>1, <1>2, DivModIs, Zenon

---------------------------------------------------------------------------
(* The two steps of the reduction.                                         *)

\* The sizes of M and of the word.
LEMMA Sizes ==
  /\ Half \in Nat \ {0, 1} /\ M \in Nat \ {0} /\ Word \in Nat
  /\ Half = M + 1 /\ Word = 2 * M + 2 /\ A \in Nat \ {0} /\ A <= M
BY RandomAssumption DEF M, Word

\* The shift and the mask keep the remainder modulo M.
LEMMA ReduceIsMod ==
  ASSUME NEW p \in Nat
  PROVE  Reduce(p) \in Nat /\ Reduce(p) % M = p % M
<1> DEFINE q == p \div Half
           r == p % Half
<1>0. Half \in Nat \ {0} /\ M \in Nat \ {0}
  BY Sizes
<1>1. p = q * Half + r /\ q \in Nat /\ r \in 0 .. Half - 1
  BY <1>0, DivMod, Zenon
<1>2. Reduce(p) = q + r
  BY DEF Reduce
<1> HIDE DEF q, r
<1>3. q * Half = q * M + q
  BY <1>1, Sizes
<1>4. p = (q + r) + q * M /\ q + r \in Nat
  BY <1>0, <1>1, <1>3
<1>5. ((q + r) + q * M) % M = (q + r) % M
  BY <1>0, <1>1, <1>4, ModPlusMultiple, Zenon
<1> QED
  BY <1>2, <1>4, <1>5

\* They leave less than c + Half of a number below c * Half.
LEMMA ReduceBound ==
  ASSUME NEW p \in Nat, NEW c \in Nat, p < c * Half
  PROVE  Reduce(p) < c + M
<1> DEFINE q == p \div Half
           r == p % Half
<1>0. Half \in Nat \ {0}
  BY Sizes
<1>1. p = q * Half + r /\ q \in Nat /\ r \in 0 .. Half - 1
  BY <1>0, DivMod, Zenon
<1>2. Reduce(p) = q + r
  BY DEF Reduce
<1> HIDE DEF q, r
<1>3. q < c
  <2>1. CASE q >= c
    <3>1. q * Half >= c * Half
      BY <1>1, <2>1, Sizes
    <3> QED
      BY <1>1, <3>1, Sizes
  <2> QED
    BY <1>1, <2>1
<1> QED
  BY <1>1, <1>2, <1>3, Sizes

\* The product of any word keeps to the word.
LEMMA ReduceWord ==
  ASSUME NEW s \in 0 .. Word - 1
  PROVE  s * A \in Nat /\ Reduce(s * A) \in 0 .. Word - 1
<1>1. s * A \in Nat
  BY Sizes
<1>2. s * A < (2 * A) * Half
  <2>1. s * A <= (Word - 1) * A
    BY Sizes
  <2>2. (Word - 1) * A < Word * A
    BY Sizes
  <2>3. Word * A = (2 * A) * Half
    BY Sizes
  <2> QED
    BY <1>1, <2>1, <2>2, <2>3, Sizes
<1>3. Reduce(s * A) < 2 * A + M
  <2>1. 2 * A \in Nat
    BY Sizes
  <2> QED
    BY <1>1, <1>2, <2>1, ReduceBound, Zenon
<1>4. 2 * A <= M + 1
  BY RandomAssumption DEF M
<1> QED
  <2>1. Reduce(s * A) \in Nat
    BY <1>1, ReduceIsMod, Zenon
  <2> QED
    BY <1>1, <1>3, <1>4, <2>1, Sizes

\* The product of a seed up to M needs one subtraction at most.
LEMMA ReduceSeed ==
  ASSUME NEW s \in 0 .. M
  PROVE  s * A \in Nat /\ Reduce(s * A) \in 0 .. 2 * M
<1>1. s * A \in Nat
  BY Sizes
<1>2. s * A < A * Half
  <2>1. s * A <= M * A
    BY Sizes
  <2>2. M * A < A * Half
    BY Sizes
  <2> QED
    BY <1>1, <2>1, <2>2, Sizes
<1>3. Reduce(s * A) < A + M
  <2>1. A \in Nat
    BY Sizes
  <2> QED
    BY <1>1, <1>2, <2>1, ReduceBound, Zenon
<1> QED
  <2>1. Reduce(s * A) \in Nat
    BY <1>1, ReduceIsMod, Zenon
  <2> QED
    BY <1>1, <1>3, <2>1, Sizes

\* Zero stays zero, and M stays M.
LEMMA ReduceStuck == Reduce(0 * A) = 0 /\ Reduce(M * A) = M
<1>1. Reduce(0 * A) = 0
  <2>1. 0 * A = 0
    BY Sizes
  <2>2. 0 \in Nat /\ Half \in Nat \ {0}
    BY Sizes
  <2>3. 0 = (0 \div Half) * Half + (0 % Half) /\ 0 % Half \in Nat /\ 0 \div Half \in Nat
    BY <2>2, DivMod
  <2>4. 0 \div Half = 0 /\ 0 % Half = 0
    BY <2>2, <2>3
  <2> QED
    BY <2>1, <2>4 DEF Reduce
<1>2. Reduce(M * A) = M
  <2> DEFINE p == M * A
  <2>1. p \in Nat /\ p = (A - 1) * Half + (Half - A)
    <3>1. (A - 1) * Half = A * Half - Half
      BY Sizes
    <3>2. M * A = A * Half - A
      BY Sizes
    <3>3. M * A \in Nat /\ A * Half \in Nat
      BY Sizes
    <3> QED
      BY <3>1, <3>2, <3>3, Sizes
  <2> HIDE DEF p
  <2>3. A - 1 \in Nat /\ Half - A \in 0 .. Half - 1 /\ Half \in Nat \ {0}
    BY Sizes
  <2>5. p \div Half = A - 1 /\ p % Half = Half - A
    BY <2>1, <2>3, DivModIs, Zenon
  <2>6. Reduce(p) = M
    BY <2>5, Sizes DEF Reduce
  <2> QED
    BY <2>6 DEF p
<1> QED
  BY <1>1, <1>2

---------------------------------------------------------------------------
(* The parts of the invariant.                                             *)

\* A seed is made between 1 and M.
LEMMA GoodSeedFacts ==
  ASSUME NEW s \in Nat
  PROVE  GoodSeed(s) \in 1 .. M
<1>1. s % Half \in 0 .. M
  BY Sizes, DivMod
<1> QED
  BY <1>1, Sizes DEF GoodSeed

\* What the first call does.
LEMMA InstanceFacts ==
  ASSUME GetTLSInstance
  PROVE  /\ seed' \in 1 .. M /\ exact' = seed' /\ (stuckAtM' <=> seed' = M)
         /\ seed = Unset /\ UNCHANGED <<pc, reg, raced>>
<1>1. PICK s \in Seeds : seed' = GoodSeed(s)
  BY DEF GetTLSInstance
<1>2. seed' \in 1 .. M
  BY <1>1, GoodSeedFacts, RandomAssumption
<1> QED
  BY <1>2, Zenon DEF GetTLSInstance

\* The next exact number.
LEMMA ExactFacts ==
  ASSUME NEW e \in Nat
  PROVE  /\ (e * A) % M \in 0 .. M - 1
         /\ ((e * A) % M) % M = (e * A) % M
         /\ (e * A) % M = ((e % M) * A) % M
<1>1. e * A \in Nat /\ A \in Nat /\ M \in Nat \ {0}
  BY Sizes
<1>2. (e * A) % M \in 0 .. M - 1
  BY <1>1, DivMod, Zenon
<1>3. ((e * A) % M) % M = (e * A) % M
  BY <1>1, <1>2, ModSmall, Zenon
<1>4. (e * A) % M = ((e % M) * A) % M
  BY <1>1, ModTimes, Zenon
<1> QED
  BY <1>2, <1>3, <1>4

\* The invariant holds at first.
LEMMA InitInv == Init => IInv
<1> SUFFICES ASSUME Init PROVE IInv
  OBVIOUS
<1>1. raced \in BOOLEAN /\ stuckAtM \in BOOLEAN
  BY Zenon DEF Init
<1>2. TypeOK
  BY <1>1, Sizes DEF Init, TypeOK
<1>3. BeginTogether
  BY DEF Init, BeginTogether
<1>4. NoRaceAgrees
  BY DEF Init, NoRaceAgrees, OneCall, StepAgrees
<1>5. NeverZero
  BY DEF Init, NeverZero
<1> QED
  BY <1>2, <1>3, <1>4, <1>5 DEF IInv

\* Every number fits the word of seed_.
LEMMA TypePreserved ==
  ASSUME TypeOK, BeginTogether, Next
  PROVE  TypeOK'
<1> USE Sizes DEF Goes
<1>1. CASE GetTLSInstance
  <2>1. stuckAtM' \in BOOLEAN
    BY <1>1, Zenon DEF GetTLSInstance
  <2> QED
    BY <1>1, <2>1, InstanceFacts DEF TypeOK
<1>2. ASSUME NEW t \in Threads, Multiply(t) PROVE TypeOK'
  <2>1. seed \in 0 .. Word - 1 /\ exact \in Nat
    BY <1>2 DEF TypeOK, BeginTogether, Multiply
  <2>2. Reduce(seed * A) \in 0 .. Word - 1
    BY <2>1, ReduceWord
  <2>3. exact' \in 0 .. M \union {Unset}
    BY <1>2, <2>1, ExactFacts DEF Multiply
  <2>4. raced' \in BOOLEAN
    BY <1>2, Zenon DEF Multiply
  <2>5. reg' \in [Threads -> 0 .. Word - 1]
    BY <1>2, <2>2 DEF TypeOK, Multiply
  <2>6. pc' \in [Threads -> {"idle", "reduce", "test", "subtract", "store", "return"}]
    BY <1>2 DEF TypeOK, Multiply
  <2> QED
    BY <1>2, <2>3, <2>4, <2>5, <2>6 DEF TypeOK, Multiply
<1>3. ASSUME NEW t \in Threads, StoreReduced(t) \/ StoreSubtracted(t)
      PROVE  TypeOK'
  <2>1. seed' \in 0 .. Word - 1
    BY <1>3 DEF TypeOK, StoreReduced, StoreSubtracted
  <2>2. reg' \in [Threads -> 0 .. Word - 1]
    BY <1>3 DEF TypeOK, StoreReduced, StoreSubtracted
  <2>3. pc' \in [Threads -> {"idle", "reduce", "test", "subtract", "store", "return"}]
    BY <1>3 DEF TypeOK, StoreReduced, StoreSubtracted
  <2> QED
    BY <1>3, <2>1, <2>2, <2>3 DEF TypeOK, StoreReduced, StoreSubtracted
<1>4. ASSUME NEW t \in Threads, Subtract(t) PROVE TypeOK'
  <2>1. (seed - M) % Word \in 0 .. Word - 1
    BY DEF TypeOK, Unset
  <2>2. reg' \in [Threads -> 0 .. Word - 1]
    BY <1>4, <2>1 DEF TypeOK, Subtract
  <2>3. pc' \in [Threads -> {"idle", "reduce", "test", "subtract", "store", "return"}]
    BY <1>4 DEF TypeOK, Subtract
  <2> QED
    BY <1>4, <2>2, <2>3 DEF TypeOK, Subtract
<1>5. ASSUME NEW t \in Threads, Test(t) \/ Return(t) PROVE TypeOK'
  <2>1. pc' \in [Threads -> {"idle", "reduce", "test", "subtract", "store", "return"}]
    BY <1>5 DEF TypeOK, Test, Return
  <2> QED
    BY <1>5, <2>1 DEF TypeOK, Test, Return
<1> QED
  BY <1>1, <1>2, <1>3, <1>4, <1>5 DEF Next, Step

\* Nobody is inside Next() before the instance is there, and it stays there.
LEMMA BeginPreserved ==
  ASSUME TypeOK, TypeOK', BeginTogether, Next
  PROVE  BeginTogether'
<1> USE Sizes DEF Goes, Unset
<1>1. CASE GetTLSInstance
  BY <1>1, InstanceFacts DEF BeginTogether
<1>2. ASSUME NEW t \in Threads, Multiply(t) PROVE BeginTogether'
  <2>1. exact \in Nat /\ seed # Unset
    BY <1>2 DEF TypeOK, BeginTogether, Multiply
  <2> QED
    BY <1>2, <2>1, ExactFacts DEF BeginTogether, Multiply
<1>3. ASSUME NEW t \in Threads, StoreReduced(t) \/ StoreSubtracted(t)
      PROVE  BeginTogether'
  BY <1>3 DEF TypeOK, BeginTogether, StoreReduced, StoreSubtracted
<1>4. ASSUME NEW t \in Threads, Subtract(t) \/ Test(t) \/ Return(t)
      PROVE  BeginTogether'
  BY <1>4 DEF TypeOK, BeginTogether, Subtract, Test, Return
<1> QED
  BY <1>1, <1>2, <1>3, <1>4 DEF Next, Step

\* A call that starts alone computes the next exact number.
LEMMA MultiplyAlone ==
  ASSUME TypeOK, BeginTogether, NEW t \in Threads, Multiply(t),
         AgreesUpTo(seed, M)
  PROVE  AgreesUpTo(reg[t], 2 * M)'
<1>1. seed \in 0 .. M /\ seed \in Nat /\ seed % M = exact % M
  BY Sizes DEF AgreesUpTo
<1>2. exact \in Nat /\ exact' = (exact * A) % M
  BY DEF TypeOK, BeginTogether, Multiply
<1>3. reg'[t] = Reduce(seed * A)
  BY DEF TypeOK, Multiply
<1>4. seed * A \in Nat /\ Reduce(seed * A) \in 0 .. 2 * M
  BY <1>1, ReduceSeed
<1>5. Reduce(seed * A) % M = (seed * A) % M
  BY <1>4, ReduceIsMod
<1>6. (seed * A) % M = ((exact % M) * A) % M
  BY <1>1, ExactFacts
<1>7. exact' % M = ((exact % M) * A) % M
  BY <1>2, ExactFacts
<1> QED
  BY <1>3, <1>4, <1>5, <1>6, <1>7 DEF AgreesUpTo

\* The subtraction is exact.
LEMMA SubtractAlone ==
  ASSUME AgreesUpTo(seed, 2 * M), TooBig
  PROVE  AgreesUpTo((seed - M) % Word, M)
<1>1. seed \in M + 1 .. 2 * M /\ seed % M = exact % M
  BY Sizes DEF AgreesUpTo, TooBig
<1>2. seed - M \in 0 .. M /\ seed - M \in 0 .. Word - 1 /\ Word \in Nat \ {0}
  BY <1>1, Sizes
<1>3. (seed - M) % Word = seed - M
  BY <1>2, ModSmall, Zenon
<1>4. seed - M \in Nat /\ 1 \in Nat /\ M \in Nat \ {0} /\ (seed - M) + 1 * M = seed
  BY <1>1, Sizes
<1>5. ((seed - M) + 1 * M) % M = (seed - M) % M
  BY <1>4, ModPlusMultiple, Zenon
<1>6. (seed - M) % M = exact % M
  BY <1>1, <1>4, <1>5
<1> QED
  BY <1>2, <1>3, <1>6 DEF AgreesUpTo

\* As long as no calls overlap, the exact number goes with the call.
LEMMA NoRacePreserved ==
  ASSUME TypeOK, BeginTogether, NoRaceAgrees, Next
  PROVE  NoRaceAgrees'
<1> SUFFICES ASSUME ~raced'
             PROVE  /\ OneCall'
                    /\ \A u \in Threads : StepAgrees(u)'
                    /\ (\A u \in Threads : pc'[u] = "idle") /\ seed' # Unset
                         => AgreesUpTo(seed, M)'
  BY Zenon DEF NoRaceAgrees
<1> USE DEF Goes
<1>0. ~raced
  BY Zenon DEF Next, Step, GetTLSInstance, Multiply, StoreReduced, Test, Subtract,
        StoreSubtracted, Return
<1>a. OneCall /\ (\A u \in Threads : StepAgrees(u))
        /\ ((\A u \in Threads : pc[u] = "idle") /\ seed # Unset => AgreesUpTo(seed, M))
  BY <1>0, Zenon DEF NoRaceAgrees
<1>b. ASSUME NEW t \in Threads, pc[t] # "idle", NEW u \in Threads, u # t
      PROVE  pc[u] = "idle"
  BY <1>a, <1>b DEF OneCall
<1>1. CASE GetTLSInstance
  <2>1. \A u \in Threads : pc'[u] = "idle"
    BY <1>1, InstanceFacts DEF BeginTogether
  <2>2. AgreesUpTo(seed, M)'
    BY <1>1, InstanceFacts, Sizes DEF AgreesUpTo
  <2> QED
    BY <2>1, <2>2 DEF OneCall, StepAgrees
<1>2. ASSUME NEW t \in Threads, Multiply(t)
      PROVE  /\ OneCall' /\ pc'[t] # "idle"
             /\ \A u \in Threads : StepAgrees(u)'
  <2>1. seed # Unset /\ \A u \in Threads : pc[u] = "idle"
    BY <1>2, Zenon DEF Multiply
  <2>2. AgreesUpTo(reg[t], 2 * M)'
    BY <1>2, <1>a, <2>1, MultiplyAlone
  <2>3. pc'[t] = "reduce" /\ \A u \in Threads \ {t} : pc'[u] = "idle"
    BY <1>2, <2>1 DEF TypeOK, Multiply
  <2> QED
    BY <2>2, <2>3 DEF OneCall, StepAgrees
<1>3. ASSUME NEW t \in Threads, StoreReduced(t)
      PROVE  /\ OneCall' /\ pc'[t] # "idle"
             /\ \A u \in Threads : StepAgrees(u)'
  <2>1. pc'[t] = "test" /\ \A u \in Threads \ {t} : pc'[u] = "idle"
    BY <1>3, <1>b DEF TypeOK, StoreReduced
  <2>2. AgreesUpTo(reg[t], 2 * M) /\ seed' = reg[t] /\ exact' = exact
    BY <1>3, <1>a DEF StepAgrees, StoreReduced
  <2>3. AgreesUpTo(seed, 2 * M)'
    BY <2>2 DEF AgreesUpTo
  <2> QED
    BY <2>1, <2>3 DEF OneCall, StepAgrees
<1>4. ASSUME NEW t \in Threads, Test(t)
      PROVE  /\ OneCall' /\ pc'[t] # "idle"
             /\ \A u \in Threads : StepAgrees(u)'
  <2>1. \A u \in Threads \ {t} : pc'[u] = "idle"
    BY <1>4, <1>b DEF TypeOK, Test
  <2>2. AgreesUpTo(seed, 2 * M) /\ seed' = seed /\ exact' = exact
    BY <1>4, <1>a DEF StepAgrees, Test
  <2>3. AgreesUpTo(seed, 2 * M)'
    BY <2>2 DEF AgreesUpTo
  <2>4. CASE TooBig
    <3>1. pc'[t] = "subtract" /\ TooBig'
      BY <1>4, <2>2, <2>4 DEF TypeOK, Test, TooBig
    <3> QED
      BY <2>1, <2>3, <3>1 DEF OneCall, StepAgrees
  <2>5. CASE ~TooBig
    <3>1. pc'[t] = "return"
      BY <1>4, <2>5 DEF TypeOK, Test
    <3>2. AgreesUpTo(seed, M)'
      BY <2>2, <2>5, Sizes DEF AgreesUpTo, TooBig
    <3> QED
      BY <2>1, <3>1, <3>2 DEF OneCall, StepAgrees
  <2> QED
    BY <2>4, <2>5
<1>5. ASSUME NEW t \in Threads, Subtract(t)
      PROVE  /\ OneCall' /\ pc'[t] # "idle"
             /\ \A u \in Threads : StepAgrees(u)'
  <2>1. pc'[t] = "store" /\ \A u \in Threads \ {t} : pc'[u] = "idle"
    BY <1>5, <1>b DEF TypeOK, Subtract
  <2>2. AgreesUpTo((seed - M) % Word, M)
    BY <1>5, <1>a, SubtractAlone DEF StepAgrees, Subtract
  <2>3. reg'[t] = (seed - M) % Word /\ exact' = exact
    BY <1>5 DEF TypeOK, Subtract
  <2>4. AgreesUpTo(reg[t], M)'
    BY <2>2, <2>3 DEF AgreesUpTo
  <2> QED
    BY <2>1, <2>4 DEF OneCall, StepAgrees
<1>6. ASSUME NEW t \in Threads, StoreSubtracted(t)
      PROVE  /\ OneCall' /\ pc'[t] # "idle"
             /\ \A u \in Threads : StepAgrees(u)'
  <2>1. pc'[t] = "return" /\ \A u \in Threads \ {t} : pc'[u] = "idle"
    BY <1>6, <1>b DEF TypeOK, StoreSubtracted
  <2>2. AgreesUpTo(reg[t], M) /\ seed' = reg[t] /\ exact' = exact
    BY <1>6, <1>a DEF StepAgrees, StoreSubtracted
  <2>3. AgreesUpTo(seed, M)'
    BY <2>2 DEF AgreesUpTo
  <2> QED
    BY <2>1, <2>3 DEF OneCall, StepAgrees
<1>7. ASSUME NEW t \in Threads, Return(t)
      PROVE  /\ OneCall' /\ AgreesUpTo(seed, M)'
             /\ \A u \in Threads : StepAgrees(u)'
  <2>1. \A u \in Threads : pc'[u] = "idle"
    BY <1>7, <1>b DEF TypeOK, Return
  <2>2. AgreesUpTo(seed, M) /\ seed' = seed /\ exact' = exact
    BY <1>7, <1>a DEF StepAgrees, Return
  <2>3. AgreesUpTo(seed, M)'
    BY <2>2 DEF AgreesUpTo
  <2> QED
    BY <2>1, <2>3 DEF OneCall, StepAgrees
<1> QED
  BY <1>1, <1>2, <1>3, <1>4, <1>5, <1>6, <1>7 DEF Next, Step

\* Zero and M are not reached from other seeds: M is prime to A.
LEMMA NeverZeroPreserved ==
  ASSUME TypeOK, BeginTogether, NoRaceAgrees, NeverZero, Next
  PROVE  NeverZero'
<1> USE DEF Goes
<1>1. CASE GetTLSInstance
  <2> SUFFICES ASSUME ~stuckAtM' PROVE seed' % M # 0 /\ exact' % M # 0
    BY DEF NeverZero
  <2>1. seed' \in 1 .. M /\ seed' # M /\ exact' = seed'
    BY <1>1, InstanceFacts
  <2>2. seed' \in 0 .. M - 1 /\ M \in Nat \ {0} /\ seed' # 0
    BY <2>1, Sizes
  <2>3. seed' % M = seed'
    BY <2>2, ModSmall, Zenon
  <2> QED
    BY <2>1, <2>2, <2>3
<1>2. ASSUME NEW t \in Threads, Multiply(t) PROVE NeverZero'
  <2> SUFFICES ASSUME ~stuckAtM PROVE exact' % M # 0 /\ (~raced' => seed % M # 0)
    BY <1>2 DEF NeverZero, Multiply
  <2>1. seed # Unset /\ exact % M # 0 /\ exact \in Nat
    BY <1>2 DEF Multiply, NeverZero, TypeOK, BeginTogether
  <2>2. ~raced' => seed % M # 0
    BY <1>2, <2>1, Zenon DEF Multiply, NeverZero
  <2>3. exact % M \in 1 .. M - 1
    BY <2>1, Sizes, DivMod
  <2>4. ((exact % M) * A) % M # 0
    BY <2>3, RandomAssumption DEF M
  <2>5. exact' % M = ((exact % M) * A) % M
    BY <1>2, <2>1, ExactFacts DEF Multiply
  <2> QED
    BY <2>2, <2>4, <2>5
<1>3. ASSUME NEW t \in Threads, StoreReduced(t) PROVE NeverZero'
  <2> SUFFICES ASSUME ~stuckAtM PROVE exact % M # 0 /\ (~raced => reg[t] % M # 0)
    BY <1>3 DEF NeverZero, StoreReduced
  <2>1. exact % M # 0
    BY <1>3 DEF NeverZero, BeginTogether, StoreReduced
  <2>2. ~raced => AgreesUpTo(reg[t], 2 * M)
    BY <1>3 DEF NoRaceAgrees, StepAgrees, StoreReduced
  <2> QED
    BY <2>1, <2>2 DEF AgreesUpTo
<1>4. ASSUME NEW t \in Threads, StoreSubtracted(t) PROVE NeverZero'
  <2> SUFFICES ASSUME ~stuckAtM PROVE exact % M # 0 /\ (~raced => reg[t] % M # 0)
    BY <1>4 DEF NeverZero, StoreSubtracted
  <2>1. exact % M # 0
    BY <1>4 DEF NeverZero, BeginTogether, StoreSubtracted
  <2>2. ~raced => AgreesUpTo(reg[t], M)
    BY <1>4 DEF NoRaceAgrees, StepAgrees, StoreSubtracted
  <2> QED
    BY <2>1, <2>2 DEF AgreesUpTo
<1>5. ASSUME NEW t \in Threads, Subtract(t) \/ Test(t) \/ Return(t)
      PROVE  NeverZero'
  <2>1. UNCHANGED <<seed, exact, raced, stuckAtM>>
    BY <1>5 DEF Subtract, Test, Return
  <2> QED
    BY <2>1 DEF NeverZero
<1> QED
  BY <1>1, <1>2, <1>3, <1>4, <1>5 DEF Next, Step

---------------------------------------------------------------------------
(* The invariant, and what follows from it.                                *)

\* The invariant is inductive.
LEMMA InvStep == IInv /\ [Next]_vars => IInv'
<1> SUFFICES ASSUME IInv, [Next]_vars PROVE IInv'
  OBVIOUS
<1>1. CASE Next
  <2>1. TypeOK' /\ BeginTogether'
    BY <1>1, TypePreserved, BeginPreserved DEF IInv
  <2>2. NoRaceAgrees' /\ NeverZero'
    BY <1>1, NoRacePreserved, NeverZeroPreserved DEF IInv
  <2> QED
    BY <2>1, <2>2 DEF IInv
<1>2. CASE UNCHANGED vars
  BY <1>2 DEF vars, IInv, TypeOK, BeginTogether, NoRaceAgrees, OneCall, StepAgrees,
              AgreesUpTo, TooBig, NeverZero
<1> QED
  BY <1>1, <1>2

\* The invariant holds however the calls overlap.
THEOREM RandomInvariance == Spec => []IInv
BY InitInv, InvStep, PTL DEF Spec

\* Calls that do not overlap return (seed_ * A) % M, at most kMaxNext.
THEOREM ExactCalls == Spec => []ExactWhenAlone
<1>1. ASSUME IInv PROVE ExactWhenAlone
  <2>1. TypeOK /\ NoRaceAgrees
    BY <1>1 DEF IInv
  <2> QED
    BY <2>1 DEF NoRaceAgrees, StepAgrees, AgreesUpTo, ExactWhenAlone
<1> QED
  BY <1>1, RandomInvariance, PTL

\* seed_ sticks only after an overlap, or when it began at M.
THEOREM SeedsNeverStick == Spec => []SticksOnlyAfterRace
<1>1. ASSUME IInv PROVE SticksOnlyAfterRace
  BY <1>1 DEF IInv, NeverZero, Stuck, SticksOnlyAfterRace
<1> QED
  BY <1>1, RandomInvariance, PTL

\* Once all threads are stuck at zero and M they stay so.
THEOREM StuckStays == Spec => StuckForever
<1>1. ASSUME IInv, [Next]_vars, AllStuck PROVE AllStuck'
  <2>0. TypeOK /\ seed \in {0, M} /\ seed # Unset
          /\ \A t \in Threads : reg[t] \in {0, M} /\ pc[t] \notin {"subtract", "store"}
    BY <1>1, Sizes DEF IInv, AllStuck, Unset
  <2> USE <2>0 DEF TypeOK, AllStuck, Goes
  <2>1. ASSUME NEW t \in Threads, Multiply(t) PROVE AllStuck'
    <3>1. Reduce(seed * A) \in {0, M}
      BY ReduceStuck
    <3> QED
      BY <2>1, <3>1 DEF Multiply
  <2>2. ASSUME NEW t \in Threads, StoreReduced(t) PROVE AllStuck'
    BY <2>2, Sizes DEF StoreReduced
  <2>3. ASSUME NEW t \in Threads, Test(t) PROVE AllStuck'
    BY <2>3, Sizes DEF Test, TooBig
  <2>4. ASSUME NEW t \in Threads, Subtract(t) \/ StoreSubtracted(t) PROVE AllStuck'
    BY <2>4 DEF Subtract, StoreSubtracted
  <2>5. ASSUME NEW t \in Threads, Return(t) PROVE AllStuck'
    BY <2>5 DEF Return
  <2>6. CASE GetTLSInstance
    BY <2>6 DEF GetTLSInstance
  <2>7. CASE UNCHANGED vars
    BY <2>7 DEF vars
  <2> QED
    BY <1>1, <2>1, <2>2, <2>3, <2>4, <2>5, <2>6, <2>7 DEF Next, Step
<1>2. IInv /\ [Next]_vars => [AllStuck => AllStuck']_vars
  BY <1>1
<1> QED
  BY <1>2, RandomInvariance, PTL DEF Spec, StuckForever
=============================================================================
