--------------------------- MODULE WorkloadProofs ---------------------------
(***************************************************************************)
(* Proofs about Workload, for any command lines, base, number of digits    *)
(* and size of the mapping that WorkloadAssumption allows: while the       *)
(* counter fits its digits, the keys tell the pairs apart and are in their *)
(* order, and the bytes that the allocator hands out.                      *)
(*                                                                         *)
(* The digits come from recursive functions and the lists from folds: that *)
(* these exist and what they are follows by counting, with UpTo of         *)
(* NumberLemmas.                                                           *)
(***************************************************************************)
EXTENDS Workload, NumberLemmas, SequenceTheorems

USE WorkloadAssumption

---------------------------------------------------------------------------
(* Recursion.                                                              *)

\* f goes from a value in T one step after the other, m times.
Iterates(f, m, T, a, step) ==
  /\ f \in [0 .. m -> T] /\ f[0] = a
  /\ \A k \in 1 .. m : f[k] = step[<<k, f[k - 1]>>]

LEMMA Iteration ==
  ASSUME NEW m \in Nat, NEW T, NEW a \in T,
         NEW step \in [(1 .. m) \X T -> T]
  PROVE  \E f : Iterates(f, m, T, a, step)
<1> DEFINE Runs(f, n) == /\ f[0] = a
                         /\ \A k \in 1 .. n : f[k] = step[<<k, f[k - 1]>>]
           Good == {n \in 0 .. m : \E f \in [0 .. m -> T] : Runs(f, n)}
<1>1. 0 \in Good
  <2>1. [n \in 0 .. m |-> a] \in [0 .. m -> T]
    OBVIOUS
  <2>2. Runs([n \in 0 .. m |-> a], 0)
    <3>1. 0 \in 0 .. m /\ \A k \in 1 .. 0 : FALSE
      OBVIOUS
    <3> QED
      BY <3>1
  <2>3. 0 \in 0 .. m
    OBVIOUS
  <2> HIDE DEF Runs
  <2> QED
    BY <2>1, <2>2, <2>3
<1>2. ASSUME NEW n \in 0 .. m, n \in Good, n < m PROVE n + 1 \in Good
  <2>1. PICK f \in [0 .. m -> T] : Runs(f, n)
    BY <1>2
  <2>2. n + 1 \in 1 .. m /\ n + 1 \in 0 .. m /\ (n + 1) - 1 = n /\ n + 1 # 0
    BY <1>2
  <2> DEFINE g == [f EXCEPT ![n + 1] = step[<<n + 1, f[n]>>]]
  <2>3. g \in [0 .. m -> T]
    BY <2>1, <2>2
  <2>4. /\ g[n + 1] = step[<<n + 1, f[n]>>]
        /\ \A k \in 0 .. m : k # n + 1 => g[k] = f[k]
    <3>1. DOMAIN f = 0 .. m
      BY <2>1
    <3> QED
      BY <2>2, <3>1
  <2> HIDE DEF g
  <2>5. g[0] = a
    <3>1. 0 \in 0 .. m /\ 0 # n + 1
      BY <1>2
    <3>2. f[0] = a
      BY <2>1
    <3> QED
      BY <2>4, <3>1, <3>2
  <2>6. ASSUME NEW k \in 1 .. n + 1 PROVE g[k] = step[<<k, g[k - 1]>>]
    <3>1. k - 1 \in 0 .. m /\ k - 1 # n + 1 /\ k \in 0 .. m
      BY <2>2
    <3>2. CASE k = n + 1
      BY <2>2, <2>4, <3>1, <3>2
    <3>3. CASE k # n + 1
      <4>1. k \in 1 .. n
        BY <3>3
      <4> QED
        BY <2>1, <2>4, <3>1, <3>3, <4>1
    <3> QED
      BY <3>2, <3>3
  <2> QED
    BY <2>2, <2>3, <2>5, <2>6
<1>3. m \in Good
  <2> HIDE DEF Good
  <2> QED
    BY <1>1, <1>2, UpTo
<1> QED
  BY <1>3 DEF Iterates

\* A set of sets that holds {} and, with all that lack one element of a set,
\* that set, holds every finite set.
LEMMA OneByOne ==
  ASSUME NEW S, IsFiniteSet(S), NEW G, {} \in G,
         \A s \in SUBSET S : s # {} /\ (\A x \in s : s \ {x} \in G) => s \in G
  PROVE  \A s \in SUBSET S : s \in G
<1> DEFINE Good == {n \in Nat : \A s \in SUBSET S : Cardinality(s) <= n => s \in G}
<1>0. \A s \in SUBSET S : IsFiniteSet(s) /\ Cardinality(s) \in Nat
  BY FS_Subset, FS_CardinalityType
<1>1. 0 \in Good
  <2>1. ASSUME NEW s \in SUBSET S, Cardinality(s) <= 0 PROVE s \in G
    <3>1. s = {}
      BY <1>0, <2>1, FS_EmptySet
    <3> QED
      BY <3>1
  <2> QED
    BY <2>1
<1>2. ASSUME NEW n \in Nat, n \in Good PROVE n + 1 \in Good
  <2> SUFFICES ASSUME NEW s \in SUBSET S, Cardinality(s) <= n + 1 PROVE s \in G
    OBVIOUS
  <2>1. CASE s = {}
    BY <2>1
  <2>2. CASE s # {}
    <3>1. ASSUME NEW x \in s PROVE s \ {x} \in G
      <4>1. Cardinality(s \ {x}) = Cardinality(s) - 1
        BY <1>0, FS_RemoveElement
      <4>2. s \ {x} \in SUBSET S /\ Cardinality(s \ {x}) <= n
        BY <1>0, <4>1
      <4> QED
        BY <1>2, <4>2
    <3> QED
      BY <2>2, <3>1
  <2> QED
    BY <2>1, <2>2
<1>3. PICK m \in Nat : Cardinality(S) = m
  BY <1>0
<1>4. m \in Good
  <2>1. \A k \in 0 .. m : k \in Good /\ k < m => k + 1 \in Good
    BY <1>2
  <2> HIDE DEF Good
  <2> QED
    BY <1>1, <2>1, UpTo
<1>5. \A s \in SUBSET S : Cardinality(s) <= m
  BY <1>3, FS_Subset
<1> QED
  BY <1>4, <1>5

\* f folds the subsets of S into T, taking the element choice next.
FoldsTo(f, S, T, base, step, choice) ==
  /\ f \in [SUBSET S -> T] /\ f[{}] = base
  /\ \A s \in SUBSET S : s # {} =>
       f[s] = step[<<choice[s], f[s \ {choice[s]}]>>]

LEMMA FoldExists ==
  ASSUME NEW S, IsFiniteSet(S), NEW T, NEW base \in T,
         NEW step \in [S \X T -> T],
         NEW choice, \A s \in SUBSET S : s # {} => choice[s] \in s
  PROVE  \E f : FoldsTo(f, S, T, base, step, choice)
<1> DEFINE Folds(f, s) ==
             f[s] = IF s = {} THEN base
                    ELSE step[<<choice[s], f[s \ {choice[s]}]>>]
           Upto(f, n) == \A s \in SUBSET S : Cardinality(s) <= n => Folds(f, s)
           Good == {n \in Nat : \E f \in [SUBSET S -> T] : Upto(f, n)}
<1>0. \A s \in SUBSET S : IsFiniteSet(s) /\ Cardinality(s) \in Nat
  BY FS_Subset, FS_CardinalityType
<1>1. 0 \in Good
  <2> DEFINE f == [s \in SUBSET S |-> base]
  <2>1. f \in [SUBSET S -> T]
    OBVIOUS
  <2>2. ASSUME NEW s \in SUBSET S, Cardinality(s) <= 0 PROVE Folds(f, s)
    <3>1. s = {}
      BY <1>0, <2>2, FS_EmptySet
    <3> QED
      BY <3>1
  <2> HIDE DEF f
  <2>3. Upto(f, 0)
    BY <2>2
  <2> HIDE DEF Upto
  <2> QED
    BY <2>1, <2>3
<1>2. ASSUME NEW n \in Nat, n \in Good PROVE n + 1 \in Good
  <2>1. PICK f \in [SUBSET S -> T] : Upto(f, n)
    BY <1>2
  <2> DEFINE g == [s \in SUBSET S |->
                     IF Cardinality(s) = n + 1
                     THEN step[<<choice[s], f[s \ {choice[s]}]>>] ELSE f[s]]
  <2>2. ASSUME NEW s \in SUBSET S, s # {}
        PROVE  /\ choice[s] \in S /\ s \ {choice[s]} \in SUBSET S
               /\ Cardinality(s \ {choice[s]}) = Cardinality(s) - 1
    <3>1. choice[s] \in s
      BY <2>2
    <3>2. Cardinality(s \ {choice[s]}) = Cardinality(s) - 1
      BY <1>0, <3>1, FS_RemoveElement
    <3> QED
      BY <3>1, <3>2
  <2>3. ASSUME NEW s \in SUBSET S, Cardinality(s) = n + 1 PROVE s # {}
    <3>1. Cardinality({}) = 0
      BY FS_EmptySet
    <3>2. n + 1 # 0
      OBVIOUS
    <3>3. s = {} => Cardinality(s) = Cardinality({})
      OBVIOUS
    <3> QED
      BY <2>3, <3>1, <3>2, <3>3
  <2>4. g \in [SUBSET S -> T]
    <3>1. ASSUME NEW s \in SUBSET S, Cardinality(s) = n + 1
          PROVE  step[<<choice[s], f[s \ {choice[s]}]>>] \in T
      <4>1. choice[s] \in S /\ f[s \ {choice[s]}] \in T
        BY <2>1, <2>2, <2>3, <3>1
      <4> QED
        BY <4>1
    <3> QED
      BY <2>1, <3>1
  <2>5. ASSUME NEW s \in SUBSET S, Cardinality(s) <= n + 1 PROVE Folds(g, s)
    <3>1. \A r \in SUBSET S : Cardinality(r) # n + 1 => g[r] = f[r]
      OBVIOUS
    <3>2. CASE Cardinality(s) = n + 1
      <4>1. g[s] = step[<<choice[s], f[s \ {choice[s]}]>>] /\ s # {}
        BY <2>3, <3>2
      <4>2. Cardinality(s \ {choice[s]}) # n + 1 /\ s \ {choice[s]} \in SUBSET S
        BY <2>2, <3>2, <4>1
      <4>3. g[s \ {choice[s]}] = f[s \ {choice[s]}]
        BY <3>1, <4>2
      <4> HIDE DEF g
      <4> QED
        BY <4>1, <4>3
    <3>3. CASE Cardinality(s) # n + 1
      <4>1. Cardinality(s) <= n
        BY <1>0, <2>5, <3>3
      <4>2. Folds(f, s) /\ g[s] = f[s]
        BY <2>1, <3>1, <3>3, <4>1
      <4>3. s # {} => g[s \ {choice[s]}] = f[s \ {choice[s]}]
        <5> SUFFICES ASSUME s # {}
            PROVE  g[s \ {choice[s]}] = f[s \ {choice[s]}]
          OBVIOUS
        <5>1. Cardinality(s \ {choice[s]}) # n + 1
          BY <1>0, <2>2, <4>1
        <5> QED
          BY <2>2, <3>1, <5>1
      <4> HIDE DEF g
      <4> QED
        BY <4>2, <4>3
    <3> QED
      BY <3>2, <3>3
  <2> HIDE DEF g
  <2>6. Upto(g, n + 1)
    BY <2>5
  <2> HIDE DEF Upto
  <2> QED
    BY <2>4, <2>6
<1>3. PICK m \in Nat : Cardinality(S) = m
  BY <1>0
<1>4. m \in Good
  <2>1. \A k \in 0 .. m : k \in Good /\ k < m => k + 1 \in Good
    BY <1>2
  <2> HIDE DEF Good
  <2> QED
    BY <1>1, <2>1, UpTo
<1>5. PICK f \in [SUBSET S -> T] : Upto(f, m)
  BY <1>4
<1>6. \A s \in SUBSET S : Cardinality(s) <= m
  BY <1>3, FS_Subset
<1>7. \A s \in SUBSET S : Folds(f, s)
  BY <1>5, <1>6
<1> QED
  BY <1>5, <1>7 DEF FoldsTo

---------------------------------------------------------------------------
(* Digits.                                                                 *)

\* Division by the base, and what is left.
LEMMA Division ==
  ASSUME NEW n \in Nat
  PROVE  /\ n \div Base \in Nat /\ n % Base \in 0 .. Base - 1
         /\ n = Base * (n \div Base) + (n % Base)
         /\ n # 0 => n \div Base < n
         /\ \A m \in Nat : m <= n => m \div Base <= n \div Base
         /\ \A p \in Nat : n < Base * p => n \div Base < p
<1>0. Base \in Nat /\ Base >= 2
  OBVIOUS
<1>1. /\ n \div Base \in Nat /\ n % Base \in 0 .. Base - 1
      /\ n = Base * (n \div Base) + (n % Base)
  BY <1>0
<1>2. n # 0 => n \div Base < n
  BY <1>0
<1>3. \A m \in Nat : m <= n => m \div Base <= n \div Base
  BY <1>0
<1>4. ASSUME NEW p \in Nat, n < Base * p PROVE n \div Base < p
  <2>1. PICK q \in Nat : q = n \div Base
    BY <1>1
  <2>2. Base * q < Base * p
    BY <1>0, <1>1, <1>4, <2>1
  <2>3. q >= p => Base * q >= Base * p
    BY <1>0
  <2> QED
    BY <1>0, <2>1, <2>2, <2>3
<1> QED
  BY <1>1, <1>2, <1>3, <1>4

\* The powers of the base.
LEMMA PowerIs ==
  /\ Power \in [0 .. Digits -> Nat] /\ Power[0] = 1
  /\ \A m \in 1 .. Digits : Power[m] = Base * Power[m - 1]
<1> DEFINE Powers(f) == f = [m \in 0 .. Digits |->
                               IF m = 0 THEN 1 ELSE Base * f[m - 1]]
           step == [p \in (1 .. Digits) \X Nat |-> Base * p[2]]
<1>0. Base \in Nat /\ Digits \in Nat /\ 1 \in Nat
  OBVIOUS
<1>1. \A k \in 1 .. Digits : \A x \in Nat : step[<<k, x>>] = Base * x
  OBVIOUS
<1>2. step \in [(1 .. Digits) \X Nat -> Nat]
  <2>1. \A x \in Nat : Base * x \in Nat
    BY <1>0
  <2> QED
    BY <2>1
<1> HIDE DEF step
<1>3. PICK f \in [0 .. Digits -> Nat] :
        f[0] = 1 /\ \A k \in 1 .. Digits : f[k] = step[<<k, f[k - 1]>>]
  <2>1. \E f : Iterates(f, Digits, Nat, 1, step)
    BY <1>0, <1>2, Iteration, Zenon
  <2> QED
    BY <2>1 DEF Iterates
<1>4. ASSUME NEW m \in 0 .. Digits
      PROVE  f[m] = IF m = 0 THEN 1 ELSE Base * f[m - 1]
  <2>1. CASE m = 0
    BY <1>3, <2>1
  <2>2. CASE m # 0
    <3>1. m \in 1 .. Digits /\ m - 1 \in 0 .. Digits
      BY <1>0, <2>2
    <3>2. f[m - 1] \in Nat
      BY <3>1
    <3> QED
      BY <1>1, <1>3, <2>2, <3>1, <3>2
  <2> QED
    BY <2>1, <2>2
<1>5. Powers(f)
  <2>1. f = [m \in 0 .. Digits |-> f[m]]
    BY <1>3
  <2> QED
    BY <1>4, <2>1
<1>6. Power = CHOOSE g : Powers(g)
  BY DEF Power
<1>7. Powers(Power)
  <2> HIDE DEF Powers
  <2> QED
    BY <1>5, <1>6
<1>8. Power \in [0 .. Digits -> Nat]
  <2>1. ASSUME NEW m \in 0 .. Digits PROVE Power[m] = f[m]
    <3> DEFINE Same == {k \in 0 .. Digits : Power[k] = f[k]}
    <3>1. 0 \in Same
      <4>1. 0 \in 0 .. Digits
        BY <1>0
      <4>2. Power[0] = 1 /\ f[0] = 1
        BY <1>3, <1>7, <4>1
      <4> QED
        BY <4>1, <4>2
    <3>2. ASSUME NEW k \in 0 .. Digits, k \in Same, k < Digits
          PROVE  k + 1 \in Same
      <4>1. k + 1 \in 0 .. Digits /\ k + 1 # 0 /\ (k + 1) - 1 = k
        BY <1>0, <3>2
      <4>2. Power[k + 1] = Base * Power[k] /\ f[k + 1] = Base * f[k]
        BY <1>4, <1>7, <4>1
      <4> QED
        BY <3>2, <4>1, <4>2
    <3>3. \A k \in 0 .. Digits : k \in Same
      <4> HIDE DEF Same
      <4> QED
        BY <1>0, <3>1, <3>2, UpTo
    <3> QED
      BY <3>3
  <2>2. Power = [m \in 0 .. Digits |-> Power[m]]
    BY <1>7
  <2> QED
    BY <2>1, <2>2
<1>9. Power[0] = 1 /\ \A m \in 1 .. Digits : Power[m] = Base * Power[m - 1]
  <2>1. 0 \in 0 .. Digits
    BY <1>0
  <2>2. \A m \in 1 .. Digits : m \in 0 .. Digits /\ m # 0
    BY <1>0
  <2> QED
    BY <1>7, <2>1, <2>2
<1> QED
  BY <1>8, <1>9

\* A number without its last digits.
LEMMA RestIs ==
  ASSUME NEW n \in Nat
  PROVE  /\ Rest(n) \in [0 .. Digits + n -> Nat] /\ Rest(n)[0] = n
         /\ \A m \in 1 .. Digits + n : Rest(n)[m] = Rest(n)[m - 1] \div Base
<1> DEFINE all == 0 .. Digits + n
           Rests(f) == f = [m \in 0 .. Digits + n |->
                              IF m = 0 THEN n ELSE f[m - 1] \div Base]
           step == [p \in (1 .. Digits + n) \X Nat |-> p[2] \div Base]
<1>0. Base \in Nat /\ Base > 1 /\ Digits + n \in Nat
  OBVIOUS
<1>1. \A k \in 1 .. Digits + n : \A x \in Nat : step[<<k, x>>] = x \div Base
  OBVIOUS
<1>2. step \in [(1 .. Digits + n) \X Nat -> Nat]
  BY Division
<1> HIDE DEF step
<1>3. PICK f \in [0 .. Digits + n -> Nat] :
        f[0] = n /\ \A k \in 1 .. Digits + n : f[k] = step[<<k, f[k - 1]>>]
  <2>1. \E f : Iterates(f, Digits + n, Nat, n, step)
    BY <1>0, <1>2, Iteration, Zenon
  <2> QED
    BY <2>1 DEF Iterates
<1>4. ASSUME NEW m \in 0 .. Digits + n
      PROVE  f[m] = IF m = 0 THEN n ELSE f[m - 1] \div Base
  <2>1. CASE m = 0
    BY <1>3, <2>1
  <2>2. CASE m # 0
    <3>1. m \in 1 .. Digits + n /\ m - 1 \in 0 .. Digits + n
      BY <1>0, <2>2
    <3>2. f[m - 1] \in Nat
      BY <3>1
    <3> QED
      BY <1>1, <1>3, <2>2, <3>1, <3>2
  <2> QED
    BY <2>1, <2>2
<1>5. Rests(f)
  <2>1. f = [m \in 0 .. Digits + n |-> f[m]]
    BY <1>3
  <2> QED
    BY <1>4, <2>1
<1>6. Rest(n) = CHOOSE g : Rests(g)
  BY DEF Rest
<1>7. PICK r : r = Rest(n) /\ Rests(r)
  <2> HIDE DEF Rests
  <2> QED
    BY <1>5, <1>6
<1>8. r \in [0 .. Digits + n -> Nat]
  <2>1. ASSUME NEW m \in 0 .. Digits + n PROVE r[m] = f[m]
    <3> DEFINE Same == {k \in 0 .. Digits + n : r[k] = f[k]}
    <3>1. 0 \in Same
      <4>1. 0 \in 0 .. Digits + n
        BY <1>0
      <4>2. r[0] = n /\ f[0] = n
        BY <1>3, <1>7, <4>1
      <4> QED
        BY <4>1, <4>2
    <3>2. ASSUME NEW k \in 0 .. Digits + n, k \in Same, k < Digits + n
          PROVE  k + 1 \in Same
      <4>1. k + 1 \in 0 .. Digits + n /\ k + 1 # 0 /\ (k + 1) - 1 = k
        BY <1>0, <3>2
      <4>2. r[k + 1] = r[k] \div Base /\ f[k + 1] = f[k] \div Base
        BY <1>4, <1>7, <4>1
      <4> QED
        BY <3>2, <4>1, <4>2
    <3>3. \A k \in 0 .. Digits + n : k \in Same
      <4> HIDE DEF Same
      <4> QED
        BY <1>0, <3>1, <3>2, UpTo
    <3> QED
      BY <3>3
  <2>2. r = [m \in 0 .. Digits + n |-> r[m]]
    BY <1>7
  <2> QED
    BY <2>1, <2>2
<1>9. r[0] = n /\ \A m \in 1 .. Digits + n : r[m] = r[m - 1] \div Base
  <2>1. 0 \in 0 .. Digits + n
    BY <1>0
  <2>2. \A m \in 1 .. Digits + n : m \in 0 .. Digits + n /\ m # 0
    BY <1>0
  <2> QED
    BY <1>7, <2>1, <2>2
<1> QED
  BY <1>7, <1>8, <1>9

\* In the end no digit is left; below KeyLimit, none behind Digits.
LEMMA RestEnds ==
  ASSUME NEW n \in Nat
  PROVE  /\ Rest(n)[Digits + n] = 0
         /\ n < KeyLimit => \A m \in Digits .. Digits + n : Rest(n)[m] = 0
<1>0. PICK r : r = Rest(n)
  OBVIOUS
<1>1. /\ r \in [0 .. Digits + n -> Nat] /\ r[0] = n
      /\ \A m \in 1 .. Digits + n : r[m] = r[m - 1] \div Base
  BY <1>0, RestIs
<1>2. Digits \in Nat /\ Digits # 0 /\ Base \in Nat /\ Base > 1 /\ Digits + n \in Nat
  OBVIOUS
<1>3. \A m \in 0 .. Digits + n : m < Digits + n =>
        r[m] \in Nat /\ r[m + 1] = r[m] \div Base
  <2>1. \A m \in 0 .. Digits + n : m < Digits + n =>
          m + 1 \in 1 .. Digits + n /\ (m + 1) - 1 = m
    BY <1>2
  <2> QED
    BY <1>1, <2>1
<1>4. r[Digits + n] = 0
  <2> DEFINE Less == {m \in 0 .. Digits + n : r[m] = 0 \/ r[m] + m <= n}
  <2>1. 0 \in Less
    BY <1>1, <1>2
  <2>2. ASSUME NEW m \in 0 .. Digits + n, m \in Less, m < Digits + n
        PROVE  m + 1 \in Less
    <3>1. r[m] \in Nat /\ r[m + 1] = r[m] \div Base /\ r[m + 1] \in Nat
      BY <1>3, <2>2, Division
    <3>2. PICK x \in Nat : x = r[m]
      BY <3>1
    <3>3. PICK y \in Nat : y = r[m + 1]
      BY <3>1
    <3>4. x # 0 => y < x
      BY <3>1, <3>2, <3>3, Division
    <3>5. x = 0 => y = 0
      BY <1>2, <3>1, <3>2, <3>3
    <3>6. x = 0 \/ x + m <= n
      BY <2>2, <3>2
    <3>7. y = 0 \/ y + (m + 1) <= n
      BY <3>4, <3>5, <3>6
    <3>8. m + 1 \in 0 .. Digits + n
      BY <1>2, <2>2
    <3> QED
      BY <3>3, <3>7, <3>8
  <2>3. \A m \in 0 .. Digits + n : m \in Less
    <3> HIDE DEF Less
    <3> QED
      BY <1>2, <2>1, <2>2, UpTo
  <2>4. Digits + n \in 0 .. Digits + n
    BY <1>2
  <2>5. r[Digits + n] = 0 \/ r[Digits + n] + (Digits + n) <= n
    BY <2>3, <2>4
  <2>6. r[Digits + n] \in Nat
    BY <1>1, <2>4
  <2> QED
    BY <1>2, <2>5, <2>6
<1>5. ASSUME n < KeyLimit PROVE \A m \in Digits .. Digits + n : r[m] = 0
  <2>0. \A m \in 0 .. Digits : Power[m] \in Nat
    BY PowerIs
  <2> DEFINE Short == {m \in 0 .. Digits : r[m] < Power[Digits - m]}
  <2>1. 0 \in Short
    <3>1. r[0] < Power[Digits - 0]
      BY <1>1, <1>2, <1>5 DEF KeyLimit
    <3> QED
      BY <1>2, <3>1
  <2>2. ASSUME NEW m \in 0 .. Digits, m \in Short, m < Digits
        PROVE  m + 1 \in Short
    <3>1. /\ m \in 0 .. Digits + n /\ m < Digits + n /\ Digits - m \in 1 .. Digits
          /\ (Digits - m) - 1 = Digits - (m + 1) /\ Digits - (m + 1) \in 0 .. Digits
          /\ m + 1 \in 0 .. Digits
      BY <1>2, <2>2
    <3>2. r[m] \in Nat /\ r[m + 1] = r[m] \div Base
      BY <1>3, <3>1
    <3>3. Power[Digits - m] = Base * Power[Digits - (m + 1)]
      BY <3>1, PowerIs
    <3>4. r[m] < Base * Power[Digits - (m + 1)]
      BY <2>2, <3>3
    <3>5. r[m] \div Base < Power[Digits - (m + 1)]
      BY <2>0, <3>1, <3>2, <3>4, Division
    <3> QED
      BY <3>1, <3>2, <3>5
  <2>3. \A m \in 0 .. Digits : m \in Short
    <3> HIDE DEF Short
    <3> QED
      BY <1>2, <2>1, <2>2, UpTo
  <2>4. r[Digits] = 0
    <3>1. Digits \in 0 .. Digits /\ Digits - Digits = 0 /\ Digits \in 0 .. Digits + n
      BY <1>2
    <3>2. r[Digits] < 1 /\ r[Digits] \in Nat
      BY <1>1, <2>3, <3>1, PowerIs
    <3> QED
      BY <3>2
  <2> DEFINE None == {k \in 0 .. n : r[Digits + k] = 0}
  <2>5. 0 \in None
    BY <1>2, <2>4
  <2>6. ASSUME NEW k \in 0 .. n, k \in None, k < n PROVE k + 1 \in None
    <3>1. /\ Digits + k \in 0 .. Digits + n /\ Digits + k < Digits + n
          /\ (Digits + k) + 1 = Digits + (k + 1) /\ k + 1 \in 0 .. n
      BY <1>2, <2>6
    <3>2. r[Digits + (k + 1)] = 0 \div Base
      BY <1>3, <2>6, <3>1
    <3>3. 0 \div Base = 0
      BY <1>2
    <3> QED
      BY <3>1, <3>2, <3>3
  <2>7. \A k \in 0 .. n : k \in None
    <3> HIDE DEF None
    <3> QED
      BY <2>5, <2>6, UpTo
  <2>8. \A m \in Digits .. Digits + n : m - Digits \in 0 .. n /\ Digits + (m - Digits) = m
    BY <1>2
  <2> QED
    BY <2>7, <2>8
<1> QED
  BY <1>0, <1>4, <1>5

\* What a number is padded to; below KeyLimit it has Digits digits.
LEMMA PadIs ==
  ASSUME NEW n \in Nat
  PROVE  \E d \in Digits .. Digits + n :
           /\ Pad(n) = [j \in 1 .. d |-> Rest(n)[d - j] % Base]
           /\ n < KeyLimit => d = Digits
<1> DEFINE Fits(m) == Rest(n)[m] = 0 /\ (m = Digits \/ Rest(n)[m - 1] # 0)
           Enough == {m \in Digits .. Digits + n : Rest(n)[m] = 0}
<1>0. Digits \in Nat
  OBVIOUS
<1>1. Enough \subseteq Nat /\ Enough # {}
  <2>1. Digits + n \in Digits .. Digits + n
    BY <1>0
  <2>2. Digits + n \in Enough
    BY <2>1, RestEnds
  <2> QED
    BY <1>0, <2>2
<1>2. PICK e \in Enough : \A m \in Enough : e <= m
  <2> HIDE DEF Enough
  <2> QED
    BY <1>1, LeastNumber
<1>3. e \in Digits .. Digits + n /\ Fits(e)
  <2>1. e \in Digits .. Digits + n /\ Rest(n)[e] = 0
    BY <1>2
  <2>2. ASSUME e # Digits, Rest(n)[e - 1] = 0 PROVE FALSE
    <3>1. e - 1 \in Digits .. Digits + n /\ ~(e <= e - 1)
      BY <1>0, <2>1, <2>2
    <3>2. e - 1 \in Enough
      BY <2>2, <3>1
    <3> HIDE DEF Enough
    <3> QED
      BY <1>2, <3>1, <3>2
  <2> QED
    BY <2>1, <2>2
<1> DEFINE d == CHOOSE m \in Digits .. Digits + n : Fits(m)
<1>4. Pad(n) = [j \in 1 .. d |-> Rest(n)[d - j] % Base]
  BY DEF Pad
<1>5. d \in Digits .. Digits + n /\ Fits(d)
  <2> HIDE DEF Fits
  <2> QED
    BY <1>3
<1> HIDE DEF d
<1>6. ASSUME n < KeyLimit, d # Digits PROVE FALSE
  <2>1. d - 1 \in Digits .. Digits + n
    BY <1>0, <1>5, <1>6
  <2>2. Rest(n)[d - 1] = 0
    BY <1>6, <2>1, RestEnds
  <2> QED
    BY <1>5, <1>6, <2>2
<1> QED
  BY <1>4, <1>5, <1>6

\* Digit j of a number with Digits digits.
Digit(n, j) == Rest(n)[Digits - j] % Base

\* A key has Digits digits for the number and, if they fit, Digits for the
\* counter.
LEMMA KeyIs ==
  ASSUME NEW n \in Nat, NEW c \in Nat
  PROVE  /\ Key(n, c) \in KeySet
         /\ n < KeyLimit /\ c < KeyLimit =>
              \A j \in 1 .. Digits : /\ Key(n, c)[j] = Digit(n, j)
                                     /\ Key(n, c)[Digits + j] = Digit(c, j)
<1>0. Digits \in Nat /\ Digits # 0
  OBVIOUS
<1>1. PICK d \in Digits .. Digits + n :
        /\ Pad(n) = [j \in 1 .. d |-> Rest(n)[d - j] % Base]
        /\ n < KeyLimit => d = Digits
  BY PadIs
<1>2. PICK e \in Digits .. Digits + c :
        /\ Pad(c) = [j \in 1 .. e |-> Rest(c)[e - j] % Base]
        /\ c < KeyLimit => e = Digits
  BY PadIs
<1>3. d \in Nat /\ e \in Nat /\ d >= Digits /\ e >= Digits
  BY <1>0
<1>4. \A j \in 1 .. d : Rest(n)[d - j] % Base \in 0 .. Base - 1
  <2>1. \A j \in 1 .. d : d - j \in 0 .. Digits + n
    BY <1>0
  <2>2. \A j \in 1 .. d : Rest(n)[d - j] \in Nat
    BY <2>1, RestIs
  <2> QED
    BY <2>2, Division
<1>5. \A j \in 1 .. e : Rest(c)[e - j] % Base \in 0 .. Base - 1
  <2>1. \A j \in 1 .. e : e - j \in 0 .. Digits + c
    BY <1>0
  <2>2. \A j \in 1 .. e : Rest(c)[e - j] \in Nat
    BY <2>1, RestIs
  <2> QED
    BY <2>2, Division
<1>6. PICK p : p = Pad(n)
  OBVIOUS
<1>7. PICK q : q = Pad(c)
  OBVIOUS
<1>8. /\ p \in Seq(0 .. Base - 1) /\ Len(p) = d
      /\ \A j \in 1 .. d : p[j] = Rest(n)[d - j] % Base
  BY <1>1, <1>3, <1>4, <1>6
<1>9. /\ q \in Seq(0 .. Base - 1) /\ Len(q) = e
      /\ \A j \in 1 .. e : q[j] = Rest(c)[e - j] % Base
  BY <1>2, <1>3, <1>5, <1>7
<1>10. PICK s : s = p \o q
  OBVIOUS
<1>11. /\ s \in Seq(0 .. Base - 1) /\ Len(s) = d + e
       /\ \A j \in 1 .. d + e : s[j] = IF j <= d THEN p[j] ELSE q[j - d]
  <2>1. /\ p \o q \in Seq(0 .. Base - 1)
        /\ Len(p \o q) = Len(p) + Len(q)
        /\ \A j \in 1 .. Len(p) + Len(q) :
             (p \o q)[j] = IF j <= Len(p) THEN p[j] ELSE q[j - Len(p)]
    <3>1. p \in Seq(0 .. Base - 1) /\ q \in Seq(0 .. Base - 1)
      BY <1>8, <1>9
    <3> QED
      BY <3>1, ConcatProperties
  <2> QED
    BY <1>8, <1>9, <1>10, <2>1
<1>12. /\ SubSeq(s, 1, 2 * Digits) \in Seq(0 .. Base - 1)
       /\ Len(SubSeq(s, 1, 2 * Digits)) = 2 * Digits
       /\ \A j \in 1 .. 2 * Digits : SubSeq(s, 1, 2 * Digits)[j] = s[j]
  <2>0. PICK t \in Nat : t = 2 * Digits
    BY <1>0
  <2>1. \A j \in 1 .. t : s[j] \in 0 .. Base - 1
    <3>1. \A j \in 1 .. t : j \in 1 .. Len(s)
      BY <1>0, <1>3, <1>11, <2>0
    <3> QED
      BY <1>11, <3>1, ElementOfSeq
  <2>2. 1 \in Int /\ t \in Int
    BY <2>0
  <2>3. /\ SubSeq(s, 1, t) \in Seq(0 .. Base - 1)
        /\ Len(SubSeq(s, 1, t)) = IF 1 <= t THEN t - 1 + 1 ELSE 0
        /\ \A j \in 1 .. t - 1 + 1 : SubSeq(s, 1, t)[j] = s[1 + j - 1]
    BY <2>1, <2>2, SubSeqProperties
  <2>4. \A j \in 1 .. t : 1 + j - 1 = j
    BY <2>0
  <2> QED
    BY <1>0, <2>0, <2>3, <2>4
<1>13. Key(n, c) = SubSeq(s, 1, 2 * Digits)
  BY <1>6, <1>7, <1>10 DEF Key
<1>14. Key(n, c) \in KeySet
  <2>1. SubSeq(s, 1, 2 * Digits)
          \in [1 .. Len(SubSeq(s, 1, 2 * Digits)) -> 0 .. Base - 1]
    BY <1>12, LenProperties
  <2> QED
    BY <1>12, <1>13, <2>1 DEF KeySet
<1>15. ASSUME n < KeyLimit, c < KeyLimit, NEW j \in 1 .. Digits
       PROVE  /\ Key(n, c)[j] = Digit(n, j)
              /\ Key(n, c)[Digits + j] = Digit(c, j)
  <2>1. d = Digits /\ e = Digits
    BY <1>1, <1>2, <1>15
  <2>2. /\ j \in 1 .. 2 * Digits /\ Digits + j \in 1 .. 2 * Digits
        /\ j \in 1 .. d + e /\ Digits + j \in 1 .. d + e
        /\ j <= d /\ ~(Digits + j <= d) /\ (Digits + j) - d = j
    BY <1>0, <2>1
  <2>3. Key(n, c)[j] = p[j] /\ Key(n, c)[Digits + j] = q[j]
    BY <1>11, <1>12, <1>13, <2>2
  <2> QED
    BY <1>8, <1>9, <2>1, <2>3 DEF Digit
<1> QED
  BY <1>14, <1>15

\* The fold that reads digits reads one after the other.
LEMMA NumberIs ==
  ASSUME NEW s \in [1 .. Digits -> 0 .. Base - 1],
         NEW v \in [0 .. Digits -> Nat], v[0] = 0,
         \A j \in 1 .. Digits : v[j] = s[j] + Base * v[j - 1]
  PROVE  Number(s) = v[Digits]
<1> DEFINE S == 1 .. Digits
           Reads(f) == f = [t \in SUBSET S |->
                              IF t = {} THEN 0
                              ELSE s[Max(t)] + Base * f[t \ {Max(t)}]]
           step == [p \in S \X Nat |-> s[p[1]] + Base * p[2]]
           choice == [t \in SUBSET S |-> Max(t)]
<1>0. Base \in Nat /\ Digits \in Nat /\ 0 \in Nat /\ DOMAIN s = 1 .. Digits
  OBVIOUS
<1>1. IsFiniteSet(S)
  BY <1>0, FS_Interval
<1>2. \A t \in SUBSET S : t # {} =>
        Max(t) \in t /\ \A x \in t : x <= Max(t)
  <2> SUFFICES ASSUME NEW t \in SUBSET S, t # {}
      PROVE  Max(t) \in t /\ \A x \in t : x <= Max(t)
    OBVIOUS
  <2>1. t \subseteq Nat /\ \A x \in t : x <= Digits
    <3>1. \A x \in 1 .. Digits : x \in Nat /\ x <= Digits
      BY <1>0
    <3>2. \A x \in t : x \in 1 .. Digits
      OBVIOUS
    <3> QED
      BY <3>1, <3>2
  <2>2. \E m \in t : \A x \in t : x <= m
    BY <1>0, <2>1, GreatestNumber
  <2>3. \E m \in t : \A x \in t : m >= x
    BY <2>1, <2>2
  <2>4. Max(t) \in t /\ \A x \in t : Max(t) >= x
    BY <2>3 DEF Max
  <2> QED
    BY <2>1, <2>4
<1>3. \A t \in SUBSET S : choice[t] = Max(t)
  OBVIOUS
<1>4. \A t \in SUBSET S : t # {} => choice[t] \in t
  BY <1>2, <1>3
<1>5. step \in [S \X Nat -> Nat]
  <2>1. \A p \in S \X Nat : s[p[1]] + Base * p[2] \in Nat
    <3> SUFFICES ASSUME NEW p \in S \X Nat PROVE s[p[1]] + Base * p[2] \in Nat
      OBVIOUS
    <3>1. p[1] \in S /\ p[2] \in Nat
      OBVIOUS
    <3>2. PICK x \in S, y \in Nat : p[1] = x /\ p[2] = y
      BY <3>1
    <3>3. PICK w \in Nat : w = s[x]
      <4>1. s[x] \in 0 .. Base - 1
        OBVIOUS
      <4> QED
        BY <1>0, <4>1
    <3>4. PICK z \in Nat : z = Base * y
      <4>1. \A n \in Nat : Base * n \in Nat
        BY <1>0
      <4> QED
        BY <4>1
    <3>5. w + z \in Nat
      OBVIOUS
    <3> QED
      BY <3>2, <3>3, <3>4, <3>5
  <2> QED
    BY <2>1
<1>6. \A x \in S : \A t \in Nat : step[<<x, t>>] = s[x] + Base * t
  OBVIOUS
<1>7. PICK f : FoldsTo(f, S, Nat, 0, step, choice)
  <2> HIDE DEF S, step, choice
  <2> QED
    BY <1>0, <1>1, <1>4, <1>5, FoldExists, Zenon
<1> HIDE DEF step, choice
<1>8. Reads(f)
  <2>1. f \in [SUBSET S -> Nat] /\ f[{}] = 0
    BY <1>7 DEF FoldsTo
  <2>2. ASSUME NEW t \in SUBSET S, t # {}
        PROVE  f[t] = s[Max(t)] + Base * f[t \ {Max(t)}]
    <3>1. f[t] = step[<<Max(t), f[t \ {Max(t)}]>>]
      BY <1>3, <1>7, <2>2 DEF FoldsTo
    <3>2. Max(t) \in S /\ f[t \ {Max(t)}] \in Nat
      BY <1>2, <2>1, <2>2
    <3> QED
      BY <1>6, <3>1, <3>2
  <2>3. f = [t \in SUBSET S |-> f[t]]
    BY <2>1
  <2>4. \A t \in SUBSET S :
          f[t] = IF t = {} THEN 0 ELSE s[Max(t)] + Base * f[t \ {Max(t)}]
    BY <2>1, <2>2
  <2> HIDE DEF S
  <2> QED
    BY <2>3, <2>4
<1>9. PICK g : Reads(g) /\ Number(s) = g[S]
  <2>1. Number(s) = (CHOOSE g : Reads(g))[S]
    BY <1>0 DEF Number, FoldLeft, MapThenFoldSet
  <2> HIDE DEF Reads
  <2> QED
    BY <1>8, <2>1
<1>10. \A t \in SUBSET S :
         g[t] = IF t = {} THEN 0 ELSE s[Max(t)] + Base * g[t \ {Max(t)}]
  BY <1>9
<1> DEFINE Same == {j \in 0 .. Digits : g[1 .. j] = v[j]}
<1>11. 0 \in Same
  <2>1. 1 .. 0 = {} /\ 1 .. 0 \in SUBSET S /\ 0 \in 0 .. Digits
    BY <1>0
  <2> QED
    BY <1>10, <2>1
<1>12. ASSUME NEW j \in 0 .. Digits, j \in Same, j < Digits PROVE j + 1 \in Same
  <2>0. PICK e \in Nat : e = j + 1
    BY <1>12
  <2>1. /\ e \in 1 .. Digits /\ e - 1 = j /\ e \in 0 .. Digits
        /\ 1 .. e \in SUBSET S /\ e \in 1 .. e
    BY <1>0, <1>12, <2>0
  <2>2. Max(1 .. e) = e
    <3>1. Max(1 .. e) \in 1 .. e /\ e <= Max(1 .. e)
      <4>1. 1 .. e # {}
        BY <2>1
      <4> QED
        BY <1>2, <2>1, <4>1
    <3>2. PICK m \in 1 .. e : m = Max(1 .. e) /\ e <= m
      BY <3>1
    <3>3. m = e
      BY <3>2
    <3> QED
      BY <3>2, <3>3
  <2>3. (1 .. e) \ {e} = 1 .. j
    <3>1. \A x \in 1 .. e : x # e => x \in 1 .. j
      BY <1>12, <2>0
    <3>2. \A x \in 1 .. j : x \in 1 .. e /\ x # e
      BY <1>12, <2>0
    <3> QED
      BY <3>1, <3>2
  <2>4. g[1 .. e] = s[e] + Base * g[1 .. j]
    <3>1. 1 .. e # {}
      BY <2>1
    <3> QED
      BY <1>10, <2>1, <2>2, <2>3, <3>1
  <2>5. g[1 .. e] = v[e]
    BY <1>12, <2>1, <2>4
  <2> QED
    BY <2>0, <2>1, <2>5
<1>13. \A j \in 0 .. Digits : j \in Same
  <2> HIDE DEF Same
  <2> QED
    BY <1>0, <1>11, <1>12, UpTo
<1>14. Digits \in 0 .. Digits
  BY <1>0
<1> QED
  BY <1>9, <1>13, <1>14

\* Digits put together are the number they come from.
LEMMA NumberOfDigits ==
  ASSUME NEW n \in Nat, n < KeyLimit,
         NEW s \in [1 .. Digits -> 0 .. Base - 1],
         \A j \in 1 .. Digits : s[j] = Digit(n, j)
  PROVE  Number(s) = n
<1> DEFINE v == [j \in 0 .. Digits |-> Rest(n)[Digits - j]]
<1>0. /\ Digits \in Nat
      /\ \A j \in 0 .. Digits : Digits - j \in 0 .. Digits + n
      /\ 0 \in 0 .. Digits /\ Digits \in 0 .. Digits
      /\ Digits - 0 = Digits /\ Digits - Digits = 0
      /\ Digits \in Digits .. Digits + n
  OBVIOUS
<1>1. \A j \in 0 .. Digits : Rest(n)[Digits - j] \in Nat
  <2>1. Rest(n) \in [0 .. Digits + n -> Nat]
    BY RestIs
  <2> QED
    BY <1>0, <2>1
<1>2. v \in [0 .. Digits -> Nat]
  BY <1>1
<1>3. v[0] = 0
  BY <1>0, RestEnds
<1>4. ASSUME NEW j \in 1 .. Digits PROVE v[j] = s[j] + Base * v[j - 1]
  <2>1. /\ j - 1 \in 0 .. Digits /\ j \in 0 .. Digits
        /\ Digits - (j - 1) \in 1 .. Digits + n
        /\ (Digits - (j - 1)) - 1 = Digits - j
    BY <1>0
  <2>2. PICK x \in Nat : x = Rest(n)[Digits - j]
    BY <1>1, <2>1
  <2>3. v[j] = x
    BY <2>1, <2>2
  <2>4. v[j - 1] = x \div Base
    <3>1. Rest(n)[Digits - (j - 1)] = Rest(n)[(Digits - (j - 1)) - 1] \div Base
      BY <2>1, RestIs
    <3> QED
      BY <2>1, <2>2, <3>1
  <2>5. s[j] = x % Base
    BY <2>2 DEF Digit
  <2>6. x = Base * (x \div Base) + (x % Base)
    BY Division
  <2>7. Base * (x \div Base) \in Nat /\ x % Base \in Nat
    <3>1. x \div Base \in Nat /\ x % Base \in 0 .. Base - 1 /\ Base \in Nat
      BY Division
    <3>2. \A y \in Nat : Base * y \in Nat
      BY <3>1
    <3> QED
      BY <3>1, <3>2
  <2> HIDE DEF v
  <2> QED
    BY <2>3, <2>4, <2>5, <2>6, <2>7
<1>5. v[Digits] = n
  BY <1>0, RestIs
<1> HIDE DEF v
<1> QED
  BY <1>2, <1>3, <1>4, <1>5, NumberIs

\* The pairs that the driver makes keys of, as long as the counter fits.
Pairs == {d \in Nat \X Nat : d[1] < KeyLimit /\ d[2] < KeyLimit}

KeyOf(d) == Key(d[1], d[2])

\* The print-outs decode the pair that a key was made of.
LEMMA DecodedKey ==
  ASSUME NEW d \in Pairs
  PROVE  Decoded(KeyOf(d)) = d
<1>1. /\ d[1] \in Nat /\ d[2] \in Nat /\ d = <<d[1], d[2]>>
      /\ d[1] < KeyLimit /\ d[2] < KeyLimit
  BY DEF Pairs
<1>2. PICK k \in KeySet : k = KeyOf(d)
  BY <1>1, KeyIs DEF KeyOf
<1>3. \A j \in 1 .. Digits : k[j] = Digit(d[1], j) /\ k[Digits + j] = Digit(d[2], j)
  BY <1>1, <1>2, KeyIs DEF KeyOf
<1>4. Digits \in Nat
  OBVIOUS
<1>5. PICK a \in Int, b \in Int, c \in Int : a = 1 /\ b = Digits + 1 /\ c = 2 * Digits
  BY <1>4
<1>6. \A j \in 1 .. 2 * Digits : k[j] \in 0 .. Base - 1
  BY DEF KeySet
<1>7. /\ SubSeq(k, a, Digits) \in [1 .. Digits -> 0 .. Base - 1]
      /\ \A j \in 1 .. Digits : SubSeq(k, a, Digits)[j] = k[j]
  <2>1. \A j \in a .. Digits : k[j] \in 0 .. Base - 1
    BY <1>4, <1>5, <1>6
  <2>2. /\ SubSeq(k, a, Digits) \in Seq(0 .. Base - 1)
        /\ Len(SubSeq(k, a, Digits)) = IF a <= Digits THEN Digits - a + 1 ELSE 0
        /\ \A j \in 1 .. Digits - a + 1 : SubSeq(k, a, Digits)[j] = k[a + j - 1]
    <3>1. Digits \in Int
      BY <1>4
    <3> QED
      BY <2>1, <3>1, SubSeqProperties
  <2>3. Len(SubSeq(k, a, Digits)) = Digits
    BY <1>4, <1>5, <2>2
  <2>4. SubSeq(k, a, Digits) \in [1 .. Digits -> 0 .. Base - 1]
    BY <2>2, <2>3, LenProperties
  <2>5. \A j \in 1 .. Digits : j \in 1 .. Digits - a + 1 /\ a + j - 1 = j
    BY <1>4, <1>5
  <2> QED
    BY <2>2, <2>4, <2>5
<1>8. /\ SubSeq(k, b, c) \in [1 .. Digits -> 0 .. Base - 1]
      /\ \A j \in 1 .. Digits : SubSeq(k, b, c)[j] = k[Digits + j]
  <2>1. \A j \in b .. c : k[j] \in 0 .. Base - 1
    BY <1>4, <1>5, <1>6
  <2>2. /\ SubSeq(k, b, c) \in Seq(0 .. Base - 1)
        /\ Len(SubSeq(k, b, c)) = IF b <= c THEN c - b + 1 ELSE 0
        /\ \A j \in 1 .. c - b + 1 : SubSeq(k, b, c)[j] = k[b + j - 1]
    BY <2>1, SubSeqProperties
  <2>3. Len(SubSeq(k, b, c)) = Digits
    BY <1>4, <1>5, <2>2
  <2>4. SubSeq(k, b, c) \in [1 .. Digits -> 0 .. Base - 1]
    BY <2>2, <2>3, LenProperties
  <2>5. \A j \in 1 .. Digits : j \in 1 .. c - b + 1 /\ b + j - 1 = Digits + j
    BY <1>4, <1>5
  <2> QED
    BY <2>2, <2>4, <2>5
<1>9. Number(SubSeq(k, a, Digits)) = d[1]
  <2>1. PICK n \in Nat : n = d[1] /\ n < KeyLimit
    BY <1>1
  <2>2. PICK s \in [1 .. Digits -> 0 .. Base - 1] :
          s = SubSeq(k, a, Digits) /\ \A j \in 1 .. Digits : s[j] = Digit(n, j)
    BY <1>3, <1>7, <2>1
  <2>3. Number(s) = n
    BY <2>1, <2>2, NumberOfDigits
  <2> QED
    BY <2>1, <2>2, <2>3
<1>10. Number(SubSeq(k, b, c)) = d[2]
  <2>1. PICK n \in Nat : n = d[2] /\ n < KeyLimit
    BY <1>1
  <2>2. PICK s \in [1 .. Digits -> 0 .. Base - 1] :
          s = SubSeq(k, b, c) /\ \A j \in 1 .. Digits : s[j] = Digit(n, j)
    BY <1>3, <1>8, <2>1
  <2>3. Number(s) = n
    BY <2>1, <2>2, NumberOfDigits
  <2> QED
    BY <2>1, <2>2, <2>3
<1> QED
  BY <1>1, <1>2, <1>5, <1>9, <1>10 DEF Decoded

---------------------------------------------------------------------------
(* The order of the keys.                                                  *)

\* Numbers whose first j digits are the same differ only behind them.
LEMMA SamePrefix ==
  ASSUME NEW n \in Nat, NEW m \in Nat, n < KeyLimit, m < KeyLimit,
         NEW j \in 0 .. Digits, \A h \in 1 .. j : Digit(n, h) = Digit(m, h)
  PROVE  Rest(n)[Digits - j] = Rest(m)[Digits - j]
<1> DEFINE Same == {h \in 0 .. j : Rest(n)[Digits - h] = Rest(m)[Digits - h]}
<1>0. Digits \in Nat /\ j \in Nat /\ j <= Digits
  OBVIOUS
<1>1. 0 \in Same
  <2>1. /\ Digits - 0 = Digits /\ 0 \in 0 .. j
        /\ Digits \in Digits .. Digits + n /\ Digits \in Digits .. Digits + m
    BY <1>0
  <2>2. Rest(n)[Digits] = 0 /\ Rest(m)[Digits] = 0
    BY <2>1, RestEnds
  <2> QED
    BY <2>1, <2>2
<1>2. ASSUME NEW h \in 0 .. j, h \in Same, h < j PROVE h + 1 \in Same
  <2>1. PICK g \in Nat : g = Digits - h
    BY <1>0, <1>2
  <2>2. /\ g \in 1 .. Digits + n /\ g \in 1 .. Digits + m
        /\ g - 1 \in 0 .. Digits + n /\ g - 1 \in 0 .. Digits + m
        /\ Digits - (h + 1) = g - 1 /\ h + 1 \in 1 .. j /\ h + 1 \in 0 .. j
    BY <1>0, <1>2, <2>1
  <2>3. PICK x \in Nat : x = Rest(n)[g - 1]
    BY <2>2, RestIs
  <2>4. PICK y \in Nat : y = Rest(m)[g - 1]
    BY <2>2, RestIs
  <2>5. x \div Base = y \div Base
    <3>1. Rest(n)[g] = x \div Base /\ Rest(m)[g] = y \div Base
      BY <2>2, <2>3, <2>4, RestIs
    <3> QED
      BY <1>2, <2>1, <3>1
  <2>6. x % Base = y % Base
    <3>1. Digit(n, h + 1) = Digit(m, h + 1)
      BY <2>2
    <3> QED
      BY <2>2, <2>3, <2>4, <3>1 DEF Digit
  <2>7. x = Base * (x \div Base) + (x % Base) /\ y = Base * (y \div Base) + (y % Base)
    BY Division
  <2>8. x = y
    BY <2>5, <2>6, <2>7
  <2> QED
    BY <2>2, <2>3, <2>4, <2>8
<1>3. \A h \in 0 .. j : h \in Same
  <2> HIDE DEF Same
  <2> QED
    BY <1>0, <1>1, <1>2, UpTo
<1>4. j \in 0 .. j
  BY <1>0
<1> QED
  BY <1>3, <1>4

\* The first digit that differs decides.
LEMMA DigitsDecide ==
  ASSUME NEW n \in Nat, NEW m \in Nat, n < KeyLimit, m < KeyLimit,
         NEW j \in 1 .. Digits, \A h \in 1 .. j - 1 : Digit(n, h) = Digit(m, h),
         Digit(n, j) < Digit(m, j)
  PROVE  n < m
<1>0. Digits \in Nat
  OBVIOUS
<1>1. SUFFICES ASSUME m <= n PROVE FALSE
  OBVIOUS
<1>2. PICK g \in Nat : g = Digits - j
  BY <1>0
<1>3. /\ g \in 0 .. Digits /\ g + 1 \in 1 .. Digits + n /\ g + 1 \in 1 .. Digits + m
      /\ (g + 1) - 1 = g /\ Digits - (j - 1) = g + 1 /\ j - 1 \in 0 .. Digits
      /\ g \in 0 .. Digits + n /\ g \in 0 .. Digits + m
  BY <1>0, <1>2
<1>4. PICK x \in Nat : x = Rest(n)[g]
  BY <1>3, RestIs
<1>5. PICK y \in Nat : y = Rest(m)[g]
  BY <1>3, RestIs
<1>6. y <= x
  <2> DEFINE Less == {h \in 0 .. Digits : Rest(m)[h] <= Rest(n)[h]}
  <2>1. 0 \in Less
    <3>1. Rest(m)[0] = m /\ Rest(n)[0] = n /\ 0 \in 0 .. Digits
      BY <1>0, RestIs
    <3> QED
      BY <1>1, <3>1
  <2>2. ASSUME NEW h \in 0 .. Digits, h \in Less, h < Digits PROVE h + 1 \in Less
    <3>1. /\ h + 1 \in 1 .. Digits + n /\ h + 1 \in 1 .. Digits + m
          /\ (h + 1) - 1 = h /\ h + 1 \in 0 .. Digits
          /\ h \in 0 .. Digits + n /\ h \in 0 .. Digits + m
      BY <1>0, <2>2
    <3>2. PICK a \in Nat : a = Rest(n)[h]
      BY <3>1, RestIs
    <3>3. PICK b \in Nat : b = Rest(m)[h]
      BY <3>1, RestIs
    <3>4. Rest(n)[h + 1] = a \div Base
      BY <3>1, <3>2, RestIs
    <3>5. Rest(m)[h + 1] = b \div Base
      BY <3>1, <3>3, RestIs
    <3>6. b <= a
      BY <2>2, <3>2, <3>3
    <3>7. b \div Base <= a \div Base
      BY <3>6, Division
    <3> QED
      BY <3>1, <3>4, <3>5, <3>7
  <2>3. \A h \in 0 .. Digits : h \in Less
    <3> HIDE DEF Less
    <3> QED
      BY <1>0, <2>1, <2>2, UpTo
  <2> QED
    BY <1>3, <1>4, <1>5, <2>3
<1>7. x \div Base = y \div Base
  <2>1. Rest(n)[g + 1] = Rest(m)[g + 1]
    BY <1>3, SamePrefix
  <2> QED
    BY <1>3, <1>4, <1>5, <2>1, RestIs
<1>8. x % Base < y % Base
  BY <1>2, <1>4, <1>5 DEF Digit
<1>9. /\ x = Base * (x \div Base) + (x % Base) /\ y = Base * (y \div Base) + (y % Base)
      /\ x % Base \in 0 .. Base - 1 /\ y % Base \in 0 .. Base - 1
      /\ x \div Base \in Nat /\ Base \in Nat
  BY Division
<1>10. PICK z \in Nat : z = Base * (x \div Base)
  <2>1. \A w \in Nat : Base * w \in Nat
    BY <1>9
  <2> QED
    BY <1>9, <2>1
<1> QED
  BY <1>6, <1>7, <1>8, <1>9, <1>10

\* The order in which pairs are counted.
Less(d, e) == d[1] < e[1] \/ (d[1] = e[1] /\ d[2] < e[2])

\* If a key is before another, so is its pair.
LEMMA BeforeIsLess ==
  ASSUME NEW d \in Pairs, NEW e \in Pairs, Before(KeyOf(d), KeyOf(e))
  PROVE  Less(d, e)
<1>0. Digits \in Nat
  OBVIOUS
<1>1. /\ d[1] \in Nat /\ d[2] \in Nat /\ d[1] < KeyLimit /\ d[2] < KeyLimit
      /\ e[1] \in Nat /\ e[2] \in Nat /\ e[1] < KeyLimit /\ e[2] < KeyLimit
  BY DEF Pairs
<1>2. PICK k \in KeySet : k = KeyOf(d)
  BY <1>1, KeyIs DEF KeyOf
<1>3. PICK l \in KeySet : l = KeyOf(e)
  BY <1>1, KeyIs DEF KeyOf
<1>4. /\ \A j \in 1 .. Digits : k[j] = Digit(d[1], j) /\ k[Digits + j] = Digit(d[2], j)
      /\ \A j \in 1 .. Digits : l[j] = Digit(e[1], j) /\ l[Digits + j] = Digit(e[2], j)
  BY <1>1, <1>2, <1>3, KeyIs DEF KeyOf
<1>5. PICK j \in 1 .. 2 * Digits : k[j] < l[j] /\ \A m \in 1 .. j - 1 : k[m] = l[m]
  BY <1>2, <1>3 DEF Before, KeySet
<1>6. CASE j <= Digits
  <2>1. j \in 1 .. Digits /\ \A m \in 1 .. j - 1 : m \in 1 .. Digits
    BY <1>0, <1>6
  <2>2. \A m \in 1 .. j - 1 : Digit(d[1], m) = Digit(e[1], m)
    BY <1>4, <1>5, <2>1
  <2>3. Digit(d[1], j) < Digit(e[1], j)
    BY <1>4, <1>5, <2>1
  <2> QED
    BY <1>1, <2>1, <2>2, <2>3, DigitsDecide DEF Less
<1>7. CASE ~(j <= Digits)
  <2>1. PICK h \in 1 .. Digits : j = Digits + h
    BY <1>0, <1>7
  <2>2. /\ \A m \in 1 .. Digits : m \in 1 .. j - 1
        /\ \A m \in 1 .. h - 1 : m \in 1 .. Digits /\ Digits + m \in 1 .. j - 1
        /\ Digits \in 0 .. Digits /\ Digits - Digits = 0
    BY <1>0, <2>1
  <2>3. d[1] = e[1]
    <3>1. \A m \in 1 .. Digits : Digit(d[1], m) = Digit(e[1], m)
      BY <1>4, <1>5, <2>2
    <3>2. PICK n \in Nat : n = d[1] /\ n < KeyLimit
      BY <1>1
    <3>3. PICK m \in Nat : m = e[1] /\ m < KeyLimit
      BY <1>1
    <3>4. PICK z \in 0 .. Digits : z = Digits /\ Digits - z = 0
      BY <2>2
    <3>5. \A g \in 1 .. z : Digit(n, g) = Digit(m, g)
      BY <3>1, <3>2, <3>3, <3>4
    <3>6. Rest(n)[Digits - z] = Rest(m)[Digits - z]
      BY <3>2, <3>3, <3>5, SamePrefix
    <3>7. Rest(n)[0] = n /\ Rest(m)[0] = m
      BY RestIs
    <3> QED
      BY <3>2, <3>3, <3>4, <3>6, <3>7
  <2>4. \A m \in 1 .. h - 1 : Digit(d[2], m) = Digit(e[2], m)
    BY <1>4, <1>5, <2>2
  <2>5. Digit(d[2], h) < Digit(e[2], h)
    BY <1>4, <1>5, <2>1
  <2>6. d[2] < e[2]
    BY <1>1, <2>4, <2>5, DigitsDecide
  <2> QED
    BY <2>3, <2>6 DEF Less
<1> QED
  BY <1>6, <1>7

\* Of two keys that differ one is before the other.
LEMMA KeysDiffer ==
  ASSUME NEW k \in KeySet, NEW l \in KeySet, k # l
  PROVE  Before(k, l) \/ Before(l, k)
<1> DEFINE Differs == {j \in 1 .. 2 * Digits : k[j] # l[j]}
<1>0. Digits \in Nat /\ Base \in Nat
  OBVIOUS
<1>1. Differs \subseteq Nat /\ Differs # {}
  <2>1. \A j \in 1 .. 2 * Digits : j \in Nat
    BY <1>0
  <2>2. \E j \in 1 .. 2 * Digits : k[j] # l[j]
    BY DEF KeySet
  <2> QED
    BY <2>1, <2>2
<1>2. PICK j \in Differs : \A m \in Differs : j <= m
  <2> HIDE DEF Differs
  <2> QED
    BY <1>1, LeastNumber
<1>3. j \in 1 .. 2 * Digits /\ k[j] # l[j]
  BY <1>2
<1>4. \A m \in 1 .. j - 1 : k[m] = l[m]
  <2> SUFFICES ASSUME NEW m \in 1 .. j - 1, k[m] # l[m] PROVE FALSE
    OBVIOUS
  <2>1. m \in 1 .. 2 * Digits /\ ~(j <= m)
    BY <1>0, <1>3
  <2>2. m \in Differs
    BY <2>1
  <2> HIDE DEF Differs
  <2> QED
    BY <1>2, <2>1, <2>2
<1>5. k[j] < l[j] \/ l[j] < k[j]
  <2>1. k[j] \in 0 .. Base - 1 /\ l[j] \in 0 .. Base - 1
    BY <1>3 DEF KeySet
  <2> QED
    BY <1>0, <1>3, <2>1
<1>6. DOMAIN k = 1 .. 2 * Digits /\ DOMAIN l = 1 .. 2 * Digits
  BY DEF KeySet
<1> QED
  BY <1>3, <1>4, <1>5, <1>6 DEF Before

\* The keys of pairs.
PairKeys == {KeyOf(d) : d \in Pairs}

\* The order of the bytes is that of the pairs, and a strict one.
LEMMA KeysInOrder ==
  /\ \A d, e \in Pairs : Before(KeyOf(d), KeyOf(e)) <=> Less(d, e)
  /\ \A k \in PairKeys : k \in KeySet /\ ~Before(k, k)
  /\ \A k, l \in PairKeys : k = l \/ Before(k, l) \/ Before(l, k)
  /\ \A k, l \in PairKeys : Before(k, l) => ~Before(l, k)
  /\ \A k, l, m \in PairKeys : Before(k, l) /\ Before(l, m) => Before(k, m)
<1>1. \A d \in Pairs : /\ d[1] \in Nat /\ d[2] \in Nat /\ KeyOf(d) \in KeySet
                       /\ d = <<d[1], d[2]>>
  BY KeyIs DEF Pairs, KeyOf
<1>2. \A d, e \in Pairs : Before(KeyOf(d), KeyOf(e)) <=> Less(d, e)
  <2> SUFFICES ASSUME NEW d \in Pairs, NEW e \in Pairs, Less(d, e)
      PROVE  Before(KeyOf(d), KeyOf(e))
    BY BeforeIsLess
  <2>1. ~Less(e, d) /\ d # e
    BY <1>1 DEF Less
  <2>2. KeyOf(d) # KeyOf(e)
    BY <2>1, DecodedKey
  <2>3. Before(KeyOf(d), KeyOf(e)) \/ Before(KeyOf(e), KeyOf(d))
    BY <1>1, <2>2, KeysDiffer
  <2> QED
    BY <2>1, <2>3, BeforeIsLess
<1>3. /\ \A d \in Pairs : ~Less(d, d)
      /\ \A d, e \in Pairs : Less(d, e) => ~Less(e, d)
      /\ \A d, e, f \in Pairs : Less(d, e) /\ Less(e, f) => Less(d, f)
  BY <1>1 DEF Less
<1>4. \A k \in PairKeys : \E d \in Pairs : k = KeyOf(d)
  BY DEF PairKeys
<1>5. \A k \in PairKeys : k \in KeySet /\ ~Before(k, k)
  BY <1>1, <1>2, <1>3, <1>4
<1>6. \A k, l \in PairKeys : k = l \/ Before(k, l) \/ Before(l, k)
  BY <1>5, KeysDiffer
<1>7. \A k, l \in PairKeys : Before(k, l) => ~Before(l, k)
  BY <1>2, <1>3, <1>4
<1>8. \A k, l, m \in PairKeys : Before(k, l) /\ Before(l, m) => Before(k, m)
  BY <1>2, <1>3, <1>4
<1> QED
  BY <1>2, <1>5, <1>6, <1>7, <1>8

---------------------------------------------------------------------------
(* The lists.                                                              *)

\* Insert puts a key behind those that are before it, up to the first that is
\* not.
LEMMA InsertedIs ==
  ASSUME NEW s \in Seq(KeySet), NEW k \in KeySet
  PROVE  \E p \in 0 .. Len(s) :
           /\ \A j \in 1 .. p : Before(s[j], k)
           /\ p < Len(s) => ~Before(s[p + 1], k)
           /\ Inserted(k, s) \in Seq(KeySet)
           /\ Len(Inserted(k, s)) = Len(s) + 1
           /\ \A j \in 1 .. p : Inserted(k, s)[j] = s[j]
           /\ Inserted(k, s)[p + 1] = k
           /\ \A j \in p + 1 .. Len(s) : Inserted(k, s)[j + 1] = s[j]
<1> DEFINE Place(p) == /\ \A j \in 1 .. p : Before(s[j], k)
                       /\ p < Len(s) => ~Before(s[p + 1], k)
           Behind == {j \in 1 .. Len(s) + 1 : j <= Len(s) => ~Before(s[j], k)}
<1>1. PICK n \in Nat : n = Len(s)
  BY LenProperties
<1>2. \E p \in 0 .. Len(s) : Place(p)
  <2>1. Behind \subseteq Nat /\ n + 1 \in Behind
    BY <1>1
  <2>2. PICK q \in Behind : \A j \in Behind : q <= j
    <3> HIDE DEF Behind
    <3> QED
      BY <2>1, LeastNumber
  <2>3. q \in 1 .. n + 1 /\ (q <= n => ~Before(s[q], k))
    BY <1>1
  <2>4. \A j \in 1 .. q - 1 : Before(s[j], k)
    <3> SUFFICES ASSUME NEW j \in 1 .. q - 1, ~Before(s[j], k) PROVE FALSE
      OBVIOUS
    <3>1. j \in 1 .. n + 1 /\ ~(q <= j)
      BY <2>3
    <3>2. j \in Behind
      BY <1>1, <3>1
    <3> QED
      BY <2>2, <3>1, <3>2
  <2>5. PICK p \in 0 .. n : p = q - 1 /\ p + 1 = q
    BY <2>3
  <2>6. Place(p)
    BY <1>1, <2>3, <2>4, <2>5
  <2> QED
    BY <1>1, <2>5, <2>6
<1>3. PICK p \in 0 .. Len(s) : Place(p) /\ p = CHOOSE q \in 0 .. Len(s) : Place(q)
  <2> HIDE DEF Place
  <2> QED
    BY <1>2
<1>4. Inserted(k, s) = SubSeq(s, 1, (p + 1) - 1) \o <<k>> \o SubSeq(s, p + 1, Len(s))
  BY <1>3 DEF Inserted, InsertAt
<1>5. PICK g \in Nat : g = p /\ g <= n /\ (p + 1) - 1 = g
  BY <1>1
<1>6. PICK front : front = SubSeq(s, 1, g)
  OBVIOUS
<1>7. PICK back : back = SubSeq(s, g + 1, n)
  OBVIOUS
<1>8. \A j \in 1 .. n : s[j] \in KeySet
  BY <1>1, ElementOfSeq
<1>9. /\ front \in Seq(KeySet) /\ Len(front) = g
      /\ \A j \in 1 .. g : front[j] = s[j]
  <2>1. \A j \in 1 .. g : s[j] \in KeySet
    BY <1>1, <1>5, <1>8
  <2>2. /\ 1 \in Int /\ g \in Int /\ (IF 1 <= g THEN g - 1 + 1 ELSE 0) = g
        /\ g - 1 + 1 = g /\ \A j \in 1 .. g : 1 + j - 1 = j
    BY <1>5
  <2>3. /\ front \in Seq(KeySet) /\ Len(front) = (IF 1 <= g THEN g - 1 + 1 ELSE 0)
        /\ \A j \in 1 .. g - 1 + 1 : front[j] = s[1 + j - 1]
    BY <1>6, <2>1, <2>2, SubSeqProperties
  <2> QED
    BY <2>2, <2>3
<1>10. /\ back \in Seq(KeySet) /\ Len(back) = n - g
       /\ \A j \in 1 .. n - g : back[j] = s[g + j]
  <2>1. \A j \in g + 1 .. n : s[j] \in KeySet
    BY <1>1, <1>5, <1>8
  <2>2. /\ g + 1 \in Int /\ n \in Int
        /\ (IF g + 1 <= n THEN n - (g + 1) + 1 ELSE 0) = n - g
        /\ n - (g + 1) + 1 = n - g /\ \A j \in 1 .. n - g : (g + 1) + j - 1 = g + j
    BY <1>1, <1>5
  <2>3. /\ back \in Seq(KeySet)
        /\ Len(back) = (IF g + 1 <= n THEN n - (g + 1) + 1 ELSE 0)
        /\ \A j \in 1 .. n - (g + 1) + 1 : back[j] = s[(g + 1) + j - 1]
    BY <1>7, <2>1, <2>2, SubSeqProperties
  <2> QED
    BY <2>2, <2>3
<1>11. PICK one : one = <<k>> /\ one \in Seq(KeySet) /\ Len(one) = 1 /\ one[1] = k
  <2>1. <<k>> \in Seq(KeySet) /\ Len(<<k>>) = 1 /\ <<k>>[1] = k
    OBVIOUS
  <2> QED
    BY <2>1
<1>12. PICK head : head = front \o one
  OBVIOUS
<1>13. /\ head \in Seq(KeySet) /\ Len(head) = g + 1 /\ head[g + 1] = k
       /\ \A j \in 1 .. g : head[j] = s[j]
  <2>1. /\ head \in Seq(KeySet) /\ Len(head) = g + 1
        /\ \A j \in 1 .. g + 1 :
             head[j] = IF j <= g THEN front[j] ELSE one[j - g]
    BY <1>9, <1>11, <1>12, ConcatProperties
  <2> QED
    BY <1>5, <1>9, <1>11, <2>1
<1>14. /\ Inserted(k, s) \in Seq(KeySet) /\ Len(Inserted(k, s)) = g + 1 + (n - g)
       /\ \A j \in 1 .. g + 1 + (n - g) : Inserted(k, s)[j] =
            IF j <= g + 1 THEN head[j] ELSE back[j - (g + 1)]
  <2>1. Inserted(k, s) = head \o back
    BY <1>1, <1>4, <1>5, <1>6, <1>7, <1>11, <1>12
  <2>2. /\ head \o back \in Seq(KeySet) /\ Len(head \o back) = Len(head) + Len(back)
        /\ \A j \in 1 .. Len(head) + Len(back) : (head \o back)[j] =
             IF j <= Len(head) THEN head[j] ELSE back[j - Len(head)]
    <3>1. head \in Seq(KeySet) /\ back \in Seq(KeySet)
      BY <1>10, <1>13
    <3> QED
      BY <3>1, ConcatProperties
  <2>3. Len(head) = g + 1 /\ Len(back) = n - g
    BY <1>10, <1>13
  <2> QED
    BY <2>1, <2>2, <2>3
<1>15. ASSUME NEW j \in 1 .. g PROVE Inserted(k, s)[j] = s[j]
  <2>1. j \in 1 .. g + 1 + (n - g) /\ j <= g + 1
    BY <1>1, <1>5
  <2> QED
    BY <1>13, <1>14, <2>1
<1>16. Inserted(k, s)[g + 1] = k
  BY <1>1, <1>5, <1>13, <1>14
<1>17. ASSUME NEW j \in g + 1 .. n PROVE Inserted(k, s)[j + 1] = s[j]
  <2>1. /\ j + 1 \in 1 .. g + 1 + (n - g) /\ ~(j + 1 <= g + 1)
        /\ (j + 1) - (g + 1) \in 1 .. n - g /\ g + ((j + 1) - (g + 1)) = j
    BY <1>1, <1>5
  <2> QED
    BY <1>10, <1>14, <2>1
<1>18. Len(Inserted(k, s)) = n + 1
  BY <1>1, <1>5, <1>14
<1> QED
  BY <1>1, <1>3, <1>5, <1>14, <1>15, <1>16, <1>17, <1>18

\* Insert adds its key to those of the list.
LEMMA InsertedHolds ==
  ASSUME NEW s \in Seq(KeySet), NEW k \in KeySet
  PROVE  ToSet(Inserted(k, s)) = ToSet(s) \cup {k}
<1> DEFINE r == Inserted(k, s)
<1>2. PICK p \in 0 .. Len(s) :
        /\ \A j \in 1 .. p : Before(s[j], k)
        /\ p < Len(s) => ~Before(s[p + 1], k)
        /\ r \in Seq(KeySet)
        /\ Len(r) = Len(s) + 1
        /\ \A j \in 1 .. p : r[j] = s[j]
        /\ r[p + 1] = k
        /\ \A j \in p + 1 .. Len(s) : r[j + 1] = s[j]
  BY InsertedIs, Zenon
<1> HIDE DEF r
<1>3. PICK n \in Nat : n = Len(s) /\ DOMAIN s = 1 .. n /\ DOMAIN r = 1 .. n + 1
  BY <1>2, LenProperties
<1>4. ASSUME NEW j \in 1 .. n + 1 PROVE r[j] \in ToSet(s) \cup {k}
  <2>1. CASE j <= p
    BY <1>2, <1>3, <2>1 DEF ToSet
  <2>2. CASE j = p + 1
    BY <1>2, <2>2
  <2>3. CASE j > p + 1
    <3>1. PICK h \in p + 1 .. n : j = h + 1
      BY <1>3, <2>3
    <3>2. h \in 1 .. n /\ r[j] = s[h]
      BY <1>2, <1>3, <3>1
    <3> QED
      BY <1>3, <3>2 DEF ToSet
  <2> QED
    BY <2>1, <2>2, <2>3
<1>5. ASSUME NEW j \in 1 .. n PROVE \E h \in 1 .. n + 1 : r[h] = s[j]
  <2>1. CASE j <= p
    BY <1>2, <2>1
  <2>2. CASE ~(j <= p)
    <3>1. j \in p + 1 .. Len(s) /\ j + 1 \in 1 .. n + 1
      BY <1>3, <2>2
    <3> QED
      BY <1>2, <3>1
  <2> QED
    BY <2>1, <2>2
<1>6. \E h \in 1 .. n + 1 : r[h] = k
  <2>1. p + 1 \in 1 .. n + 1
    BY <1>3
  <2> QED
    BY <1>2, <2>1
<1>7. ToSet(r) \subseteq ToSet(s) \cup {k}
  BY <1>3, <1>4 DEF ToSet
<1>8. ToSet(s) \cup {k} \subseteq ToSet(r)
  BY <1>3, <1>5, <1>6 DEF ToSet
<1> QED
  BY <1>7, <1>8 DEF r

\* Insert keeps a list of pairs in their order, as long as the key is new.
LEMMA InsertedSorted ==
  ASSUME NEW s \in Seq(KeySet), NEW k \in PairKeys, Sorted(s),
         ToSet(s) \subseteq PairKeys, k \notin ToSet(s)
  PROVE  Sorted(Inserted(k, s))
<1> DEFINE r == Inserted(k, s)
<1>2. k \in KeySet
  BY KeysInOrder
<1>3. PICK p \in 0 .. Len(s) :
        /\ \A j \in 1 .. p : Before(s[j], k)
        /\ p < Len(s) => ~Before(s[p + 1], k)
        /\ r \in Seq(KeySet)
        /\ Len(r) = Len(s) + 1
        /\ \A j \in 1 .. p : r[j] = s[j]
        /\ r[p + 1] = k
        /\ \A j \in p + 1 .. Len(s) : r[j + 1] = s[j]
  BY <1>2, InsertedIs, Zenon
<1> HIDE DEF r
<1>4. PICK n \in Nat : n = Len(s) /\ DOMAIN s = 1 .. n /\ DOMAIN r = 1 .. n + 1
  BY <1>3, LenProperties
<1>5. \A j \in 1 .. n : s[j] \in PairKeys /\ s[j] # k
  BY <1>4 DEF ToSet
<1>6. \A a, b \in 1 .. n : a < b => Before(s[a], s[b])
  BY <1>4 DEF Sorted
<1>7. \A j \in p + 1 .. n : Before(k, s[j])
  <2> SUFFICES ASSUME NEW j \in p + 1 .. n PROVE Before(k, s[j])
    OBVIOUS
  <2>1. p + 1 \in 1 .. n /\ p < Len(s) /\ j \in 1 .. n
    BY <1>4
  <2>2. Before(k, s[p + 1])
    BY <1>3, <1>5, <2>1, KeysInOrder
  <2>3. CASE j = p + 1
    BY <2>2, <2>3
  <2>4. CASE j # p + 1
    <3>1. p + 1 < j
      BY <2>4
    <3>2. Before(s[p + 1], s[j])
      BY <1>6, <2>1, <3>1
    <3> QED
      BY <1>5, <2>1, <2>2, <3>2, KeysInOrder
  <2> QED
    BY <2>3, <2>4
<1>8. ASSUME NEW a \in 1 .. n + 1, NEW b \in 1 .. n + 1, a < b
      PROVE  Before(r[a], r[b])
  <2>1. CASE b <= p
    <3>1. a \in 1 .. p /\ b \in 1 .. p /\ a \in 1 .. n /\ b \in 1 .. n
      BY <1>4, <1>8, <2>1
    <3> QED
      BY <1>3, <1>6, <1>8, <3>1
  <2>2. CASE b = p + 1
    <3>1. a \in 1 .. p
      BY <1>8, <2>2
    <3> QED
      BY <1>3, <2>2, <3>1
  <2>3. CASE b > p + 1
    <3>1. PICK h \in p + 1 .. n : b = h + 1 /\ h \in 1 .. n
      BY <1>4, <2>3
    <3>2. r[b] = s[h]
      BY <1>3, <1>4, <3>1
    <3>3. CASE a <= p
      <4>1. a \in 1 .. p /\ a \in 1 .. n /\ a < h
        BY <1>4, <3>1, <3>3
      <4> QED
        BY <1>3, <1>6, <3>1, <3>2, <4>1
    <3>4. CASE a = p + 1
      BY <1>3, <1>7, <3>1, <3>2, <3>4
    <3>5. CASE a > p + 1
      <4>1. PICK g \in p + 1 .. n : a = g + 1 /\ g \in 1 .. n /\ g < h
        BY <1>4, <1>8, <3>1, <3>5
      <4>2. r[a] = s[g]
        BY <1>3, <1>4, <4>1
      <4> QED
        BY <1>6, <3>1, <3>2, <4>1, <4>2
    <3> QED
      BY <3>3, <3>4, <3>5
  <2> QED
    BY <2>1, <2>2, <2>3
<1> QED
  BY <1>4, <1>8 DEF Sorted, r

\* An element of a set that has one.
AnyOf(t) == CHOOSE x \in t : TRUE

\* g holds the lists that Inserts of sets of keys leave, key by key.
InsertsTo(g, base, S) ==
  /\ FoldSet(Inserted, base, S) = g[S]
  /\ g[{}] = base
  /\ \A t \in SUBSET S : t # {} =>
       g[t] = Inserted(AnyOf(t), g[t \ {AnyOf(t)}])

LEMMA InsertsFold ==
  ASSUME NEW S, IsFiniteSet(S), S \subseteq KeySet, NEW base \in Seq(KeySet)
  PROVE  \E g : InsertsTo(g, base, S)
<1> DEFINE T == Seq(KeySet)
           Reads(f) == f = [t \in SUBSET S |->
                              IF t = {} THEN base
                              ELSE Inserted(AnyOf(t), f[t \ {AnyOf(t)}])]
           step == [p \in S \X T |-> Inserted(p[1], p[2])]
           choice == [t \in SUBSET S |-> AnyOf(t)]
<1>1. \A t \in SUBSET S : t # {} => AnyOf(t) \in t
  BY DEF AnyOf
<1>2. \A t \in SUBSET S : choice[t] = AnyOf(t)
  OBVIOUS
<1>3. \A t \in SUBSET S : t # {} => choice[t] \in t
  BY <1>1, <1>2
<1>4. step \in [S \X T -> T]
  <2>1. \A k \in S : \A s \in T : Inserted(k, s) \in T
    BY InsertedIs
  <2> QED
    BY <2>1
<1>5. \A x \in S : \A t \in T : step[<<x, t>>] = Inserted(x, t)
  OBVIOUS
<1>6. PICK f : FoldsTo(f, S, T, base, step, choice)
  <2> HIDE DEF T, step, choice
  <2>1. base \in T
    BY DEF T
  <2> QED
    BY <1>3, <1>4, <2>1, FoldExists, Zenon
<1> HIDE DEF step, choice, T
<1>7. Reads(f)
  <2>1. f \in [SUBSET S -> T] /\ f[{}] = base
    BY <1>6 DEF FoldsTo
  <2>2. ASSUME NEW t \in SUBSET S, t # {}
        PROVE  f[t] = Inserted(AnyOf(t), f[t \ {AnyOf(t)}])
    <3>1. f[t] = step[<<AnyOf(t), f[t \ {AnyOf(t)}]>>]
      BY <1>2, <1>6, <2>2 DEF FoldsTo
    <3>2. AnyOf(t) \in S /\ f[t \ {AnyOf(t)}] \in T
      BY <1>1, <2>1, <2>2
    <3> QED
      BY <1>5, <3>1, <3>2
  <2>3. f = [t \in SUBSET S |-> f[t]]
    BY <2>1
  <2>4. \A t \in SUBSET S :
          f[t] = IF t = {} THEN base ELSE Inserted(AnyOf(t), f[t \ {AnyOf(t)}])
    BY <2>1, <2>2
  <2> QED
    BY <2>3, <2>4
<1>8. PICK g : Reads(g) /\ FoldSet(Inserted, base, S) = g[S]
  <2>1. FoldSet(Inserted, base, S) = (CHOOSE g : Reads(g))[S]
    BY DEF FoldSet, MapThenFoldSet, AnyOf
  <2> HIDE DEF Reads
  <2> QED
    BY <1>7, <2>1
<1>9. \A t \in SUBSET S :
        g[t] = IF t = {} THEN base ELSE Inserted(AnyOf(t), g[t \ {AnyOf(t)}])
  BY <1>8
<1>10. {} \in SUBSET S
  OBVIOUS
<1> QED
  BY <1>8, <1>9, <1>10 DEF InsertsTo

\* It holds the keys of before and the new ones, and is as long as that says;
\* it is in the order of the pairs if it was and they are new.
LEMMA InsertsAre ==
  ASSUME NEW S, IsFiniteSet(S), S \subseteq KeySet, NEW base \in Seq(KeySet)
  PROVE  /\ FoldSet(Inserted, base, S) \in Seq(KeySet)
         /\ Len(FoldSet(Inserted, base, S)) = Len(base) + Cardinality(S)
         /\ ToSet(FoldSet(Inserted, base, S)) = ToSet(base) \cup S
         /\ /\ Sorted(base) /\ ToSet(base) \cup S \subseteq PairKeys
            /\ ToSet(base) \cap S = {}
            => Sorted(FoldSet(Inserted, base, S))
<1>1. PICK g : InsertsTo(g, base, S)
  BY InsertsFold, Zenon
<1> DEFINE New == /\ Sorted(base) /\ ToSet(base) \cup S \subseteq PairKeys
                  /\ ToSet(base) \cap S = {}
           Right(t) == /\ g[t] \in Seq(KeySet)
                       /\ Len(g[t]) = Len(base) + Cardinality(t)
                       /\ ToSet(g[t]) = ToSet(base) \cup t
                       /\ New => Sorted(g[t])
           G == {t \in SUBSET S : Right(t)}
<1>2. PICK n \in Nat : n = Len(base)
  BY LenProperties
<1>3. {} \in G
  <2>1. Cardinality({}) = 0 /\ {} \in SUBSET S
    BY FS_EmptySet
  <2>2. Right({})
    BY <1>1, <1>2, <2>1 DEF InsertsTo
  <2> QED
    BY <2>1, <2>2
<1>4. ASSUME NEW t \in SUBSET S, t # {}, \A x \in t : t \ {x} \in G
      PROVE  t \in G
  <2>1. PICK k \in t : k = AnyOf(t)
    BY <1>4 DEF AnyOf
  <2>2. PICK r \in G : r = t \ {k}
    BY <1>4
  <2>3. k \notin r /\ t = r \cup {k} /\ r \in SUBSET S
    BY <2>2
  <2>4. PICK s \in Seq(KeySet) : /\ s = g[r] /\ Len(s) = n + Cardinality(r)
                                 /\ ToSet(s) = ToSet(base) \cup r
                                 /\ New => Sorted(s)
    BY <1>2, <2>2, LenProperties
  <2>5. g[t] = Inserted(k, s) /\ k \in KeySet
    BY <1>1, <1>4, <2>1, <2>2, <2>4 DEF InsertsTo
  <2>6. Cardinality(t) = Cardinality(r) + 1 /\ Cardinality(r) \in Nat
    <3>1. IsFiniteSet(r)
      BY <2>3, FS_Subset
    <3> QED
      BY <2>3, <3>1, FS_AddElement, FS_CardinalityType
  <2>7. g[t] \in Seq(KeySet) /\ Len(g[t]) = n + Cardinality(t)
    <3>1. g[t] \in Seq(KeySet) /\ Len(g[t]) = Len(s) + 1
      BY <2>5, InsertedIs
    <3> QED
      BY <2>4, <2>6, <3>1
  <2>8. ToSet(g[t]) = ToSet(base) \cup t
    <3>1. ToSet(g[t]) = ToSet(s) \cup {k}
      BY <2>5, InsertedHolds
    <3> QED
      BY <2>4, <2>3, <3>1
  <2>9. ASSUME New PROVE Sorted(g[t])
    <3>1. k \in PairKeys /\ ToSet(s) \subseteq PairKeys /\ k \notin ToSet(s)
      BY <2>4, <2>9, <2>3
    <3> QED
      BY <2>4, <2>5, <2>9, <3>1, InsertedSorted
  <2> HIDE DEF New
  <2> QED
    BY <1>2, <2>7, <2>8, <2>9
<1>5. \A t \in SUBSET S : t \in G
  <2> HIDE DEF G
  <2> QED
    BY <1>3, <1>4, OneByOne
<1>6. Right(S)
  BY <1>5
<1> QED
  BY <1>1, <1>6 DEF InsertsTo

---------------------------------------------------------------------------
(* The bytes.                                                              *)

\* What a node takes, at most.
Full(value) == NodeSize(20) + KeySize + value

\* g counts the bytes of a list, node by node.
CountsTo(g, S, sizes, value) ==
  /\ ListSize(sizes, value) = g[S]
  /\ g[{}] = 0
  /\ \A t \in SUBSET S : t # {} =>
       g[t] = NewNode(sizes[AnyOf(t)][1], KeySize + value + sizes[AnyOf(t)][2])
              + g[t \ {AnyOf(t)}]

LEMMA ListSizeFold ==
  ASSUME NEW S, IsFiniteSet(S), NEW sizes \in [S -> Heights \X Extras],
         NEW value \in Nat
  PROVE  \E g : CountsTo(g, S, sizes, value)
<1> DEFINE Bytes(k) == NewNode(sizes[k][1], KeySize + value + sizes[k][2])
           Reads(f) == f = [t \in SUBSET S |->
                              IF t = {} THEN 0
                              ELSE Bytes(AnyOf(t)) + f[t \ {AnyOf(t)}]]
           step == [p \in S \X Nat |-> Bytes(p[1]) + p[2]]
           choice == [t \in SUBSET S |-> AnyOf(t)]
<1>1. \A t \in SUBSET S : t # {} => AnyOf(t) \in t
  BY DEF AnyOf
<1>2. \A t \in SUBSET S : choice[t] = AnyOf(t)
  OBVIOUS
<1>3. \A t \in SUBSET S : t # {} => choice[t] \in t
  BY <1>1, <1>2
<1>4. \A k \in S : Bytes(k) \in Nat
  <2> SUFFICES ASSUME NEW k \in S PROVE Bytes(k) \in Nat
    OBVIOUS
  <2>1. PICK h \in 1 .. 20, e \in Nat : h = sizes[k][1] /\ e = sizes[k][2]
    OBVIOUS
  <2> QED
    BY <2>1 DEF NewNode, NodeSize, KeySize, PointerSize
<1> HIDE DEF Bytes
<1>5. step \in [S \X Nat -> Nat]
  <2>1. \A k \in S : \A n \in Nat : Bytes(k) + n \in Nat
    BY <1>4
  <2> QED
    BY <2>1
<1>6. \A x \in S : \A n \in Nat : step[<<x, n>>] = Bytes(x) + n
  OBVIOUS
<1>7. PICK f : FoldsTo(f, S, Nat, 0, step, choice)
  <2> HIDE DEF step, choice
  <2>1. 0 \in Nat
    OBVIOUS
  <2> QED
    BY <1>3, <1>5, <2>1, FoldExists, Zenon
<1> HIDE DEF step, choice
<1>8. Reads(f)
  <2>1. f \in [SUBSET S -> Nat] /\ f[{}] = 0
    BY <1>7 DEF FoldsTo
  <2>2. ASSUME NEW t \in SUBSET S, t # {}
        PROVE  f[t] = Bytes(AnyOf(t)) + f[t \ {AnyOf(t)}]
    <3>1. f[t] = step[<<AnyOf(t), f[t \ {AnyOf(t)}]>>]
      BY <1>2, <1>7, <2>2 DEF FoldsTo
    <3>2. AnyOf(t) \in S /\ f[t \ {AnyOf(t)}] \in Nat
      BY <1>1, <2>1, <2>2
    <3> QED
      BY <1>6, <3>1, <3>2
  <2>3. f = [t \in SUBSET S |-> f[t]]
    BY <2>1
  <2>4. \A t \in SUBSET S :
          f[t] = IF t = {} THEN 0 ELSE Bytes(AnyOf(t)) + f[t \ {AnyOf(t)}]
    BY <2>1, <2>2
  <2> QED
    BY <2>3, <2>4
<1>9. PICK g : Reads(g) /\ ListSize(sizes, value) = g[S]
  <2>1. DOMAIN sizes = S
    OBVIOUS
  <2>2. ListSize(sizes, value) = (CHOOSE g : Reads(g))[S]
    BY <2>1 DEF ListSize, MapThenSumSet, MapThenFoldSet, AnyOf, Bytes
  <2> HIDE DEF Reads
  <2> QED
    BY <1>8, <2>2
<1>10. \A t \in SUBSET S :
         g[t] = IF t = {} THEN 0 ELSE Bytes(AnyOf(t)) + g[t \ {AnyOf(t)}]
  BY <1>9
<1>11. {} \in SUBSET S
  OBVIOUS
<1> QED
  BY <1>9, <1>10, <1>11 DEF Bytes, CountsTo

\* The nodes are none larger than of full height, and of whole words if the
\* value is.
NoLarger(size, n, value) ==
  /\ size <= n * Full(value)
  /\ value % 8 = 0 => size % 8 = 0

\* The bytes of a list are a number; if strlen found every key as long as it
\* is, none is longer than one of full height and they are whole words.
LEMMA ListSizeIs ==
  ASSUME NEW S, IsFiniteSet(S), NEW sizes \in [S -> Heights \X Extras],
         NEW value \in Nat
  PROVE  /\ ListSize(sizes, value) \in Nat
         /\ (\A k \in S : sizes[k][2] = 0) =>
              NoLarger(ListSize(sizes, value), Cardinality(S), value)
<1>1. PICK g : CountsTo(g, S, sizes, value)
  BY ListSizeFold, Zenon
<1> DEFINE Exact == \A k \in S : sizes[k][2] = 0
           Right(t) == /\ g[t] \in Nat
                       /\ Exact => g[t] <= Cardinality(t) * Full(value)
                       /\ Exact /\ value % 8 = 0 => g[t] % 8 = 0
           G == {t \in SUBSET S : Right(t)}
<1>2. PICK full \in Nat : full = Full(value) /\ full = 184 + value
  BY DEF Full, NodeSize, KeySize, PointerSize
<1>3. {} \in G
  <2>1. Cardinality({}) = 0 /\ {} \in SUBSET S
    BY FS_EmptySet
  <2>2. 0 * full = 0 /\ 0 % 8 = 0
    OBVIOUS
  <2>3. Right({})
    BY <1>1, <1>2, <2>1, <2>2 DEF CountsTo
  <2> QED
    BY <2>1, <2>3
<1>4. ASSUME NEW t \in SUBSET S, t # {}, \A x \in t : t \ {x} \in G
      PROVE  t \in G
  <2>1. PICK k \in t : k = AnyOf(t)
    BY <1>4 DEF AnyOf
  <2>2. PICK r \in G : r = t \ {k}
    BY <1>4
  <2>3. k \notin r /\ t = r \cup {k} /\ r \in SUBSET S
    BY <2>2
  <2>4. Cardinality(t) = Cardinality(r) + 1 /\ Cardinality(r) \in Nat
    <3>1. IsFiniteSet(r)
      BY <2>3, FS_Subset
    <3> QED
      BY <2>3, <3>1, FS_AddElement, FS_CardinalityType
  <2>5. PICK c \in Nat : c = Cardinality(r) /\ Cardinality(t) = c + 1
    BY <2>4
  <2>6. PICK b \in Nat : /\ b = g[r] /\ (Exact => b <= c * full)
                         /\ (Exact /\ value % 8 = 0 => b % 8 = 0)
    BY <1>2, <2>2, <2>5
  <2>7. PICK h \in 1 .. 20, e \in Nat : h = sizes[k][1] /\ e = sizes[k][2]
    OBVIOUS
  <2>8. g[t] = 24 + 8 * h + value + e + b
    <3>1. g[t] = NewNode(h, KeySize + value + e) + b
      BY <1>1, <1>4, <2>1, <2>2, <2>6, <2>7 DEF CountsTo
    <3> QED
      BY <3>1 DEF NewNode, NodeSize, KeySize, PointerSize
  <2>9. g[t] \in Nat
    BY <2>8
  <2>10. ASSUME Exact PROVE g[t] <= Cardinality(t) * Full(value)
    <3>1. e = 0 /\ b <= c * full
      BY <2>6, <2>7, <2>10
    <3>2. (c + 1) * full = c * full + full
      OBVIOUS
    <3>3. PICK m \in Nat : m = c * full
      <4>1. c * full \in Nat
        OBVIOUS
      <4> QED
        BY <4>1
    <3>4. 24 + 8 * h + value + b <= m + full
      BY <1>2, <3>1, <3>3
    <3> QED
      BY <1>2, <2>5, <2>8, <3>1, <3>2, <3>3, <3>4
  <2>11. ASSUME Exact, value % 8 = 0 PROVE g[t] % 8 = 0
    <3>1. e = 0 /\ b % 8 = 0
      BY <2>6, <2>7, <2>11
    <3>2. (24 + 8 * h + value + b) % 8 = 0
      BY <2>11, <3>1
    <3> QED
      BY <2>8, <3>1, <3>2
  <2> HIDE DEF Exact
  <2> QED
    BY <2>9, <2>10, <2>11
<1>5. \A t \in SUBSET S : t \in G
  <2> HIDE DEF G
  <2> QED
    BY <1>3, <1>4, OneByOne
<1>6. Right(S)
  BY <1>5
<1> QED
  BY <1>1, <1>6 DEF CountsTo, NoLarger

---------------------------------------------------------------------------
(* The invariant.                                                          *)

\* The numbers of a command line.
LEMMA ArgsAre ==
  ASSUME NEW a \in Args
  PROVE  /\ a.test \in Nat /\ a.value \in Nat /\ a.ops \in Nat
         /\ a.test = 1 => a.ops < KeyLimit
         /\ KeyLimit \in Nat
<1>1. Digits \in 0 .. Digits
  OBVIOUS
<1> QED
  BY <1>1, PowerIs DEF KeyLimit

LEMMA SizesAre ==
  ASSUME NEW v \in Nat
  PROVE  /\ HeadSize = 329 /\ PointerSize = 8
         /\ NodeSize(20) + KeySize + v = Full(v) /\ Full(v) = 184 + v
BY DEF HeadSize, NodeSize, KeySize, PointerSize, Full

\* While the counter fits, the keys in use are keys of pairs.
LEMMA KeysOfPairs ==
  ASSUME IInv, args.ops < KeyLimit
  PROVE  /\ drawn \subseteq Pairs
         /\ dram \cup ToSet(nvm) = {KeyOf(d) : d \in drawn}
         /\ dram \cup ToSet(nvm) \subseteq PairKeys
<1>0. args.ops \in Nat /\ KeyLimit \in Nat
  BY ArgsAre DEF IInv, TypeOK
<1>1. ASSUME NEW d \in drawn PROVE d \in Pairs
  <2>1. PICK c \in Nat : c = Cardinality(drawn) /\ c <= args.ops
    BY FS_CardinalityType DEF IInv, CountedPairs
  <2>2. d \in Nat \X Nat /\ d[1] < args.ops /\ d[2] \in 1 .. c
    BY <2>1 DEF IInv, TypeOK, CountedPairs
  <2>3. d[1] \in Nat /\ d[2] \in Nat
    BY <2>2
  <2>4. d[1] < KeyLimit /\ d[2] < KeyLimit
    BY <1>0, <2>1, <2>2, <2>3
  <2> QED
    BY <2>2, <2>4 DEF Pairs
<1>2. dram \cup ToSet(nvm) = {KeyOf(d) : d \in drawn}
  BY DEF IInv, KeysPlaced, KeyOf
<1> QED
  BY <1>1, <1>2 DEF PairKeys

\* The pair of a round of the loop is new, and so is its key while the
\* counter fits.
LEMMA NewPair ==
  ASSUME IInv, phase = "loop", i <= args.ops, NEW number \in 0 .. args.ops - 1
  PROVE  /\ i \in Nat /\ i >= 1 /\ number \in Nat /\ number < args.ops
         /\ Cardinality(drawn) = i - 1
         /\ IsFiniteSet(drawn \cup {<<number, i>>})
         /\ Cardinality(drawn \cup {<<number, i>>}) = i
         /\ \A d \in drawn \cup {<<number, i>>} : d[1] < args.ops /\ d[2] \in 1 .. i
         /\ Key(number, i) \in KeySet
         /\ args.ops < KeyLimit =>
              /\ Key(number, i) \in PairKeys
              /\ Key(number, i) \notin dram \cup ToSet(nvm)
<1>0. args.ops \in Nat /\ KeyLimit \in Nat
  BY ArgsAre DEF IInv, TypeOK
<1>1. i \in Nat /\ i >= 1 /\ number \in Nat /\ number < args.ops
  BY <1>0 DEF IInv, TypeOK
<1>2. Cardinality(drawn) = i - 1 /\ IsFiniteSet(drawn)
  BY DEF IInv, CountedPairs
<1>3. \A d \in drawn : d[1] < args.ops /\ d[2] \in 1 .. i - 1
  BY <1>2 DEF IInv, CountedPairs
<1>4. <<number, i>> \notin drawn
  BY <1>1, <1>3
<1>5. /\ IsFiniteSet(drawn \cup {<<number, i>>})
      /\ Cardinality(drawn \cup {<<number, i>>}) = i
  <2>1. /\ IsFiniteSet(drawn \cup {<<number, i>>})
        /\ Cardinality(drawn \cup {<<number, i>>}) = Cardinality(drawn) + 1
    BY <1>2, <1>4, FS_AddElement
  <2>2. (i - 1) + 1 = i
    BY <1>1
  <2> QED
    BY <1>2, <2>1, <2>2
<1>6. ASSUME NEW d \in drawn \cup {<<number, i>>}
      PROVE  d[1] < args.ops /\ d[2] \in 1 .. i
  <2>1. CASE d \in drawn
    <3>1. d[1] < args.ops /\ d[2] \in 1 .. i - 1
      BY <1>3, <2>1
    <3> QED
      BY <1>1, <3>1
  <2>2. CASE d = <<number, i>>
    BY <1>1, <2>2
  <2> QED
    BY <2>1, <2>2
<1>7. Key(number, i) \in KeySet
  BY <1>1, KeyIs
<1>8. ASSUME args.ops < KeyLimit
      PROVE  /\ Key(number, i) \in PairKeys
             /\ Key(number, i) \notin dram \cup ToSet(nvm)
  <2>1. PICK d \in Pairs : d = <<number, i>>
    <3>1. <<number, i>> \in Nat \X Nat /\ number < KeyLimit /\ i < KeyLimit
      BY <1>0, <1>1, <1>8
    <3>2. <<number, i>> \in Pairs
      BY <3>1 DEF Pairs
    <3> QED
      BY <3>2
  <2>2. Key(number, i) = KeyOf(d)
    BY <2>1 DEF KeyOf
  <2>3. ASSUME NEW e \in drawn PROVE KeyOf(e) # KeyOf(d)
    <3>1. e \in Pairs /\ e # d
      BY <1>4, <1>8, <2>1, KeysOfPairs
    <3> QED
      BY <3>1, DecodedKey
  <2> QED
    BY <1>8, <2>2, <2>3, KeysOfPairs DEF PairKeys
<1> QED
  BY <1>1, <1>2, <1>5, <1>6, <1>7, <1>8

\* A list in order is found in order.
LEMMA InOrderFound ==
  ASSUME NEW s \in Seq(KeySet), Sorted(s),
         \A k \in ToSet(s) : \E d \in Pairs : d[2] >= 1 /\ k = KeyOf(d)
  PROVE  ~OutOfOrder(s)
<1>1. DOMAIN s = 1 .. Len(s) /\ Len(s) \in Nat
  BY LenProperties
<1>2. ASSUME NEW j \in DOMAIN s
      PROVE  \E d \in Pairs : d[2] >= 1 /\ s[j] = KeyOf(d) /\ Decoded(s[j]) = d
  <2>1. s[j] \in ToSet(s)
    BY DEF ToSet
  <2>2. PICK d \in Pairs : d[2] >= 1 /\ s[j] = KeyOf(d)
    BY <2>1
  <2> QED
    BY <2>2, DecodedKey
<1>3. SUFFICES ASSUME NEW j \in DOMAIN s
      PROVE  ~Complains(IF j = 1 THEN <<0, 0>> ELSE Decoded(s[j - 1]), Decoded(s[j]))
  BY DEF OutOfOrder
<1>4. PICK d \in Pairs : d[2] >= 1 /\ s[j] = KeyOf(d) /\ Decoded(s[j]) = d
  BY <1>2
<1>5. CASE j = 1
  <2>1. d[1] \in Nat /\ d[2] \in Nat
    BY DEF Pairs
  <2>2. ~Complains(<<0, 0>>, d)
    BY <1>4, <2>1 DEF Complains
  <2> QED
    BY <1>4, <1>5, <2>2
<1>6. CASE j # 1
  <2>1. j - 1 \in DOMAIN s /\ j - 1 < j
    BY <1>1, <1>6
  <2>2. PICK e \in Pairs : s[j - 1] = KeyOf(e) /\ Decoded(s[j - 1]) = e
    BY <1>2, <2>1
  <2>3. Before(KeyOf(e), KeyOf(d))
    BY <1>4, <2>1, <2>2 DEF Sorted
  <2>4. Less(e, d)
    BY <2>3, KeysInOrder
  <2>5. ~Complains(e, d)
    BY <2>4 DEF Complains, Less
  <2> QED
    BY <1>4, <1>6, <2>2, <2>5
<1> QED
  BY <1>5, <1>6

\* InitNvm.
LEMMA InitNvmKeeps ==
  ASSUME IInv, InitNvm
  PROVE  IInv'
<1>1. /\ phase = "init" /\ phase' \in {"divByZero", "loop"}
      /\ phase' = "divByZero" => args.value = 0 /\ used' = used
      /\ phase' = "loop" => args.value # 0 /\ used' = HeadSize
      /\ args' = args /\ i' = i /\ drawn' = drawn /\ dram' = dram /\ nvm' = nvm
      /\ overran' = overran /\ error' = error
  BY DEF InitNvm
<1>2. HeadSize = 329 /\ PointerSize = 8 /\ args.value \in Nat
  BY ArgsAre, SizesAre DEF IInv, TypeOK
<1>3. i = 1 /\ drawn = {} /\ used = 0
  BY <1>1, SMT DEF IInv, Reached
<1>4. TypeOK'
  BY <1>1, <1>2 DEF IInv, TypeOK, Ends
<1>5. CountedPairs'
  <2>1. Cardinality(drawn) = 0
    BY <1>3, FS_EmptySet
  <2> QED
    BY <1>1, <1>3, <2>1 DEF IInv, CountedPairs
<1>6. KeysPlaced'
  BY <1>1 DEF IInv, KeysPlaced, Sorted
<1>7. BytesCounted'
  <2>1. PICK n \in Nat, m \in Nat :
          n = Len(nvm) /\ m = Len(nvm) * (NodeSize(20) + KeySize + args.value)
    <3>1. PICK n \in Nat : n = Len(nvm)
      BY LenProperties DEF IInv, TypeOK
    <3>2. PICK f \in Nat : f = NodeSize(20) + KeySize + args.value
      BY <1>2, SizesAre
    <3>3. n * f \in Nat
      OBVIOUS
    <3> QED
      BY <3>1, <3>2, <3>3
  <2>2. used' <= HeadSize + m
    BY <1>1, <1>2, <1>3
  <2>3. phase' = "loop" => used' % PointerSize = 1
    BY <1>1, <1>2
  <2> QED
    BY <1>1, <2>1, <2>2, <2>3 DEF BytesCounted
<1>8. Reached'
  BY <1>1, <1>3, SMT DEF IInv, Reached
<1>9. NoOrderError'
  BY <1>1 DEF IInv, NoOrderError
<1>10. DividesByZero'
  BY <1>1, <1>3, SMT DEF IInv, DividesByZero
<1> QED
  BY <1>4, <1>5, <1>6, <1>7, <1>8, <1>9, <1>10 DEF IInv

\* ParseInput, LastFlush, RunEmptyList, JoinPool and Ended, which change the phase only.
LEMMA PhaseKeeps ==
  ASSUME IInv, ParseInput \/ LastFlush \/ RunEmptyList \/ JoinPool \/ UNCHANGED vars
  PROVE  IInv'
<1>1. /\ args' = args /\ i' = i /\ drawn' = drawn /\ dram' = dram /\ nvm' = nvm
      /\ used' = used /\ overran' = overran /\ error' = error
      /\ \/ phase' \in {"usage", "assertion", phase}
         \/ phase = "parse" /\ phase' = "init"
         \/ phase = "loop" /\ phase' = "join" /\ i > args.ops
         \/ phase = "join" /\ phase' = "done" /\ args.ops # 0
  BY DEF ParseInput, LastFlush, RunEmptyList, JoinPool, vars, data
<1>2. args.ops \in Nat /\ args.value \in Nat /\ i \in Nat
  BY ArgsAre DEF IInv, TypeOK
<1>3. TypeOK'
  BY <1>1 DEF IInv, TypeOK, Ends
<1>4. CountedPairs'
  BY <1>1 DEF IInv, CountedPairs
<1>5. KeysPlaced'
  BY <1>1 DEF IInv, KeysPlaced, Sorted
<1>6. BytesCounted'
  BY <1>1 DEF IInv, BytesCounted
<1>7. Reached'
  BY <1>1, <1>2, SMT DEF IInv, Reached
<1>8. NoOrderError'
  BY <1>1 DEF IInv, NoOrderError
<1>9. DividesByZero'
  BY <1>1, <1>2, <1>7, SMT DEF IInv, DividesByZero, Reached
<1> QED
  BY <1>3, <1>4, <1>5, <1>6, <1>7, <1>8, <1>9 DEF IInv

\* PrintList finds the list in order while the counter fits.
LEMMA PrintListKeeps ==
  ASSUME IInv, PrintList
  PROVE  IInv'
<1>1. /\ phase = "loop" /\ args.test = 0 /\ phase' = "done" /\ error' = OutOfOrder(nvm)
      /\ args' = args /\ i' = i /\ drawn' = drawn /\ dram' = dram /\ nvm' = nvm
      /\ used' = used /\ overran' = overran
  BY DEF PrintList
<1>2. TypeOK'
  BY <1>1 DEF IInv, TypeOK, Ends, OutOfOrder
<1>3. CountedPairs'
  BY <1>1 DEF IInv, CountedPairs
<1>4. KeysPlaced'
  BY <1>1 DEF IInv, KeysPlaced, Sorted
<1>5. BytesCounted'
  BY <1>1 DEF IInv, BytesCounted
<1>6. Reached'
  BY <1>1, SMT DEF IInv, Reached
<1>7. ASSUME args.ops < KeyLimit PROVE ~OutOfOrder(nvm)
  <2>1. ASSUME NEW k \in ToSet(nvm)
        PROVE  \E d \in Pairs : d[2] >= 1 /\ k = KeyOf(d)
    <3>1. PICK d \in drawn : d \in Pairs /\ k = KeyOf(d)
      BY <1>7, KeysOfPairs
    <3>2. d[2] \in 1 .. Cardinality(drawn)
      BY DEF IInv, CountedPairs
    <3>3. d[2] >= 1
      BY <3>2
    <3> QED
      BY <3>1, <3>3
  <2>2. nvm \in Seq(KeySet) /\ Sorted(nvm)
    BY <1>7 DEF IInv, TypeOK, KeysPlaced
  <2> QED
    BY <2>1, <2>2, InOrderFound
<1>8. NoOrderError'
  <2>1. args.ops \in Nat /\ KeyLimit \in Nat
    BY ArgsAre DEF IInv, TypeOK
  <2> QED
    BY <1>1, <1>7, <2>1 DEF NoOrderError
<1>9. DividesByZero'
  BY <1>1, <1>6, SMT DEF IInv, DividesByZero, Reached
<1> QED
  BY <1>2, <1>3, <1>4, <1>5, <1>6, <1>8, <1>9 DEF IInv

\* One round of the loop of write_to_nvm.
LEMMA WriteToNvmKeeps ==
  ASSUME IInv, WriteToNvm
  PROVE  IInv'
<1>1. PICK number \in 0 .. args.ops - 1, h \in Heights :
        /\ drawn' = drawn \cup {<<number, i>>}
        /\ nvm' = Inserted(Key(number, i), nvm)
        /\ used' = used + NewNode(h, KeySize + args.value)
  BY DEF WriteToNvm, Counter
<1>2. /\ phase = "loop" /\ args.test = 0 /\ i <= args.ops
      /\ phase' = phase /\ i' = i + 1
      /\ args' = args /\ dram' = dram /\ overran' = overran /\ error' = error
  BY DEF WriteToNvm, AfterInsert
<1>3. /\ i \in Nat /\ i >= 1 /\ number \in Nat /\ number < args.ops
      /\ Cardinality(drawn) = i - 1
      /\ IsFiniteSet(drawn')
      /\ Cardinality(drawn') = i
      /\ \A d \in drawn' : d[1] < args.ops /\ d[2] \in 1 .. i
  BY <1>1, <1>2, NewPair
<1>4. PICK k \in KeySet : /\ k = Key(number, i)
                          /\ args.ops < KeyLimit =>
                               k \in PairKeys /\ k \notin dram \cup ToSet(nvm)
  BY <1>2, NewPair
<1>5. /\ nvm \in Seq(KeySet) /\ nvm' = Inserted(k, nvm)
      /\ args.ops \in Nat /\ args.value \in Nat /\ dram = {}
  BY <1>1, <1>2, <1>4, ArgsAre DEF IInv, TypeOK
<1>6. PICK n \in Nat : n = Len(nvm)
  BY <1>5, LenProperties
<1>7. /\ nvm' \in Seq(KeySet) /\ Len(nvm') = n + 1
      /\ ToSet(nvm') = ToSet(nvm) \cup {k}
  <2>1. Inserted(k, nvm) \in Seq(KeySet) /\ Len(Inserted(k, nvm)) = Len(nvm) + 1
    BY <1>5, InsertedIs
  <2>2. ToSet(Inserted(k, nvm)) = ToSet(nvm) \cup {k}
    BY <1>5, InsertedHolds
  <2>3. ToSet(nvm') = ToSet(Inserted(k, nvm))
    BY <1>5
  <2> QED
    BY <1>5, <1>6, <2>1, <2>2, <2>3
<1>8. PICK size \in Nat : /\ size = NewNode(h, KeySize + args.value)
                          /\ size <= 184 + args.value
                          /\ args.value % 8 = 0 => size % 8 = 0
  <2>1. PICK g \in 1 .. 20 : g = h
    OBVIOUS
  <2>2. NewNode(h, KeySize + args.value) = 24 + 8 * g + args.value
    BY <1>5, <2>1 DEF NewNode, NodeSize, KeySize, PointerSize
  <2>3. PICK v \in Nat : v = args.value
    BY <1>5
  <2>4. PICK size \in Nat : size = 24 + 8 * g + v
    OBVIOUS
  <2>5. size <= 184 + v /\ (v % 8 = 0 => size % 8 = 0)
    BY <2>4
  <2> QED
    BY <2>2, <2>3, <2>4, <2>5
<1>9. PICK u \in Nat : u = used /\ used' = u + size
  BY <1>1, <1>8 DEF IInv, TypeOK
<1>10. TypeOK'
  <2>1. i' \in 1 .. args.ops + 1 /\ <<number, i>> \in Nat \X Nat /\ used' \in Nat
    BY <1>2, <1>3, <1>5, <1>9
  <2> QED
    BY <1>1, <1>2, <1>7, <2>1 DEF IInv, TypeOK
<1>11. CountedPairs'
  BY <1>2, <1>3 DEF CountedPairs
<1>12. KeysPlaced'
  <2>1. dram' \cup ToSet(nvm') = {Key(d[1], d[2]) : d \in drawn'}
    <3>1. dram \cup ToSet(nvm) = {Key(d[1], d[2]) : d \in drawn}
      BY DEF IInv, KeysPlaced
    <3>2. <<number, i>>[1] = number /\ <<number, i>>[2] = i
      OBVIOUS
    <3>3. {Key(d[1], d[2]) : d \in drawn \cup {<<number, i>>}} =
            {Key(d[1], d[2]) : d \in drawn} \cup {Key(number, i)}
      BY <3>2
    <3>4. dram' \cup ToSet(nvm') = (dram \cup ToSet(nvm)) \cup {k}
      BY <1>2, <1>7
    <3> QED
      BY <1>1, <1>4, <3>1, <3>3, <3>4
  <2>2. Cardinality(dram') + Len(nvm') = Cardinality(drawn')
    <3>1. Cardinality(dram) = 0
      BY <1>5, FS_EmptySet
    <3>2. 0 + n = i - 1
      BY <1>3, <1>6, <3>1 DEF IInv, KeysPlaced
    <3> QED
      BY <1>2, <1>3, <1>7, <3>1, <3>2
  <2>3. args.ops < KeyLimit => Sorted(nvm')
    <3>1. ASSUME args.ops < KeyLimit PROVE Sorted(Inserted(k, nvm))
      <4>1. Sorted(nvm) /\ ToSet(nvm) \subseteq PairKeys
        BY <3>1, KeysOfPairs DEF IInv, KeysPlaced
      <4> QED
        BY <1>4, <1>5, <3>1, <4>1, InsertedSorted
    <3> QED
      BY <1>5, <3>1
  <2> QED
    BY <1>2, <1>5, <2>1, <2>2, <2>3 DEF KeysPlaced, Sorted
<1>13. BytesCounted'
  <2>1. PICK full \in Nat :
          full = NodeSize(20) + KeySize + args.value /\ full = 184 + args.value
    <3>1. NodeSize(20) + KeySize + args.value = 184 + args.value
      BY <1>5 DEF NodeSize, KeySize, PointerSize
    <3>2. 184 + args.value \in Nat
      BY <1>5
    <3> QED
      BY <3>1, <3>2
  <2>2. HeadSize = 329 /\ PointerSize = 8
    BY <1>5, SizesAre
  <2>3. ASSUME ~overran PROVE u + size <= 329 + (n + 1) * full
    <3>1. u <= 329 + n * full
      BY <1>6, <1>9, <2>1, <2>2, <2>3 DEF IInv, BytesCounted
    <3>2. (n + 1) * full = n * full + full
      OBVIOUS
    <3>3. PICK m \in Nat : m = n * full
      <4>1. n * full \in Nat
        OBVIOUS
      <4> QED
        BY <4>1
    <3>4. u <= 329 + m /\ (n + 1) * full = m + full
      BY <3>1, <3>2, <3>3
    <3>5. size <= full
      BY <1>8, <2>1
    <3>6. u + size <= 329 + (m + full)
      BY <3>4, <3>5
    <3> QED
      BY <3>4, <3>6
  <2>4. ASSUME ~overran, args.value % 8 = 0 PROVE (u + size) % 8 = 1
    <3>1. u % 8 = 1
      BY <1>2, <1>9, <2>2, <2>4 DEF IInv, BytesCounted
    <3> QED
      BY <1>8, <2>4, <3>1
  <2> QED
    BY <1>2, <1>7, <1>9, <2>1, <2>2, <2>3, <2>4 DEF BytesCounted
<1>14. Reached'
  BY <1>2, SMT DEF IInv, Reached
<1>15. NoOrderError'
  BY <1>2 DEF IInv, NoOrderError
<1>16. DividesByZero'
  BY <1>2, SMT DEF IInv, DividesByZero
<1> QED
  BY <1>10, <1>11, <1>12, <1>13, <1>14, <1>15, <1>16 DEF IInv

\* One round of the loop of write_to_dram.
LEMMA WriteToDramKeeps ==
  ASSUME IInv, WriteToDram
  PROVE  IInv'
<1>1. PICK number \in 0 .. args.ops - 1 :
        /\ drawn' = drawn \cup {<<number, i>>}
        /\ dram' = dram \cup {Key(number, i)}
  BY DEF WriteToDram, Counter
<1>2. /\ phase = "loop" /\ args.test = 1 /\ i <= args.ops
      /\ args' = args /\ nvm' = nvm /\ used' = used
      /\ overran' = overran /\ error' = error
  BY DEF WriteToDram
<1>3. \/ Per1g = 0 /\ phase' = "divByZero" /\ i' = i
      \/ Per1g # 0 /\ phase' = phase /\ i' = i + 1
  BY <1>2 DEF WriteToDram, AfterInsert
<1>4. /\ i \in Nat /\ i >= 1 /\ number \in Nat /\ number < args.ops
      /\ Cardinality(drawn) = i - 1
      /\ IsFiniteSet(drawn')
      /\ Cardinality(drawn') = i
      /\ \A d \in drawn' : d[1] < args.ops /\ d[2] \in 1 .. i
  BY <1>1, <1>2, NewPair
<1>5. args.ops \in Nat /\ args.value \in Nat /\ args.ops < KeyLimit
  BY <1>2, ArgsAre DEF IInv, TypeOK
<1>6. PICK k \in KeySet : /\ k = Key(number, i)
                          /\ k \in PairKeys /\ k \notin dram \cup ToSet(nvm)
  BY <1>2, <1>5, NewPair
<1>7. ToSet(nvm') = ToSet(nvm) /\ Len(nvm') = Len(nvm)
  BY <1>2
<1>8. TypeOK'
  <2>1. i' \in 1 .. args.ops + 1 /\ <<number, i>> \in Nat \X Nat
    BY <1>2, <1>3, <1>4, <1>5
  <2>2. phase' \in {"parse", "init", "loop", "join"} \cup Ends
    BY <1>2, <1>3 DEF Ends
  <2> QED
    BY <1>1, <1>2, <1>6, <2>1, <2>2 DEF IInv, TypeOK
<1>9. CountedPairs'
  BY <1>2, <1>3, <1>4 DEF CountedPairs
<1>10. KeysPlaced'
  <2>1. dram' \cup ToSet(nvm') = {Key(d[1], d[2]) : d \in drawn'}
    <3>1. dram \cup ToSet(nvm) = {Key(d[1], d[2]) : d \in drawn}
      BY DEF IInv, KeysPlaced
    <3>2. <<number, i>>[1] = number /\ <<number, i>>[2] = i
      OBVIOUS
    <3>3. {Key(d[1], d[2]) : d \in drawn \cup {<<number, i>>}} =
            {Key(d[1], d[2]) : d \in drawn} \cup {Key(number, i)}
      BY <3>2
    <3>4. dram' \cup ToSet(nvm') = (dram \cup ToSet(nvm)) \cup {k}
      BY <1>1, <1>6, <1>7
    <3> QED
      BY <1>1, <1>6, <3>1, <3>3, <3>4
  <2>2. Cardinality(dram') + Len(nvm') = Cardinality(drawn')
    <3>1. IsFiniteSet(dram)
      <4>1. IsFiniteSet({KeyOf(d) : d \in drawn})
        <5>1. [d \in drawn |-> KeyOf(d)]
                \in Surjection(drawn, {KeyOf(d) : d \in drawn})
          BY DEF Surjection
        <5> QED
          BY <5>1, FS_Surjection DEF IInv, CountedPairs
      <4> QED
        BY <1>5, <4>1, KeysOfPairs, FS_Subset
    <3>2. Cardinality(dram') = Cardinality(dram) + 1 /\ Cardinality(dram) \in Nat
      BY <1>1, <1>6, <3>1, FS_AddElement, FS_CardinalityType
    <3>3. PICK n \in Nat : n = Len(nvm)
      BY LenProperties DEF IInv, TypeOK
    <3>4. Cardinality(dram) + n = i - 1
      BY <1>4, <3>3 DEF IInv, KeysPlaced
    <3> QED
      BY <1>4, <1>7, <3>2, <3>3, <3>4
  <2>3. Sorted(nvm) /\ dram \cap ToSet(nvm) = {}
    BY <1>5 DEF IInv, KeysPlaced
  <2>4. dram' \cap ToSet(nvm') = {}
    BY <1>1, <1>6, <1>7, <2>3
  <2> QED
    BY <1>2, <2>1, <2>2, <2>3, <2>4 DEF KeysPlaced, Sorted
<1>11. BytesCounted'
  BY <1>2, <1>3, <1>7 DEF IInv, BytesCounted
<1>12. args.value # 0
  BY <1>2, SMT DEF IInv, Reached
<1>13. Per1g = 0 <=> args.value > 1024000
  <2>1. PICK v \in Nat : v = args.value /\ v # 0
    BY <1>5, <1>12
  <2>2. PICK q \in Int : q = 1024000 \div v
    BY <2>1
  <2>3. Per1g = q * 1000
    BY <2>1, <2>2, SMT DEF Per1g
  <2>4. 1024000 = v * q + (1024000 % v) /\ 1024000 % v \in 0 .. v - 1
    BY <2>1, <2>2, SMT
  <2>5. q = 0 => v > 1024000
    BY <2>1, <2>4, SMT
  <2>6. v > 1024000 => q = 0
    <3> SUFFICES ASSUME v > 1024000, q # 0 PROVE FALSE
      BY SMT
    <3>1. PICK r \in Int : r = 1024000 % v /\ 0 <= r /\ r < v
      BY <2>1, <2>4, SMT
    <3>2. CASE q >= 1
      <4>1. v * q >= v
        BY <3>2, SMT
      <4> QED
        BY <2>4, <3>1, <4>1, SMT
    <3>3. CASE q <= -1
      <4>1. v * q <= -v
        BY <3>3, SMT
      <4> QED
        BY <2>4, <3>1, <4>1, SMT
    <3> QED
      BY <3>2, <3>3, SMT
  <2> QED
    BY <2>1, <2>3, <2>5, <2>6, SMT
<1>14. Reached'
  BY <1>2, <1>3, <1>5, <1>13, SMT DEF IInv, Reached
<1>15. NoOrderError'
  BY <1>2 DEF IInv, NoOrderError
<1>16. DividesByZero'
  <2>1. ASSUME Per1g = 0 PROVE i = 1
    <3>1. args.value > 1024000
      BY <1>13, <2>1
    <3> QED
      BY <1>2, <1>4, <1>5, <3>1, SMT DEF IInv, Reached
  <2> QED
    BY <1>2, <1>3, <1>4, <1>13, <2>1, SMT DEF IInv, DividesByZero
<1> QED
  BY <1>8, <1>9, <1>10, <1>11, <1>14, <1>15, <1>16 DEF IInv

\* FlushNVM::Run: the list is in order, and what is in NVM stays so.
LEMMA FlushListKeeps ==
  ASSUME IInv, FlushList
  PROVE  IInv'
<1>1. PICK list \in (SUBSET dram) \ {{}} : \E sizes \in [list -> Heights \X Extras] :
        /\ dram' = dram \ list
        /\ nvm' = FoldSet(Inserted, nvm, list)
        /\ used' = used + ListSize(sizes, args.value)
        /\ overran' = (overran \/ \E k \in list : sizes[k][2] > 0)
        /\ error' = (error \/ OutOfOrder(ListOf(list)))
  BY DEF FlushList
<1>2. PICK sizes \in [list -> Heights \X Extras] :
        /\ used' = used + ListSize(sizes, args.value)
        /\ overran' = (overran \/ \E k \in list : sizes[k][2] > 0)
  BY <1>1
<1>3. /\ dram' = dram \ list /\ nvm' = FoldSet(Inserted, nvm, list)
      /\ error' = (error \/ OutOfOrder(ListOf(list)))
      /\ phase \in {"loop", "join"} /\ phase' = phase
      /\ args' = args /\ i' = i /\ drawn' = drawn
  BY <1>1 DEF FlushList
<1>4. list \subseteq dram /\ list # {}
  BY <1>1
<1>5. /\ args.ops \in Nat /\ args.value \in Nat /\ args.ops < KeyLimit
      /\ nvm \in Seq(KeySet) /\ list \subseteq KeySet
  BY <1>4, ArgsAre DEF IInv, TypeOK
<1>6. /\ dram \cup ToSet(nvm) \subseteq PairKeys
      /\ dram \cup ToSet(nvm) = {KeyOf(d) : d \in drawn} /\ drawn \subseteq Pairs
  BY <1>5, KeysOfPairs
<1>7. IsFiniteSet(dram) /\ IsFiniteSet(list)
  <2>1. [d \in drawn |-> KeyOf(d)] \in Surjection(drawn, {KeyOf(d) : d \in drawn})
    BY DEF Surjection
  <2>2. IsFiniteSet({KeyOf(d) : d \in drawn})
    BY <2>1, FS_Surjection DEF IInv, CountedPairs
  <2> QED
    BY <1>4, <1>6, <2>2, FS_Subset
<1>8. PICK c \in Nat, n \in Nat : c = Cardinality(list) /\ n = Len(nvm)
  BY <1>5, <1>7, FS_CardinalityType, LenProperties
<1>9. /\ nvm' \in Seq(KeySet) /\ Len(nvm') = n + c
      /\ ToSet(nvm') = ToSet(nvm) \cup list
      /\ Sorted(nvm')
  <2>1. /\ FoldSet(Inserted, nvm, list) \in Seq(KeySet)
        /\ Len(FoldSet(Inserted, nvm, list)) = Len(nvm) + Cardinality(list)
        /\ ToSet(FoldSet(Inserted, nvm, list)) = ToSet(nvm) \cup list
        /\ /\ Sorted(nvm) /\ ToSet(nvm) \cup list \subseteq PairKeys
           /\ ToSet(nvm) \cap list = {}
           => Sorted(FoldSet(Inserted, nvm, list))
    BY <1>5, <1>7, InsertsAre, Zenon
  <2>2. Sorted(nvm)
    BY <1>5 DEF IInv, KeysPlaced
  <2>3. ToSet(nvm) \cup list \subseteq PairKeys
    BY <1>4, <1>6
  <2>4. ToSet(nvm) \cap list = {}
    BY <1>4 DEF IInv, KeysPlaced
  <2>5. PICK s : s = FoldSet(Inserted, nvm, list) /\ nvm' = s
    BY <1>3
  <2>6. /\ s \in Seq(KeySet) /\ Len(s) = Len(nvm) + Cardinality(list)
        /\ ToSet(s) = ToSet(nvm) \cup list /\ Sorted(s)
    BY <2>1, <2>2, <2>3, <2>4, <2>5
  <2> QED
    BY <1>8, <2>5, <2>6
<1>10. ~OutOfOrder(ListOf(list))
  <2>1. <<>> \in Seq(KeySet) /\ ToSet(<<>>) = {} /\ Sorted(<<>>)
    <3>1. <<>> \in Seq(KeySet) /\ DOMAIN <<>> = {}
      OBVIOUS
    <3> QED
      BY <3>1 DEF ToSet, Sorted
  <2>2. PICK none \in Seq(KeySet) : none = <<>> /\ ToSet(none) = {} /\ Sorted(none)
    BY <2>1
  <2>3. /\ FoldSet(Inserted, none, list) \in Seq(KeySet)
        /\ ToSet(FoldSet(Inserted, none, list)) = ToSet(none) \cup list
        /\ /\ Sorted(none) /\ ToSet(none) \cup list \subseteq PairKeys
           /\ ToSet(none) \cap list = {}
           => Sorted(FoldSet(Inserted, none, list))
    BY <1>5, <1>7, InsertsAre, Zenon
  <2>4. ListOf(list) = FoldSet(Inserted, none, list)
    BY <2>2 DEF ListOf
  <2>5. PICK s : s = FoldSet(Inserted, none, list)
    OBVIOUS
  <2>6. ToSet(none) \cup list \subseteq PairKeys /\ ToSet(none) \cap list = {}
    BY <1>4, <1>6, <2>2
  <2>7. s \in Seq(KeySet) /\ ToSet(s) = list /\ Sorted(s)
    BY <2>2, <2>3, <2>5, <2>6
  <2>8. ASSUME NEW k \in ToSet(s)
        PROVE  \E d \in Pairs : d[2] >= 1 /\ k = KeyOf(d)
    <3>1. PICK d \in drawn : d \in Pairs /\ k = KeyOf(d)
      BY <1>4, <1>6, <2>7, <2>8
    <3>2. d[2] \in 1 .. Cardinality(drawn)
      BY DEF IInv, CountedPairs
    <3>3. d[2] >= 1
      BY <3>2
    <3> QED
      BY <3>1, <3>3
  <2> QED
    BY <2>4, <2>5, <2>7, <2>8, InOrderFound
<1>11. PICK size \in Nat :
         /\ size = ListSize(sizes, args.value)
         /\ ~overran' => /\ size <= c * Full(args.value)
                         /\ args.value % 8 = 0 => size % 8 = 0
  <2>1. /\ ListSize(sizes, args.value) \in Nat
        /\ (\A k \in list : sizes[k][2] = 0) =>
             NoLarger(ListSize(sizes, args.value), Cardinality(list), args.value)
    BY <1>5, <1>7, ListSizeIs, Zenon
  <2>2. ASSUME ~overran', NEW k \in list PROVE sizes[k][2] = 0
    <3>1. sizes[k][2] \in Nat
      OBVIOUS
    <3>2. ~(sizes[k][2] > 0)
      BY <1>2, <2>2
    <3> QED
      BY <3>1, <3>2
  <2> QED
    BY <1>8, <2>1, <2>2 DEF NoLarger
<1>12. PICK u \in Nat : u = used /\ used' = u + size
  BY <1>2, <1>11 DEF IInv, TypeOK
<1>13. TypeOK'
  <2>1. used' \in Nat /\ overran' \in BOOLEAN /\ error' \in BOOLEAN
    BY <1>2, <1>3, <1>10, <1>12 DEF IInv, TypeOK
  <2> QED
    BY <1>3, <1>9, <2>1 DEF IInv, TypeOK
<1>14. CountedPairs'
  BY <1>3 DEF IInv, CountedPairs
<1>15. KeysPlaced'
  <2>1. dram' \cup ToSet(nvm') = dram \cup ToSet(nvm)
    BY <1>3, <1>4, <1>9
  <2>2. dram' \cap ToSet(nvm') = {}
    BY <1>3, <1>9 DEF IInv, KeysPlaced
  <2>3. Cardinality(dram') + Len(nvm') = Cardinality(drawn')
    <3>1. /\ IsFiniteSet(dram \ list) /\ dram = (dram \ list) \cup list
          /\ (dram \ list) \cap list = {}
      BY <1>4, <1>7, FS_Subset
    <3>2. Cardinality(dram) = Cardinality(dram \ list) + Cardinality(list)
      <4>1. Cardinality((dram \ list) \cup list) =
              Cardinality(dram \ list) + Cardinality(list)
                - Cardinality((dram \ list) \cap list)
        BY <1>7, <3>1, FS_Union
      <4>2. Cardinality((dram \ list) \cap list) = 0
        BY <3>1, FS_EmptySet
      <4>3. Cardinality(dram \ list) \in Nat
        BY <3>1, FS_CardinalityType
      <4>4. Cardinality((dram \ list) \cup list) = Cardinality(dram)
        BY <3>1
      <4> QED
        BY <1>8, <4>1, <4>2, <4>3, <4>4
    <3>3. PICK e \in Nat : e = Cardinality(dram \ list)
      BY <3>1, FS_CardinalityType
    <3>4. Cardinality(dram) + n = Cardinality(drawn)
      BY <1>8 DEF IInv, KeysPlaced
    <3>5. Cardinality(dram') = e /\ Cardinality(drawn') = Cardinality(drawn)
      BY <1>3, <3>3
    <3>6. Cardinality(dram) = e + c
      BY <1>8, <3>2, <3>3
    <3> QED
      BY <1>9, <3>4, <3>5, <3>6
  <2> QED
    BY <1>3, <1>9, <2>1, <2>2, <2>3 DEF IInv, KeysPlaced
<1>16. BytesCounted'
  <2>1. PICK full \in Nat :
          /\ full = NodeSize(20) + KeySize + args.value /\ full = Full(args.value)
    <3>1. /\ NodeSize(20) + KeySize + args.value = 184 + args.value
          /\ Full(args.value) = 184 + args.value
      BY <1>5 DEF NodeSize, KeySize, PointerSize, Full
    <3>2. 184 + args.value \in Nat
      BY <1>5
    <3> QED
      BY <3>1, <3>2
  <2>2. HeadSize = 329 /\ PointerSize = 8
    BY <1>5, SizesAre
  <2>3. ~overran' => ~overran
    BY <1>2
  <2>4. ASSUME ~overran' PROVE u + size <= 329 + (n + c) * full
    <3>1. u <= 329 + n * full
      BY <1>8, <1>12, <2>1, <2>2, <2>3, <2>4 DEF IInv, BytesCounted
    <3>2. size <= c * full
      BY <1>11, <2>1, <2>4
    <3>3. (n + c) * full = n * full + c * full
      OBVIOUS
    <3>4. PICK m \in Nat, l \in Nat : m = n * full /\ l = c * full
      <4>1. n * full \in Nat /\ c * full \in Nat
        OBVIOUS
      <4> QED
        BY <4>1
    <3>5. u <= 329 + m /\ size <= l /\ (n + c) * full = m + l
      BY <3>1, <3>2, <3>3, <3>4
    <3>6. u + size <= 329 + (m + l)
      BY <3>5
    <3> QED
      BY <3>5, <3>6
  <2>5. ASSUME ~overran', args.value % 8 = 0 PROVE (u + size) % 8 = 1
    <3>1. u % 8 = 1
      BY <1>3, <1>12, <2>2, <2>3, <2>5 DEF IInv, BytesCounted
    <3>2. size % 8 = 0
      BY <1>11, <2>5
    <3> QED
      BY <3>1, <3>2
  <2> QED
    BY <1>3, <1>9, <1>12, <2>1, <2>2, <2>4, <2>5 DEF BytesCounted
<1>17. Reached'
  BY <1>3, SMT DEF IInv, Reached
<1>18. NoOrderError'
  BY <1>3, <1>10 DEF IInv, NoOrderError
<1>19. DividesByZero'
  BY <1>3, SMT DEF IInv, DividesByZero
<1> QED
  BY <1>13, <1>14, <1>15, <1>16, <1>17, <1>18, <1>19 DEF IInv

\* The invariant holds at the start and every action keeps it.
THEOREM Invariance == Spec => []IInv
<1>1. Init => IInv
  <2> SUFFICES ASSUME Init PROVE IInv
    OBVIOUS
  <2>1. /\ args \in Args /\ phase = "parse" /\ i = 1 /\ drawn = {} /\ dram = {}
        /\ nvm = <<>> /\ used = 0 /\ overran = FALSE /\ error = FALSE
    BY DEF Init
  <2>2. args.ops \in Nat /\ args.value \in Nat
    BY <2>1, ArgsAre
  <2>3. /\ nvm \in Seq(KeySet) /\ Len(nvm) = 0 /\ DOMAIN nvm = {}
        /\ ToSet(nvm) = {} /\ Sorted(nvm)
    <3>1. nvm \in Seq(KeySet) /\ Len(nvm) = 0 /\ DOMAIN nvm = {}
      BY <2>1
    <3> QED
      BY <3>1 DEF ToSet, Sorted
  <2>4. IsFiniteSet({}) /\ Cardinality({}) = 0
    BY FS_EmptySet
  <2>5. TypeOK
    <3>1. i \in 1 .. args.ops + 1 /\ drawn \subseteq Nat \X Nat /\ dram \subseteq KeySet
      BY <2>1, <2>2
    <3>2. used \in Nat /\ overran \in BOOLEAN /\ error \in BOOLEAN
      BY <2>1
    <3> QED
      BY <2>1, <2>3, <3>1, <3>2 DEF TypeOK
  <2>6. CountedPairs
    BY <2>1, <2>2, <2>4 DEF CountedPairs
  <2>7. KeysPlaced
    BY <2>1, <2>3, <2>4 DEF KeysPlaced
  <2>8. BytesCounted
    <3>1. HeadSize = 329
      BY <2>2, SizesAre
    <3>2. PICK f \in Nat : f = NodeSize(20) + KeySize + args.value
      <4>1. NodeSize(20) + KeySize + args.value \in Nat
        BY <2>2 DEF NodeSize, KeySize, PointerSize
      <4> QED
        BY <4>1
    <3>3. 0 <= 329 + 0 * f
      OBVIOUS
    <3> QED
      BY <2>1, <2>3, <3>1, <3>2, <3>3 DEF BytesCounted
  <2>9. Reached /\ DividesByZero
    BY <2>1, SMT DEF Reached, DividesByZero
  <2>10. NoOrderError
    BY <2>1 DEF NoOrderError
  <2> QED
    BY <2>5, <2>6, <2>7, <2>8, <2>9, <2>10 DEF IInv
<1>2. IInv /\ [Next]_vars => IInv'
  <2> SUFFICES ASSUME IInv, [Next]_vars PROVE IInv'
    OBVIOUS
  <2>1. CASE ParseInput \/ LastFlush \/ RunEmptyList \/ JoinPool \/ UNCHANGED vars
    BY <2>1, PhaseKeeps
  <2>2. CASE InitNvm
    BY <2>2, InitNvmKeeps
  <2>3. CASE WriteToNvm
    BY <2>3, WriteToNvmKeeps
  <2>4. CASE WriteToDram
    BY <2>4, WriteToDramKeeps
  <2>5. CASE FlushList
    BY <2>5, FlushListKeeps
  <2>6. CASE PrintList
    BY <2>6, PrintListKeeps
  <2>7. CASE Ended
    BY <2>7, PhaseKeeps DEF Ended
  <2> QED
    BY <2>1, <2>2, <2>3, <2>4, <2>5, <2>6, <2>7 DEF Next
<1> QED
  BY <1>1, <1>2, PTL DEF Spec

---------------------------------------------------------------------------
(* What follows.                                                           *)

\* Until the counter outgrows its digits, the bytes the lists compare tell
\* every pair from every other, in DRAM and in NVM (motivation1_main.cc:78,
\* 108).
THEOREM KeysTellPairsApart == Spec => []EveryPairHasItsKey
<1>1. IInv => EveryPairHasItsKey
  <2> SUFFICES ASSUME IInv, args.ops < KeyLimit
      PROVE  /\ {Decoded(k) : k \in dram \cup ToSet(nvm)} = drawn
             /\ Cardinality(dram) + Len(nvm) = Cardinality(drawn)
    BY DEF EveryPairHasItsKey, IInv
  <2>1. /\ drawn \subseteq Pairs
        /\ dram \cup ToSet(nvm) = {KeyOf(d) : d \in drawn}
    BY KeysOfPairs
  <2>2. \A d \in drawn : Decoded(KeyOf(d)) = d
    BY <2>1, DecodedKey
  <2>3. {Decoded(k) : k \in {KeyOf(d) : d \in drawn}} = drawn
    BY <2>2
  <2> QED
    BY <2>1, <2>3 DEF IInv, KeysPlaced
<1> QED
  BY <1>1, Invariance, PTL

\* Until then no print-out finds its list out of order: Insert puts the keys
\* into the order of their bytes, and that is the order of the pairs
\* (persistent_skip_list.cc:225, flush_nvm.cc:17).
THEOREM PrintOutsFindOrder == Spec => []NoOrderError
<1>1. IInv => NoOrderError
  BY DEF IInv
<1> QED
  BY <1>1, Invariance, PTL

\* For every size of the mapping: what Allocate hands out is bounded by
\* ops_num nodes of full height as long as no key from DRAM is longer than the
\* one inserted there (persistent_skiplist_no_transaction.cc:21,
\* flush_nvm.cc:42).
THEOREM AllocationIsBounded == Spec => []OverrunsOnlyIfTooSmall
<1>1. IInv => OverrunsOnlyIfTooSmall
  <2> SUFFICES ASSUME IInv, used > NvmSize, ~overran
      PROVE  HeadSize + args.ops * (NodeSize(20) + KeySize + args.value) > NvmSize
    BY DEF OverrunsOnlyIfTooSmall
  <2>1. args.ops \in Nat /\ args.value \in Nat
    BY ArgsAre DEF IInv, TypeOK
  <2>2. PICK f \in Nat : f = NodeSize(20) + KeySize + args.value
    <3>1. NodeSize(20) + KeySize + args.value \in Nat
      BY <2>1 DEF NodeSize, KeySize, PointerSize
    <3> QED
      BY <3>1
  <2>3. PICK n \in Nat, o \in Nat : n = Len(nvm) /\ o = args.ops
    BY <2>1, LenProperties DEF IInv, TypeOK
  <2>4. n <= o
    <3>1. IsFiniteSet(dram)
      <4>1. [d \in drawn |-> Key(d[1], d[2])]
              \in Surjection(drawn, {Key(d[1], d[2]) : d \in drawn})
        BY DEF Surjection
      <4>2. IsFiniteSet({Key(d[1], d[2]) : d \in drawn})
        BY <4>1, FS_Surjection DEF IInv, CountedPairs
      <4>3. dram \subseteq {Key(d[1], d[2]) : d \in drawn}
        BY DEF IInv, KeysPlaced
      <4> QED
        BY <4>2, <4>3, FS_Subset
    <3>2. PICK c \in Nat : c = Cardinality(dram)
      BY <3>1, FS_CardinalityType
    <3>3. c + n <= o
      BY <2>3, <3>2 DEF IInv, KeysPlaced, CountedPairs
    <3> QED
      BY <3>3
  <2>5. n * f <= o * f
    BY <2>4
  <2>6. HeadSize = 329
    BY <2>1, SizesAre
  <2>7. PICK u \in Nat : u = used
    BY DEF IInv, TypeOK
  <2>8. u <= 329 + n * f
    BY <2>2, <2>3, <2>6, <2>7 DEF IInv, BytesCounted
  <2>9. PICK m \in Nat, l \in Nat : m = n * f /\ l = o * f
    <3>1. n * f \in Nat /\ o * f \in Nat
      OBVIOUS
    <3> QED
      BY <3>1
  <2>10. u <= 329 + l
    BY <2>5, <2>8, <2>9
  <2>11. NvmSize \in Nat /\ u > NvmSize
    BY <2>7
  <2>12. 329 + l > NvmSize
    BY <2>10, <2>11
  <2> QED
    BY <2>2, <2>3, <2>6, <2>9, <2>12
<1> QED
  BY <1>1, Invariance, PTL

\* For every VALUE_SIZE of whole words the next node begins one byte behind a
\* multiple of 8 (persistent_skip_list.cc:14, 35).
THEOREM NodesStayMisaligned == Spec => []NodesMisaligned
<1>1. IInv => NodesMisaligned
  BY DEF IInv, BytesCounted, NodesMisaligned
<1> QED
  BY <1>1, Invariance, PTL

\* A run divides by zero exactly for the two kinds of VALUE_SIZE, before the
\* mapping or after the first Insert (motivation1_main.cc:74, 83, 151, 175).
THEOREM ZeroDivisors == Spec => []DividesByZero
<1>1. IInv => DividesByZero
  BY DEF IInv
<1> QED
  BY <1>1, Invariance, PTL
=============================================================================
