---------------------------- MODULE NumberLemmas ----------------------------
(***************************************************************************)
(* Facts about sets of numbers that proofs by induction rest on: a proof   *)
(* takes the least number of the set of those for which the claim fails,   *)
(* or shows that the set of those for which it holds leaves none out.      *)
(***************************************************************************)
EXTENDS WellFoundedInduction, FiniteSetTheorems, TLAPS

\* A set of numbers that is not empty has a least one.
LEMMA LeastNumber ==
  ASSUME NEW S, S \subseteq Nat, S # {}
  PROVE  \E m \in S : \A n \in S : m <= n
<1> DEFINE R == {ss \in Nat \X Nat : ss[1] < ss[2]}
<1>1. IsWellFoundedOn(R, Nat)
  BY NatLessThanWellFounded DEF OpToRel
<1>2. PICK m \in S : \A n \in S : <<n, m>> \notin R
  <2> HIDE DEF R
  <2> QED
    BY <1>1, WFMin
<1>3. ASSUME NEW n \in S PROVE m <= n
  <2>1. n \in Nat /\ m \in Nat
    OBVIOUS
  <2>2. <<n, m>> \in Nat \X Nat /\ <<n, m>>[1] = n /\ <<n, m>>[2] = m
    BY <2>1
  <2>3. n < m => <<n, m>> \in R
    BY <2>2
  <2>4. ~(n < m)
    <3> HIDE DEF R
    <3> QED
      BY <1>2, <2>3
  <2> QED
    BY <2>1, <2>4
<1> QED
  BY <1>3

\* A set of numbers with an upper bound that is not empty has a greatest one.
LEMMA GreatestNumber ==
  ASSUME NEW S, S \subseteq Nat, S # {}, NEW b \in Nat, \A n \in S : n <= b
  PROVE  \E m \in S : \A n \in S : n <= m
<1> DEFINE D == {d \in Nat : b - d \in S}
<1>1. D \subseteq Nat /\ D # {}
  <2>1. PICK n \in S : TRUE
    OBVIOUS
  <2>2. b - n \in Nat /\ b - (b - n) = n
    OBVIOUS
  <2> QED
    BY <2>1, <2>2
<1>2. PICK d \in D : \A e \in D : d <= e
  <2> HIDE DEF D
  <2> QED
    BY <1>1, LeastNumber
<1>3. ASSUME NEW n \in S PROVE n <= b - d
  <2>1. n \in Nat /\ b - n \in Nat /\ b - (b - n) = n
    OBVIOUS
  <2>2. d <= b - n
    BY <1>2, <2>1
  <2> QED
    BY <2>1, <2>2
<1> QED
  BY <1>3

\* A set that holds 0 and, with a number below m, the next one holds 0 .. m.
LEMMA UpTo ==
  ASSUME NEW m \in Nat, NEW S, 0 \in S,
         \A k \in 0 .. m : k \in S /\ k < m => k + 1 \in S
  PROVE  \A k \in 0 .. m : k \in S
<1> DEFINE Fails == {k \in 0 .. m : k \notin S}
<1>1. ASSUME Fails # {} PROVE FALSE
  <2>0. Fails \subseteq Nat
    OBVIOUS
  <2>1. PICK k \in Fails : \A j \in Fails : k <= j
    <3> HIDE DEF Fails
    <3> QED
      BY <1>1, <2>0, LeastNumber
  <2>2. k \in 0 .. m /\ k # 0 /\ k \notin S
    BY <2>1
  <2>3. k - 1 \in 0 .. m /\ k - 1 < m /\ (k - 1) + 1 = k
    BY <2>2
  <2>4. k - 1 \notin Fails
    <3> HIDE DEF Fails
    <3>1. ~(k <= k - 1)
      BY <2>2
    <3> QED
      BY <2>1, <3>1
  <2> QED
    BY <2>2, <2>3, <2>4
<1> QED
  BY <1>1

\* m + 2 sets of numbers up to m, none empty, each with all the numbers of the
\* one before, cannot all be different.
LEMMA ChainStops ==
  ASSUME NEW m \in Nat, NEW f,
         f[0] # {}, \A k \in 0 .. m + 1 : f[k] \subseteq 0 .. m,
         \A k \in 0 .. m : f[k] \subseteq f[k + 1]
  PROVE  \E k \in 0 .. m : f[k] = f[k + 1]
<1> SUFFICES ASSUME \A k \in 0 .. m : f[k] # f[k + 1] PROVE FALSE
  OBVIOUS
<1>0. IsFiniteSet(0 .. m) /\ Cardinality(0 .. m) = m + 1
  BY FS_Interval
<1>1. \A k \in 0 .. m + 1 : /\ IsFiniteSet(f[k]) /\ Cardinality(f[k]) \in Nat
                            /\ Cardinality(f[k]) <= m + 1
  BY <1>0, FS_Subset, FS_CardinalityType
<1> DEFINE Grown == {k \in 0 .. m + 1 : Cardinality(f[k]) >= k + 1}
<1>2. 0 \in Grown
  <2>1. Cardinality(f[0]) # 0
    BY <1>1, FS_EmptySet
  <2> QED
    BY <1>1, <2>1
<1>3. ASSUME NEW k \in 0 .. m + 1, k \in Grown, k < m + 1 PROVE k + 1 \in Grown
  <2>1. k \in 0 .. m /\ k + 1 \in 0 .. m + 1
    BY <1>3
  <2>2. f[k] \in SUBSET f[k + 1] /\ f[k] # f[k + 1]
    BY <2>1
  <2>3. /\ Cardinality(f[k]) <= Cardinality(f[k + 1])
        /\ Cardinality(f[k + 1]) # Cardinality(f[k])
    <3>1. IsFiniteSet(f[k + 1])
      BY <1>1, <2>1
    <3>2. /\ Cardinality(f[k]) <= Cardinality(f[k + 1])
          /\ Cardinality(f[k + 1]) = Cardinality(f[k]) => f[k + 1] = f[k]
      BY <2>2, <3>1, FS_Subset
    <3> QED
      BY <2>2, <3>2
  <2>4. Cardinality(f[k]) \in Nat /\ Cardinality(f[k + 1]) \in Nat
    BY <1>1, <2>1
  <2>5. Cardinality(f[k]) >= k + 1
    BY <1>3
  <2>6. Cardinality(f[k + 1]) >= (k + 1) + 1
    BY <2>3, <2>4, <2>5
  <2> QED
    BY <2>1, <2>6
<1>4. m + 1 \in Grown
  <2> HIDE DEF Grown
  <2> QED
    BY <1>2, <1>3, UpTo
<1> QED
  BY <1>1, <1>4
=============================================================================
