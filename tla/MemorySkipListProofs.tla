------------------------ MODULE MemorySkipListProofs ------------------------
(***************************************************************************)
(* Proofs about MemorySkipList, for any number of Inserts, any keys, equal *)
(* ones included, and any height: starting from prev_ the search finds the *)
(* place that a search from the head would find, every level stays sorted  *)
(* and complete, and the destructor deletes every node once.               *)
(*                                                                         *)
(* The search and the walk are recursive functions.  That such a function  *)
(* exists, and what its values are, is shown from the last node of the     *)
(* list that would contradict it (LastNode).                               *)
(***************************************************************************)
EXTENDS MemorySkipList, NumberLemmas

USE MemoryAssumption DEF Levels, Head0, Nil

---------------------------------------------------------------------------
(* The nodes and their order.                                              *)

\* The nodes are numbers, and those but the head have a key.
LEMMA NodesTyped ==
  ASSUME TypeOK, NodesMade
  PROVE  /\ \A n \in DOMAIN next : n \in Nat /\ (n # Head0 => n \in DOMAIN key)
         /\ \A n \in DOMAIN next : n # Head0 => key[n] \in Nat
         /\ \E m \in Nat : DOMAIN next = 0 .. m
         /\ \A i \in Levels : Head0 \in AtLevel(i)
         /\ \A i \in Levels : AtLevel(i) \subseteq DOMAIN next
         /\ \A n \in DOMAIN key : key[n] \in Nat
<1>1. key \in Seq(Keys) /\ Len(key) \in Nat /\ broken \in BOOLEAN
  BY DEF TypeOK
<1>2. \A n \in DOMAIN key : key[n] \in Nat
  <2>1. \A n \in 1 .. Len(key) : key[n] \in Keys
    BY <1>1
  <2>2. DOMAIN key = 1 .. Len(key)
    BY <1>1
  <2> QED
    BY <2>1, <2>2
<1>3. \A n \in DOMAIN next : n \in Nat /\ (n # Head0 => n \in DOMAIN key)
  BY <1>1 DEF NodesMade
<1>4. \E m \in Nat : DOMAIN next = 0 .. m
  <2>1. CASE broken /\ Len(key) = 0
    BY <1>1, <2>1 DEF NodesMade
  <2>2. CASE ~(broken /\ Len(key) = 0)
    <3>1. (IF broken THEN Len(key) - 1 ELSE Len(key)) \in Nat
      BY <1>1, <2>2
    <3> QED
      BY <3>1 DEF NodesMade
  <2> QED
    BY <2>1, <2>2
<1>5. \A i \in Levels : Head0 \in AtLevel(i)
  BY <1>4 DEF NodesMade, AtLevel
<1> QED
  BY <1>2, <1>3, <1>4, <1>5 DEF AtLevel

\* A node that has a level has those below it, and none is as high as
\* max_height_.
LEMMA LowerLevels ==
  ASSUME TypeOK, NodesMade
  PROVE  /\ \A i, j \in Levels : j <= i => AtLevel(i) \subseteq AtLevel(j)
         /\ \A i \in Levels : i >= maxHeight => AtLevel(i) = {Head0}
<1>0. maxHeight \in 1 .. MaxHeight
  BY DEF TypeOK
<1>1. \A n \in DOMAIN next \ {Head0} : \E h \in 1 .. maxHeight :
        \A i \in Levels : i \in DOMAIN next[n] <=> i < h
  <2> SUFFICES ASSUME NEW n \in DOMAIN next \ {Head0}
      PROVE  \E h \in 1 .. maxHeight :
               \A i \in Levels : i \in DOMAIN next[n] <=> i < h
    OBVIOUS
  <2>1. PICK h \in 1 .. maxHeight : DOMAIN next[n] = 0 .. h - 1
    BY DEF NodesMade
  <2>2. \A i \in Levels : i \in 0 .. h - 1 <=> i < h
    BY <1>0
  <2> QED
    BY <2>1, <2>2
<1>2. \A i \in Levels : i \in DOMAIN next[Head0]
  BY DEF NodesMade
<1>3. \A i, j \in Levels : j <= i => AtLevel(i) \subseteq AtLevel(j)
  <2> SUFFICES ASSUME NEW i \in Levels, NEW j \in Levels, j <= i,
                      NEW n \in AtLevel(i)
      PROVE  n \in AtLevel(j)
    OBVIOUS
  <2>1. n \in DOMAIN next /\ i \in DOMAIN next[n]
    BY DEF AtLevel
  <2>2. CASE n = Head0
    BY <1>2, <2>1, <2>2 DEF AtLevel
  <2>3. CASE n # Head0
    <3>1. PICK h \in 1 .. maxHeight :
            \A l \in Levels : l \in DOMAIN next[n] <=> l < h
      BY <1>1, <2>1, <2>3
    <3>2. j < h
      BY <1>0, <2>1, <3>1
    <3> QED
      BY <2>1, <3>1, <3>2 DEF AtLevel
  <2> QED
    BY <2>2, <2>3
<1>4. ASSUME NEW i \in Levels, i >= maxHeight PROVE AtLevel(i) = {Head0}
  <2>1. Head0 \in AtLevel(i)
    BY NodesTyped
  <2>2. ASSUME NEW n \in AtLevel(i), n # Head0 PROVE FALSE
    <3>1. n \in DOMAIN next \ {Head0} /\ i \in DOMAIN next[n]
      BY <2>2 DEF AtLevel
    <3>2. PICK h \in 1 .. maxHeight : i < h
      BY <1>1, <3>1
    <3> QED
      BY <1>0, <1>4, <3>2
  <2> QED
    BY <2>1, <2>2
<1> QED
  BY <1>3, <1>4

\* They are in a strict order, with the head first.
LEMMA PrecedesIsOrder ==
  ASSUME TypeOK, NodesMade
  PROVE  /\ \A m \in DOMAIN next : ~Precedes(m, m)
         /\ \A m, n \in DOMAIN next : Precedes(m, n) => ~Precedes(n, m)
         /\ \A m, n, p \in DOMAIN next :
              Precedes(m, n) /\ Precedes(n, p) => Precedes(m, p)
         /\ \A m, n \in DOMAIN next :
              m = n \/ Precedes(m, n) \/ Precedes(n, m)
         /\ \A n \in DOMAIN next : n # Head0 => Precedes(Head0, n)
<1>1. \A n \in DOMAIN next : n \in Nat /\ (n # Head0 => key[n] \in Nat)
  BY NodesTyped
<1> QED
  BY <1>1 DEF Precedes

\* A key is compared with the nodes in their order.
LEMMA BelowIsOrder ==
  ASSUME TypeOK, NodesMade, NEW k \in Nat
  PROVE  /\ \A m, n \in DOMAIN next :
              Precedes(m, n) /\ Below(n, k) => Below(m, k)
         /\ \A m, n \in DOMAIN next :
              Below(m, k) /\ ~Below(n, k) => Precedes(m, n)
         /\ Below(Head0, k)
<1>1. \A n \in DOMAIN next : n \in Nat /\ (n # Head0 => key[n] \in Nat)
  BY NodesTyped
<1> QED
  BY <1>1 DEF Precedes, Below

\* Among any nodes there is a last one.
LEMMA LastNode ==
  ASSUME TypeOK, NodesMade, NEW S, S \subseteq DOMAIN next, S # {}
  PROVE  \E l \in S : \A m \in S : m = l \/ Precedes(m, l)
<1> DEFINE HasLast(T) == \E l \in T : \A m \in T : m = l \/ Precedes(m, l)
           Good == {j \in Nat : \A T \in SUBSET (0 .. j \intersect DOMAIN next) :
                                  T # {} => HasLast(T)}
<1>1. PICK b \in Nat : DOMAIN next = 0 .. b
  BY NodesTyped
<1>2. 0 \in Good
  <2>1. ASSUME NEW T \in SUBSET (0 .. 0 \intersect DOMAIN next), T # {}
        PROVE  HasLast(T)
    <3>1. \A m \in T : m = 0
      OBVIOUS
    <3> QED
      BY <2>1, <3>1
  <2> QED
    BY <2>1
<1>3. ASSUME NEW j \in Nat, j \in Good, j < b PROVE j + 1 \in Good
  <2> SUFFICES ASSUME NEW T \in SUBSET (0 .. j + 1 \intersect DOMAIN next),
                      T # {}
      PROVE  HasLast(T)
    OBVIOUS
  <2>1. T \ {j + 1} \in SUBSET (0 .. j \intersect DOMAIN next)
    <3>1. \A m \in 0 .. j + 1 : m # j + 1 => m \in 0 .. j
      OBVIOUS
    <3>2. \A m \in T : m \in 0 .. j + 1 /\ m \in DOMAIN next
      OBVIOUS
    <3>3. \A m \in T \ {j + 1} : m \in 0 .. j \intersect DOMAIN next
      BY <3>1, <3>2
    <3> QED
      BY <3>3
  <2>2. CASE T \ {j + 1} = {}
    <3>1. j + 1 \in T /\ \A m \in T : m = j + 1
      BY <2>2
    <3> QED
      BY <3>1
  <2>3. CASE T \ {j + 1} # {}
    <3>1. PICK l \in T \ {j + 1} : \A m \in T \ {j + 1} : m = l \/ Precedes(m, l)
      BY <1>3, <2>1, <2>3
    <3>2. l \in DOMAIN next /\ j + 1 \in DOMAIN next /\ T \subseteq DOMAIN next
      BY <1>1, <1>3, <3>1
    <3>3. CASE j + 1 \in T /\ Precedes(l, j + 1)
      <4>1. \A m \in T : m = j + 1 \/ Precedes(m, j + 1)
        BY <3>1, <3>2, <3>3, PrecedesIsOrder
      <4> QED
        BY <3>3, <4>1
    <3>4. CASE ~(j + 1 \in T /\ Precedes(l, j + 1))
      <4>1. \A m \in T : m = l \/ Precedes(m, l)
        BY <3>1, <3>2, <3>4, PrecedesIsOrder
      <4> QED
        BY <3>1, <4>1
    <3> QED
      BY <3>3, <3>4
  <2> QED
    BY <2>2, <2>3
<1>4. b \in Good
  <2>1. b \in 0 .. b /\ \A j \in 0 .. b : j \in Nat
    OBVIOUS
  <2> HIDE DEF Good
  <2> QED
    BY <1>2, <1>3, <2>1, UpTo
<1>5. S \in SUBSET (0 .. b \intersect DOMAIN next)
  BY <1>1
<1> QED
  BY <1>4, <1>5

---------------------------------------------------------------------------
(* The search.                                                             *)

\* Node p is where key k belongs on level i.
IsPlace(p, k, i) ==
  /\ p \in AtLevel(i) /\ Below(p, k)
  /\ \A m \in AtLevel(i) : Below(m, k) => m = p \/ Precedes(m, p)

\* There is one such node.
LEMMA OnePlace ==
  ASSUME TypeOK, NodesMade, NEW k \in Nat, NEW i \in Levels
  PROVE  /\ \E p : IsPlace(p, k, i)
         /\ \A p, q : IsPlace(p, k, i) /\ IsPlace(q, k, i) => p = q
<1>0. Head0 \in AtLevel(i) /\ AtLevel(i) \subseteq DOMAIN next
  BY NodesTyped
<1>1. \E p : IsPlace(p, k, i)
  <2> DEFINE S == {m \in AtLevel(i) : Below(m, k)}
  <2>1. S \subseteq DOMAIN next /\ S # {}
    BY <1>0 DEF Below
  <2>2. PICK p \in S : \A m \in S : m = p \/ Precedes(m, p)
    <3> HIDE DEF S
    <3> QED
      BY <2>1, LastNode
  <2> QED
    BY <2>2 DEF IsPlace
<1>2. \A p, q : IsPlace(p, k, i) /\ IsPlace(q, k, i) => p = q
  BY <1>0, PrecedesIsOrder DEF IsPlace
<1> QED
  BY <1>1, <1>2

\* Where the loop stops is the place, and every node before it is followed by
\* one that is not behind it.
LEMMA NextBelow ==
  ASSUME TypeOK, NodesMade, Successors, NEW k \in Nat, NEW i \in Levels,
         NEW y \in AtLevel(i), Below(y, k)
  PROVE  LET q == next[y][i]
         IN  IF q # Nil /\ Below(q, k)
             THEN q \in AtLevel(i) /\ Precedes(y, q)
             ELSE IsPlace(y, k, i)
<1> DEFINE q == next[y][i]
<1>0. AtLevel(i) \subseteq DOMAIN next /\ Nil \notin DOMAIN next
  BY NodesTyped
<1>1. CASE q = Nil
  <2>1. \A m \in AtLevel(i) : ~Precedes(y, m)
    BY <1>0, <1>1 DEF Successors
  <2> QED
    BY <1>0, <1>1, <2>1, PrecedesIsOrder DEF IsPlace
<1>2. CASE q # Nil
  <2>1. /\ q \in AtLevel(i) /\ Precedes(y, q)
        /\ \A m \in AtLevel(i) : Precedes(y, m) => ~Precedes(m, q)
    BY <1>2 DEF Successors
  <2>2. CASE Below(q, k)
    BY <1>2, <2>1, <2>2
  <2>3. CASE ~Below(q, k)
    <3> SUFFICES ASSUME NEW m \in AtLevel(i), Below(m, k), Precedes(y, m)
        PROVE  FALSE
      BY <1>0, <1>2, <2>3, PrecedesIsOrder DEF IsPlace
    <3>1. Precedes(m, q)
      BY <1>0, <2>1, <2>3, BelowIsOrder
    <3> QED
      BY <2>1, <3>1
  <2> QED
    BY <2>2, <2>3
<1> QED
  BY <1>1, <1>2

\* What the loop on a level makes of a node.
GoesRight(last, k, i) ==
  last = [y \in AtLevel(i) |->
            IF next[y][i] # Nil /\ Below(next[y][i], k)
            THEN last[next[y][i]] ELSE y]

\* The loop on a level ends at the place of the key.
LEMMA RightFinds ==
  ASSUME TypeOK, NodesMade, Successors, NEW k \in Nat, NEW i \in Levels,
         NEW x \in AtLevel(i), Below(x, k)
  PROVE  IsPlace(Right(k, i)[x], k, i)
<1> DEFINE More(y) == next[y][i] # Nil /\ Below(next[y][i], k)
           last == CHOOSE f :
             f = [y \in AtLevel(i) |->
                    IF next[y][i] # Nil /\ Below(next[y][i], k)
                    THEN f[next[y][i]] ELSE y]
<1>0. AtLevel(i) \subseteq DOMAIN next
  BY NodesTyped
<1>1. PICK p : IsPlace(p, k, i)
  BY OnePlace
<1>2. \E f : GoesRight(f, k, i)
  <2> DEFINE f == [y \in AtLevel(i) |-> IF More(y) THEN p ELSE y]
  <2>1. ASSUME NEW y \in AtLevel(i)
        PROVE  f[y] = IF More(y) THEN f[next[y][i]] ELSE y
    <3>1. CASE More(y)
      <4>1. next[y][i] \in AtLevel(i) /\ Below(next[y][i], k)
        BY <3>1 DEF Successors
      <4>2. CASE More(next[y][i])
        BY <3>1, <4>1, <4>2
      <4>3. CASE ~More(next[y][i])
        <5>1. IsPlace(next[y][i], k, i)
          BY <4>1, <4>3, NextBelow
        <5>2. next[y][i] = p
          BY <1>1, <5>1, OnePlace
        <5> QED
          BY <3>1, <4>1, <4>3, <5>2
      <4> QED
        BY <4>2, <4>3
    <3>2. CASE ~More(y)
      BY <3>2
    <3> QED
      BY <3>1, <3>2
  <2>2. f = [y \in AtLevel(i) |-> f[y]]
    OBVIOUS
  <2>3. GoesRight(f, k, i)
    <3> HIDE DEF f
    <3> QED
      BY <2>1, <2>2 DEF GoesRight
  <2> QED
    BY <2>3
<1>3. GoesRight(last, k, i)
  BY <1>2 DEF GoesRight
<1>4. Right(k, i) = last
  BY DEF Right
<1> DEFINE Lost == {y \in AtLevel(i) : Below(y, k) /\ last[y] # p}
<1>5. ASSUME Lost # {} PROVE FALSE
  <2>1. Lost \subseteq DOMAIN next
    BY <1>0
  <2>2. PICK y \in Lost : \A m \in Lost : m = y \/ Precedes(m, y)
    <3> HIDE DEF Lost
    <3> QED
      BY <1>5, <2>1, LastNode
  <2>3. y \in AtLevel(i) /\ Below(y, k) /\ last[y] # p
    BY <2>2
  <2>4. CASE More(y)
    <3> DEFINE q == next[y][i]
    <3>1. q \in AtLevel(i) /\ Precedes(y, q) /\ Below(q, k)
      BY <2>3, <2>4, NextBelow
    <3>2. last[y] = last[q]
      BY <1>3, <2>3, <2>4 DEF GoesRight
    <3>3. q \in Lost
      BY <2>3, <3>1, <3>2
    <3> HIDE DEF Lost
    <3>4. q = y \/ Precedes(q, y)
      BY <2>2, <3>3
    <3> QED
      BY <1>0, <2>3, <3>1, <3>4, PrecedesIsOrder
  <2>5. CASE ~More(y)
    <3>1. last[y] = y
      BY <1>3, <2>3, <2>5 DEF GoesRight
    <3>2. IsPlace(y, k, i)
      BY <2>3, <2>5, NextBelow
    <3> QED
      BY <1>1, <2>3, <3>1, <3>2, OnePlace
  <2> QED
    BY <2>4, <2>5
<1> HIDE DEF last
<1> QED
  BY <1>1, <1>4, <1>5

\* What the loop over the levels, from node x at the highest, comes to.
GoesDown(place, k, x) ==
  place = [i \in 0 .. maxHeight - 1 |->
             Right(k, i)[IF i = maxHeight - 1 THEN x ELSE place[i + 1]]]

\* The search ends with the place of the key on every level, and leaves prev_
\* alone where no level is in use.
LEMMA SearchFinds ==
  ASSUME TypeOK, NodesMade, Successors, NEW k \in Nat,
         NEW x \in AtLevel(maxHeight - 1), Below(x, k)
  PROVE  /\ DOMAIN Search(k, x) = Levels
         /\ \A i \in Levels : IF i < maxHeight
                              THEN IsPlace(Search(k, x)[i], k, i)
                              ELSE Search(k, x)[i] = prev[i]
         /\ Search(k, x) = [i \in Levels |-> Search(k, x)[i]]
<1> DEFINE place == CHOOSE f :
             f = [i \in 0 .. maxHeight - 1 |->
                    Right(k, i)[IF i = maxHeight - 1 THEN x ELSE f[i + 1]]]
<1>0. maxHeight \in 1 .. MaxHeight /\ prev \in [Levels -> DOMAIN next]
  BY DEF TypeOK
<1>1. PICK at \in [0 .. maxHeight - 1 -> DOMAIN next] :
        \A i \in 0 .. maxHeight - 1 : IsPlace(at[i], k, i)
  <2> DEFINE at == [i \in 0 .. maxHeight - 1 |-> CHOOSE p : IsPlace(p, k, i)]
  <2>1. ASSUME NEW i \in 0 .. maxHeight - 1
        PROVE  IsPlace(at[i], k, i) /\ at[i] \in DOMAIN next
    <3>1. i \in Levels
      BY <1>0
    <3>2. \E p : IsPlace(p, k, i)
      BY <3>1, OnePlace
    <3>3. IsPlace(at[i], k, i)
      BY <3>2
    <3> QED
      BY <3>3 DEF IsPlace, AtLevel
  <2> QED
    BY <2>1
<1>2. ASSUME NEW i \in 0 .. maxHeight - 1, NEW y \in AtLevel(i), Below(y, k)
      PROVE  Right(k, i)[y] = at[i]
  <2>1. i \in Levels
    BY <1>0
  <2>2. IsPlace(Right(k, i)[y], k, i)
    BY <1>2, <2>1, RightFinds
  <2> QED
    BY <1>1, <2>1, <2>2, OnePlace
<1>3. ASSUME NEW i \in 0 .. maxHeight - 1, i # maxHeight - 1
      PROVE  at[i + 1] \in AtLevel(i) /\ Below(at[i + 1], k)
  <2>1. i + 1 \in 0 .. maxHeight - 1 /\ i + 1 \in Levels /\ i \in Levels
    BY <1>0, <1>3
  <2>2. at[i + 1] \in AtLevel(i + 1) /\ Below(at[i + 1], k)
    BY <1>1, <2>1 DEF IsPlace
  <2> QED
    BY <1>0, <2>1, <2>2, LowerLevels
<1>4. GoesDown(at, k, x)
  <2>1. ASSUME NEW i \in 0 .. maxHeight - 1
        PROVE  at[i] = Right(k, i)[IF i = maxHeight - 1 THEN x ELSE at[i + 1]]
    BY <1>2, <1>3
  <2>2. at = [i \in 0 .. maxHeight - 1 |-> at[i]]
    BY <1>1
  <2> QED
    BY <2>1, <2>2 DEF GoesDown
<1>5. GoesDown(place, k, x)
  BY <1>4 DEF GoesDown
<1>6. Search(k, x) =
        [i \in Levels |-> IF i < maxHeight THEN place[i] ELSE prev[i]]
  BY DEF Search
<1> HIDE DEF place
<1>7. ASSUME NEW i \in 0 .. maxHeight - 1 PROVE place[i] = at[i]
  <2> DEFINE top == maxHeight - 1
             Same == {d \in 0 .. top : place[top - d] = at[top - d]}
  <2>0. top \in Nat
    BY <1>0
  <2>1. 0 \in Same
    <3>1. place[top] = Right(k, top)[x]
      BY <1>5, <2>0 DEF GoesDown
    <3>2. Right(k, top)[x] = at[top]
      BY <1>2, <2>0
    <3> QED
      BY <2>0, <3>1, <3>2
  <2>2. ASSUME NEW d \in 0 .. top, d \in Same, d < top PROVE d + 1 \in Same
    <3> DEFINE j == top - (d + 1)
    <3>1. j \in 0 .. top /\ j # top /\ j + 1 = top - d /\ d + 1 \in 0 .. top
      BY <2>0, <2>2
    <3>2. place[j + 1] = at[j + 1]
      BY <2>2, <3>1
    <3>3. place[j] = Right(k, j)[place[j + 1]]
      BY <1>5, <3>1 DEF GoesDown
    <3>4. Right(k, j)[at[j + 1]] = at[j]
      BY <1>2, <1>3, <3>1
    <3> QED
      BY <3>1, <3>2, <3>3, <3>4
  <2>3. \A d \in 0 .. top : d \in Same
    <3> HIDE DEF Same, top
    <3> QED
      BY <2>0, <2>1, <2>2, UpTo
  <2>4. top - i \in 0 .. top /\ top - (top - i) = i
    BY <2>0
  <2> QED
    BY <2>3, <2>4
<1> QED
  BY <1>0, <1>1, <1>6, <1>7

\* prev_ and, where they are behind the key, the fingers lead to its place.
LEMMA PlaceFinds ==
  ASSUME TypeOK, NodesMade, Successors, FingersFit, NEW k \in Keys
  PROVE  /\ Place(k) = Search(k, Head0)
         /\ Place(k) = [i \in Levels |-> Place(k)[i]]
         /\ \A i \in Levels : IF i < maxHeight THEN IsPlace(Place(k)[i], k, i)
                              ELSE Place(k)[i] = Head0
<1> DEFINE top == maxHeight - 1
           AreHere(f) ==
             /\ f = [i \in Levels |-> f[i]]
             /\ \A i \in Levels : IF i < maxHeight THEN IsPlace(f[i], k, i)
                                  ELSE f[i] = Head0
<1>0. /\ maxHeight \in 1 .. MaxHeight /\ prev \in [Levels -> DOMAIN next]
      /\ k \in Nat /\ top \in Levels /\ top < maxHeight /\ 0 \in Levels
  BY DEF TypeOK
<1>1. ASSUME NEW x \in AtLevel(top), Below(x, k) PROVE AreHere(Search(k, x))
  <2>1. \A i \in Levels : ~(i < maxHeight) => prev[i] = Head0
    BY DEF FingersFit
  <2> QED
    BY <1>0, <1>1, <2>1, SearchFinds
<1>2. AreHere(Search(k, Head0))
  <2>1. Head0 \in AtLevel(top) /\ Below(Head0, k)
    BY <1>0, NodesTyped DEF Below
  <2> QED
    BY <1>1, <2>1
<1>3. ASSUME NEW f, NEW g, AreHere(f), AreHere(g) PROVE f = g
  <2>1. ASSUME NEW i \in Levels PROVE f[i] = g[i]
    <3>1. CASE i < maxHeight
      <4>1. IsPlace(f[i], k, i) /\ IsPlace(g[i], k, i)
        BY <1>3, <3>1
      <4> QED
        BY <1>0, <4>1, OnePlace
    <3>2. CASE ~(i < maxHeight)
      BY <1>3, <3>2
    <3> QED
      BY <3>1, <3>2
  <2> QED
    BY <1>3, <2>1
<1>4. /\ prev[0] \in AtLevel(0)
      /\ \A i \in Levels : AtLevel(i) \subseteq DOMAIN next
  BY <1>0, NodesTyped DEF FingersFit
<1>5. ASSUME Below(prev[0], k), NEW i \in Levels, i < maxHeight
      PROVE  prev[i] \in AtLevel(i) /\ Below(prev[i], k)
  <2>1. prev[i] \in AtLevel(i) /\ ~Precedes(prev[0], prev[i])
    BY <1>5 DEF FingersFit
  <2>2. prev[i] = prev[0] \/ Precedes(prev[i], prev[0])
    BY <1>0, <1>4, <2>1, PrecedesIsOrder
  <2> QED
    BY <1>0, <1>4, <1>5, <2>1, <2>2, BelowIsOrder
<1>6. AreHere(Place(k))
  <2>1. CASE ~Below(prev[0], k)
    BY <1>2, <2>1 DEF Place
  <2>2. CASE Below(prev[0], k) /\ Successor # Nil /\ Below(Successor, k)
    <3>1. prev[top] \in AtLevel(top) /\ Below(prev[top], k)
      BY <1>0, <1>5, <2>2
    <3>2. Place(k) = Search(k, prev[top])
      BY <2>2 DEF Place
    <3> QED
      BY <1>1, <3>1, <3>2
  <2>3. CASE Below(prev[0], k) /\ ~(Successor # Nil /\ Below(Successor, k))
    <3>1. Place(k) = prev
      BY <2>3 DEF Place
    <3>2. ASSUME NEW i \in Levels, i < maxHeight PROVE IsPlace(prev[i], k, i)
      <4>1. prev[i] \in AtLevel(i) /\ Below(prev[i], k)
        BY <1>5, <2>3, <3>2
      <4>2. ASSUME NEW m \in AtLevel(i), Below(m, k), Precedes(prev[i], m)
            PROVE  FALSE
        <5>1. Precedes(prev[0], m)
          BY <3>2, <4>2 DEF FingersFit
        <5>2. m \in AtLevel(0)
          BY <1>0, LowerLevels
        <5>3. /\ Successor # Nil /\ Successor \in AtLevel(0)
              /\ ~Precedes(m, Successor)
          <6>1. \/ Successor = Nil /\ \A l \in AtLevel(0) : ~Precedes(prev[0], l)
                \/ /\ Successor \in AtLevel(0) /\ Precedes(prev[0], Successor)
                   /\ \A l \in AtLevel(0) :
                        Precedes(prev[0], l) => ~Precedes(l, Successor)
            BY <1>0, <1>4 DEF Successors, Successor
          <6>2. Nil \notin AtLevel(0)
            BY <1>0, NodesTyped
          <6> QED
            BY <5>1, <5>2, <6>1, <6>2
        <5>4. ~Below(Successor, k)
          BY <2>3, <5>3
        <5> QED
          BY <1>0, <1>4, <4>2, <5>2, <5>3, <5>4, BelowIsOrder
      <4> QED
        BY <1>4, <4>1, <4>2, PrecedesIsOrder DEF IsPlace
    <3>3. \A i \in Levels : ~(i < maxHeight) => prev[i] = Head0
      BY DEF FingersFit
    <3> QED
      BY <1>0, <3>1, <3>2, <3>3
  <2> QED
    BY <2>1, <2>2, <2>3
<1>7. Place(k) = Search(k, Head0)
  <2> HIDE DEF AreHere
  <2> QED
    BY <1>2, <1>3, <1>6
<1> QED
  BY <1>6, <1>7

\* When the new node is linked, prev_ is at its place on every level.
LEMMA FingersPlaced ==
  ASSUME TypeOK, NodesMade, Successors, FingersFit, NEW k \in Keys,
         NEW h \in 1 .. MaxHeight
  PROVE  /\ Fingers(k, h) \in [Levels -> DOMAIN next]
         /\ \A i \in Levels : IsPlace(Fingers(k, h)[i], k, i)
<1>0. k \in Nat /\ maxHeight \in 1 .. MaxHeight
  BY DEF TypeOK
<1>1. ASSUME NEW i \in Levels PROVE IsPlace(Fingers(k, h)[i], k, i)
  <2>0. Fingers(k, h)[i] =
          IF maxHeight <= i /\ i < h THEN Head0 ELSE Place(k)[i]
    BY DEF Fingers
  <2>1. CASE i < maxHeight
    <3>1. IsPlace(Place(k)[i], k, i)
      BY <2>1, PlaceFinds
    <3> QED
      BY <1>0, <2>0, <2>1, <3>1
  <2>2. CASE ~(i < maxHeight)
    <3>1. Fingers(k, h)[i] = Head0
      BY <2>0, <2>2, PlaceFinds
    <3>2. AtLevel(i) = {Head0}
      BY <1>0, <2>2, LowerLevels
    <3> QED
      BY <3>1, <3>2 DEF IsPlace, Below
  <2> QED
    BY <2>1, <2>2
<1>2. \A i \in Levels : Fingers(k, h)[i] \in DOMAIN next
  BY <1>1 DEF IsPlace, AtLevel
<1>3. Fingers(k, h) = [i \in Levels |-> Fingers(k, h)[i]]
  BY DEF Fingers
<1> QED
  BY <1>1, <1>2, <1>3

---------------------------------------------------------------------------
(* The invariant.                                                          *)

\* One more key leaves the order of the nodes as it was.
LEMMA OrderKept ==
  ASSUME TypeOK, NodesMade, NEW k \in Keys, key' = Append(key, k)
  PROVE  \A m, n \in DOMAIN next : Precedes(m, n)' <=> Precedes(m, n)
<1>1. \A n \in DOMAIN next : n # Head0 => n \in DOMAIN key
  BY NodesTyped
<1>2. \A n \in DOMAIN key : key'[n] = key[n]
  BY DEF TypeOK
<1> QED
  BY <1>1, <1>2 DEF Precedes

\* An Insert puts the new node at its place on each of its levels.
LEMMA InsertPreserves ==
  ASSUME IInv, NEW k \in Keys, NEW h \in 1 .. MaxHeight, Insert(k, h)
  PROVE  IInv'
<1>n. PICK n : n = Len(key) + 1
  OBVIOUS
<1>f. PICK at : at = Fingers(k, h)
  OBVIOUS
<1>0. /\ TypeOK /\ NodesMade /\ Successors /\ FingersFit /\ DeletedSoFar
      /\ phase = "insert" /\ ~broken /\ n <= N
      /\ key' = Append(key, k)
      /\ next' = Linked(n, h, at)
      /\ prev' = [i \in Levels |-> IF i < h THEN n ELSE at[i]]
      /\ maxHeight' = IF h > maxHeight THEN h ELSE maxHeight
      /\ UNCHANGED <<broken, phase, cursor, freed>>
  BY <1>n, <1>f DEF IInv, Insert
<1>1. /\ key \in Seq(Keys) /\ Len(key) \in Nat /\ k \in Nat /\ N \in Nat
      /\ maxHeight \in 1 .. MaxHeight /\ MaxHeight \in Nat
      /\ \A i \in 0 .. h - 1 : i \in Levels /\ i < h
      /\ \A i \in Levels : i < h => i \in 0 .. h - 1
      /\ 0 \in Levels /\ 0 < h
  BY <1>0 DEF TypeOK
<1>2. DOMAIN next = 0 .. Len(key)
  BY <1>0 DEF NodesMade
<1>3. n \notin DOMAIN next /\ n # Head0 /\ n # Nil /\ n \in Nat /\ Nil \notin DOMAIN next
  BY <1>1, <1>2, <1>n
<1>4. /\ at \in [Levels -> DOMAIN next]
      /\ \A i \in Levels : IsPlace(at[i], k, i)
  BY <1>0, <1>f, FingersPlaced
\* The nodes and their pointers.
<1>5. /\ DOMAIN next' = DOMAIN next \union {n}
      /\ next'[n] = [i \in 0 .. h - 1 |-> next[at[i]][i]]
      /\ \A m \in DOMAIN next :
           next'[m] = [i \in DOMAIN next[m] |->
                         IF i < h /\ at[i] = m THEN n ELSE next[m][i]]
  BY <1>0, <1>3 DEF Linked
<1>6. ASSUME NEW i \in Levels
      PROVE  /\ AtLevel(i)' = AtLevel(i) \union (IF i < h THEN {n} ELSE {})
             /\ i < h => next'[n][i] = next[at[i]][i]
             /\ \A m \in AtLevel(i) :
                  next'[m][i] = IF i < h /\ at[i] = m THEN n ELSE next[m][i]
  <2>1. \A m \in DOMAIN next : DOMAIN next'[m] = DOMAIN next[m]
    BY <1>5
  <2>2. DOMAIN next'[n] = 0 .. h - 1
    BY <1>5
  <2>3. i \in DOMAIN next'[n] <=> i < h
    BY <1>1, <2>2
  <2>4. AtLevel(i)' = AtLevel(i) \union (IF i < h THEN {n} ELSE {})
    BY <1>3, <1>5, <2>1, <2>3 DEF AtLevel
  <2>5. i < h => next'[n][i] = next[at[i]][i]
    BY <1>1, <1>5
  <2>6. \A m \in AtLevel(i) :
          next'[m][i] = IF i < h /\ at[i] = m THEN n ELSE next[m][i]
    BY <1>5 DEF AtLevel
  <2> QED
    BY <2>4, <2>5, <2>6
\* The order of the nodes.
<1>7. \A p, q \in DOMAIN next : Precedes(p, q)' <=> Precedes(p, q)
  BY <1>0, OrderKept
<1>8. /\ ~Precedes(n, n)'
      /\ \A p \in DOMAIN next : Precedes(p, n)' <=> Below(p, k)
      /\ \A p \in DOMAIN next : Precedes(n, p)' <=> ~Below(p, k)
  <2>1. key'[n] = k
    BY <1>0, <1>1, <1>n
  <2>2. \A p \in DOMAIN next : p # Head0 => key'[p] = key[p] /\ key[p] \in Nat
    <3>1. \A p \in DOMAIN next : p # Head0 => p \in DOMAIN key /\ key[p] \in Nat
      BY <1>0, NodesTyped
    <3>2. \A p \in DOMAIN key : key'[p] = key[p]
      BY <1>0, <1>1
    <3> QED
      BY <3>1, <3>2
  <2>3. \A p \in DOMAIN next : p \in Nat /\ n > p
    BY <1>1, <1>2, <1>n
  <2> QED
    BY <1>1, <1>3, <2>1, <2>2, <2>3 DEF Precedes, Below
<1>9. \A i \in Levels : at[i] \in AtLevel(i) /\ Below(at[i], k)
  BY <1>4 DEF IsPlace
<1>10. \A i \in Levels : AtLevel(i) \subseteq DOMAIN next
  BY DEF AtLevel
<1>11. \A i \in Levels : \A m \in AtLevel(i) :
         /\ Below(m, k) => m = at[i] \/ Precedes(m, at[i])
         /\ Precedes(at[i], m) => ~Below(m, k)
         /\ ~Below(m, k) => Precedes(at[i], m)
  <2> SUFFICES ASSUME NEW i \in Levels, NEW m \in AtLevel(i)
      PROVE  /\ Below(m, k) => m = at[i] \/ Precedes(m, at[i])
             /\ Precedes(at[i], m) => ~Below(m, k)
             /\ ~Below(m, k) => Precedes(at[i], m)
    OBVIOUS
  <2>1. Below(m, k) => m = at[i] \/ Precedes(m, at[i])
    BY <1>4 DEF IsPlace
  <2>2. m \in DOMAIN next /\ at[i] \in DOMAIN next
    BY <1>9, <1>10
  <2>3. Precedes(at[i], m) => ~Below(m, k)
    BY <1>0, <2>1, <2>2, PrecedesIsOrder
  <2>4. ~Below(m, k) => Precedes(at[i], m)
    BY <1>0, <1>1, <1>9, <2>2, BelowIsOrder
  <2> QED
    BY <2>1, <2>3, <2>4
<1>12. Successors'
  <2> SUFFICES ASSUME NEW i \in Levels, NEW p \in AtLevel(i)',
                      NEW r, r = next'[p][i]
      PROVE  \/ r = Nil /\ \A m \in AtLevel(i)' : ~Precedes(p, m)'
             \/ /\ r \in AtLevel(i)' /\ Precedes(p, r)'
                /\ \A m \in AtLevel(i)' : Precedes(p, m)' => ~Precedes(m, r)'
    BY DEF Successors
  <2>1. CASE p = n
    <3>0. PICK q : q = next[at[i]][i]
      OBVIOUS
    <3>1. i < h /\ r = q
      BY <1>3, <1>6, <1>10, <2>1, <3>0
    <3>2. CASE q = Nil /\ \A m \in AtLevel(i) : ~Precedes(at[i], m)
      <4>1. \A m \in AtLevel(i)' : ~Precedes(n, m)'
        BY <1>6, <1>8, <1>10, <1>11, <3>2
      <4> QED
        BY <2>1, <3>1, <3>2, <4>1
    <3>3. CASE /\ q \in AtLevel(i) /\ Precedes(at[i], q)
               /\ \A m \in AtLevel(i) : Precedes(at[i], m) => ~Precedes(m, q)
      <4>1. q \in DOMAIN next /\ Precedes(n, q)' /\ q \in AtLevel(i)'
        BY <1>6, <1>8, <1>10, <1>11, <3>3
      <4>2. \A m \in AtLevel(i)' : Precedes(n, m)' => ~Precedes(m, q)'
        BY <1>6, <1>7, <1>8, <1>10, <1>11, <3>3, <4>1
      <4> QED
        BY <2>1, <3>1, <4>1, <4>2
    <3> QED
      BY <1>0, <1>9, <3>0, <3>2, <3>3 DEF Successors
  <2>2. CASE p # n /\ i < h /\ p = at[i]
    <3>1. r = n /\ p \in AtLevel(i) /\ n \in AtLevel(i)' /\ p \in DOMAIN next
      BY <1>6, <1>9, <1>10, <2>2
    <3>2. Precedes(p, n)'
      BY <1>8, <1>9, <2>2, <3>1
    <3>3. \A m \in AtLevel(i)' : Precedes(p, m)' => ~Precedes(m, n)'
      BY <1>6, <1>7, <1>8, <1>10, <1>11, <2>2, <3>1
    <3> QED
      BY <3>1, <3>2, <3>3
  <2>3. CASE p # n /\ ~(i < h /\ p = at[i])
    <3>0. PICK q : q = next[p][i]
      OBVIOUS
    <3>1. p \in AtLevel(i) /\ p \in DOMAIN next
      BY <1>6, <1>10, <2>3
    <3>2. r = q
      BY <1>6, <2>3, <3>0, <3>1
    <3>3. i < h /\ Precedes(p, n)' => Precedes(p, at[i])
      BY <1>8, <1>11, <2>3, <3>1
    <3>4. CASE q = Nil /\ \A m \in AtLevel(i) : ~Precedes(p, m)
      <4>1. \A m \in AtLevel(i)' : ~Precedes(p, m)'
        BY <1>6, <1>7, <1>9, <1>10, <3>1, <3>3, <3>4
      <4> QED
        BY <3>2, <3>4, <4>1
    <3>5. CASE /\ q \in AtLevel(i) /\ Precedes(p, q)
               /\ \A m \in AtLevel(i) : Precedes(p, m) => ~Precedes(m, q)
      <4>1. q \in DOMAIN next /\ Precedes(p, q)' /\ q \in AtLevel(i)'
        BY <1>6, <1>7, <1>10, <3>1, <3>5
      <4>2. i < h /\ Precedes(p, n)' => ~Precedes(n, q)'
        <5>1. SUFFICES ASSUME i < h, Precedes(p, n)' PROVE Below(q, k)
          BY <1>8, <4>1
        <5>2. ~Precedes(at[i], q)
          BY <1>9, <3>3, <3>5, <5>1
        <5> QED
          BY <1>11, <3>5, <5>2
      <4>3. \A m \in AtLevel(i)' : Precedes(p, m)' => ~Precedes(m, q)'
        BY <1>6, <1>7, <1>10, <3>1, <3>5, <4>1, <4>2
      <4> QED
        BY <3>2, <4>1, <4>3
    <3> QED
      BY <1>0, <3>0, <3>1, <3>4, <3>5 DEF Successors
  <2> QED
    BY <2>1, <2>2, <2>3
<1>13. FingersFit'
  <2> SUFFICES ASSUME NEW i \in Levels
      PROVE  IF i < maxHeight'
             THEN /\ prev'[i] \in AtLevel(i)'
                  /\ ~Precedes(prev[0], prev[i])'
                  /\ \A m \in AtLevel(i)' :
                       Precedes(prev[i], m)' => Precedes(prev[0], m)'
             ELSE prev'[i] = Head0
    BY DEF FingersFit
  <2>1. prev'[0] = n /\ prev'[i] = IF i < h THEN n ELSE at[i]
    BY <1>0, <1>1
  <2>2. CASE i < h
    <3>1. n \in AtLevel(i)' /\ prev'[i] = n /\ i < maxHeight'
      BY <1>0, <1>1, <1>6, <2>1, <2>2
    <3> QED
      BY <1>8, <2>1, <3>1
  <2>3. CASE ~(i < h) /\ i < maxHeight
    <3>1. prev'[i] = at[i] /\ at[i] \in AtLevel(i)' /\ i < maxHeight'
      BY <1>0, <1>1, <1>6, <1>9, <2>1, <2>3
    <3>2. ~Precedes(n, at[i])'
      BY <1>8, <1>9, <1>10
    <3>3. \A m \in AtLevel(i)' : Precedes(at[i], m)' => Precedes(n, m)'
      BY <1>6, <1>7, <1>8, <1>9, <1>10, <1>11, <2>3
    <3> QED
      BY <2>1, <3>1, <3>2, <3>3
  <2>4. CASE ~(i < h) /\ ~(i < maxHeight)
    <3>1. ~(i < maxHeight')
      BY <1>0, <2>4
    <3>2. AtLevel(i) = {Head0}
      BY <1>0, <1>1, <2>4, LowerLevels
    <3> QED
      BY <1>9, <2>1, <2>4, <3>1, <3>2
  <2> QED
    BY <2>2, <2>3, <2>4
<1>14. NodesMade'
  <2>1. DOMAIN next' = 0 .. IF broken' THEN Len(key') - 1 ELSE Len(key')
    <3>1. Len(key') = Len(key) + 1 /\ ~broken'
      BY <1>0, <1>1
    <3>2. 0 .. Len(key) + 1 = (0 .. Len(key)) \union {Len(key) + 1}
      BY <1>1
    <3> QED
      BY <1>2, <1>5, <3>1, <3>2, <1>n
  <2>2. \A m \in DOMAIN next : DOMAIN next'[m] = DOMAIN next[m]
    BY <1>5
  <2>3. DOMAIN next'[Head0] = Levels
    BY <1>0, <1>1, <1>2, <2>2 DEF NodesMade
  <2>4. ASSUME NEW m \in DOMAIN next' \ {Head0}
        PROVE  \E g \in 1 .. maxHeight' : DOMAIN next'[m] = 0 .. g - 1
    <3>0. /\ \A g \in 1 .. maxHeight : g \in 1 .. maxHeight'
          /\ h \in 1 .. maxHeight'
      BY <1>0, <1>1
    <3>1. CASE m = n
      BY <1>5, <3>0, <3>1
    <3>2. CASE m # n
      <4>1. m \in DOMAIN next \ {Head0}
        BY <1>5, <3>2
      <4>2. PICK g \in 1 .. maxHeight : DOMAIN next[m] = 0 .. g - 1
        BY <1>0, <4>1 DEF NodesMade
      <4> QED
        BY <2>2, <3>0, <4>1, <4>2
    <3> QED
      BY <3>1, <3>2
  <2> QED
    BY <2>1, <2>3, <2>4 DEF NodesMade
<1>15. TypeOK'
  <2>1. key' \in Seq(Keys) /\ Len(key') <= N
    BY <1>0, <1>1, <1>n
  <2>2. \A m \in DOMAIN next' : DOMAIN next'[m] \subseteq Levels
    <3>1. \A g \in 1 .. maxHeight' : 0 .. g - 1 \subseteq Levels
      BY <1>0, <1>1
    <3>2. DOMAIN next'[Head0] = Levels
      BY <1>14 DEF NodesMade
    <3>3. \A m \in DOMAIN next' \ {Head0} :
            \E g \in 1 .. maxHeight' : DOMAIN next'[m] = 0 .. g - 1
      BY <1>14 DEF NodesMade
    <3> QED
      BY <3>1, <3>2, <3>3
  <2>3. ASSUME NEW m \in DOMAIN next', NEW i \in DOMAIN next'[m]
        PROVE  next'[m][i] \in AtLevel(i)' \union {Nil}
    <3>1. i \in Levels /\ m \in AtLevel(i)'
      BY <2>2, <2>3 DEF AtLevel
    <3> QED
      BY <1>12, <3>1 DEF Successors
  <2>4. prev' \in [Levels -> DOMAIN next']
    BY <1>0, <1>4, <1>5
  <2>5. maxHeight' \in 1 .. MaxHeight
    BY <1>0, <1>1
  <2> QED
    <3>1. broken' \in BOOLEAN /\ phase' \in {"insert", "delete", "gone"}
      BY <1>0 DEF TypeOK
    <3>2. cursor' \in DOMAIN next' \union {Nil} /\ freed' \subseteq DOMAIN next'
      BY <1>0, <1>5 DEF TypeOK
    <3>3. \A m \in DOMAIN next' : \A i \in DOMAIN next'[m] :
            next'[m][i] \in AtLevel(i)' \union {Nil}
      BY <2>3
    <3> QED
      BY <2>1, <2>4, <2>5, <3>1, <3>2, <3>3, Zenon DEF TypeOK
<1>16. DeletedSoFar'
  BY <1>0 DEF DeletedSoFar
<1> QED
  BY <1>12, <1>13, <1>14, <1>15, <1>16 DEF IInv

\* A key copied over a node leaves nodes and pointers alone.
LEMMA OverwritePreserves ==
  ASSUME IInv, NEW k \in Keys, Overwrite(k)
  PROVE  IInv'
<1>0. /\ TypeOK /\ NodesMade /\ Successors /\ FingersFit /\ DeletedSoFar
      /\ phase = "insert" /\ ~broken /\ Len(key) < N
      /\ key' = Append(key, k) /\ broken' = TRUE
      /\ UNCHANGED <<next, prev, maxHeight, phase, cursor, freed>>
  BY DEF IInv, Overwrite
<1>1. \A p, q \in DOMAIN next : Precedes(p, q)' <=> Precedes(p, q)
  BY <1>0, OrderKept
<1>2. \A i \in Levels : /\ AtLevel(i)' = AtLevel(i)
                        /\ AtLevel(i) \subseteq DOMAIN next
  BY <1>0 DEF AtLevel
<1>3. prev \in [Levels -> DOMAIN next] /\ 0 \in Levels
  BY <1>0 DEF TypeOK
<1>4. key' \in Seq(Keys) /\ Len(key') = Len(key) + 1 /\ Len(key') <= N
  BY <1>0 DEF TypeOK
<1>5. TypeOK'
  <2>1. \A m \in DOMAIN next' : \A i \in DOMAIN next'[m] :
          next'[m][i] \in AtLevel(i)' \union {Nil}
    BY <1>0 DEF TypeOK, AtLevel
  <2>2. broken' \in BOOLEAN
    BY <1>0
  <2>3. /\ prev' \in [Levels -> DOMAIN next'] /\ maxHeight' \in 1 .. MaxHeight
        /\ phase' \in {"insert", "delete", "gone"}
        /\ cursor' \in DOMAIN next' \union {Nil} /\ freed' \subseteq DOMAIN next'
    BY <1>0 DEF TypeOK
  <2> QED
    BY <1>4, <2>1, <2>2, <2>3 DEF TypeOK
<1>6. NodesMade'
  <2>1. Len(key) \in Nat
    BY <1>0 DEF TypeOK
  <2> QED
    BY <1>0, <1>4, <2>1 DEF NodesMade
<1>7. Successors'
  <2> SUFFICES ASSUME NEW i \in Levels, NEW p \in AtLevel(i),
                      NEW r, r = next[p][i]
      PROVE  \/ r = Nil /\ \A m \in AtLevel(i) : ~Precedes(p, m)'
             \/ /\ r \in AtLevel(i) /\ Precedes(p, r)'
                /\ \A m \in AtLevel(i) : Precedes(p, m)' => ~Precedes(m, r)'
    BY <1>0, <1>2 DEF Successors
  <2> QED
    BY <1>0, <1>1, <1>2 DEF Successors
<1>8. FingersFit'
  <2> SUFFICES ASSUME NEW i \in Levels, NEW p, p = prev[0], NEW r, r = prev[i]
      PROVE  IF i < maxHeight
             THEN /\ r \in AtLevel(i) /\ ~Precedes(p, r)'
                  /\ \A m \in AtLevel(i) : Precedes(r, m)' => Precedes(p, m)'
             ELSE r = Head0
    BY <1>0, <1>2 DEF FingersFit
  <2>1. p \in DOMAIN next /\ r \in DOMAIN next
    BY <1>3
  <2> QED
    BY <1>0, <1>1, <1>2, <2>1 DEF FingersFit
<1>9. DeletedSoFar'
  BY <1>0 DEF DeletedSoFar
<1> QED
  BY <1>5, <1>6, <1>7, <1>8, <1>9 DEF IInv

\* The nodes in front of the successor of a node are those up to that node.
LEMMA UpToSuccessor ==
  ASSUME TypeOK, NodesMade, Successors, NEW p \in DOMAIN next
  PROVE  LET q == next[p][0]
         IN  /\ q # Head0 /\ q \in DOMAIN next \union {Nil}
             /\ \A n \in DOMAIN next \ {Head0} :
                  (q # Nil => Precedes(n, q)) <=> (n = p \/ Precedes(n, p))
<1>0. 0 \in Levels /\ AtLevel(0) = DOMAIN next /\ Nil \notin DOMAIN next
  <2>1. 0 \in Levels /\ Head0 \in AtLevel(0)
    BY NodesTyped
  <2>2. ASSUME NEW n \in DOMAIN next \ {Head0} PROVE n \in AtLevel(0)
    <3>1. maxHeight \in 1 .. MaxHeight
      BY DEF TypeOK
    <3>2. PICK h \in 1 .. maxHeight : DOMAIN next[n] = 0 .. h - 1
      BY DEF NodesMade
    <3> QED
      BY <3>1, <3>2 DEF AtLevel
  <2>3. AtLevel(0) \subseteq DOMAIN next
    BY <2>1, NodesTyped
  <2>4. Nil \notin DOMAIN next
    BY NodesTyped
  <2>5. AtLevel(0) = DOMAIN next
    BY <2>1, <2>2, <2>3
  <2> QED
    BY <2>1, <2>4, <2>5
<1>1. PICK q : q = next[p][0]
  OBVIOUS
<1>2. \/ q = Nil /\ \A m \in DOMAIN next : ~Precedes(p, m)
      \/ /\ q \in DOMAIN next /\ Precedes(p, q)
         /\ \A m \in DOMAIN next : Precedes(p, m) => ~Precedes(m, q)
  BY <1>0, <1>1 DEF Successors
<1>3. q # Head0 /\ q \in DOMAIN next \union {Nil}
  BY <1>2 DEF Precedes
<1>4. ASSUME NEW n \in DOMAIN next \ {Head0}
      PROVE  (q # Nil => Precedes(n, q)) <=> (n = p \/ Precedes(n, p))
  <2>1. CASE q = Nil
    BY <1>0, <1>2, <2>1, PrecedesIsOrder
  <2>2. CASE q # Nil
    BY <1>2, <2>2, PrecedesIsOrder
  <2> QED
    BY <2>1, <2>2
<1> QED
  BY <1>1, <1>3, <1>4

\* The steps of the destructor, which leave the list alone.
LEMMA DestructorPreserves ==
  ASSUME IInv, StartDelete \/ DeleteNode \/ DeleteHead
  PROVE  IInv'
<1>0. /\ TypeOK /\ NodesMade /\ Successors /\ FingersFit /\ DeletedSoFar
      /\ UNCHANGED <<key, next, prev, maxHeight, broken>>
  BY DEF IInv, StartDelete, DeleteNode, DeleteHead
<1>1. NodesMade' /\ Successors' /\ FingersFit'
  <2>1. NodesMade'
    BY <1>0 DEF NodesMade
  <2>2. Successors'
    BY <1>0 DEF Successors, AtLevel, Precedes
  <2>3. FingersFit'
    BY <1>0 DEF FingersFit, AtLevel, Precedes
  <2> QED
    BY <2>1, <2>2, <2>3
<1>2. Head0 \in DOMAIN next /\ Nil \notin DOMAIN next
  BY <1>0, NodesTyped DEF AtLevel
<1>3. ASSUME StartDelete
      PROVE  /\ DeletedSoFar' /\ freed' \subseteq DOMAIN next
             /\ cursor' \in DOMAIN next \union {Nil}
             /\ phase' \in {"insert", "delete", "gone"}
  <2>1. PICK q : q = next[Head0][0]
    OBVIOUS
  <2>2. cursor' = q /\ freed' = {} /\ phase' = "delete" /\ ~broken'
    BY <1>0, <1>3, <2>1 DEF StartDelete, DeletedSoFar
  <2>3. /\ q # Head0 /\ q \in DOMAIN next \union {Nil}
        /\ \A n \in DOMAIN next \ {Head0} :
             (q # Nil => Precedes(n, q)) <=> (n = Head0 \/ Precedes(n, Head0))
    BY <1>0, <1>2, <2>1, UpToSuccessor
  <2>4. \A n \in DOMAIN next \ {Head0} : ~(q # Nil => Precedes(n, q))
    BY <2>3 DEF Precedes
  <2>5. {n \in DOMAIN next \ {Head0} : q # Nil => Precedes(n, q)} = {}
    BY <2>4
  <2>6. {n \in DOMAIN next' \ {Head0} : q # Nil => Precedes(n, q)'} = {}
    BY <1>0, <2>5 DEF Precedes
  <2> QED
    BY <2>2, <2>3, <2>6 DEF DeletedSoFar
<1>4. ASSUME DeleteNode
      PROVE  /\ DeletedSoFar' /\ freed' \subseteq DOMAIN next
             /\ cursor' \in DOMAIN next \union {Nil}
             /\ phase' \in {"insert", "delete", "gone"}
  <2>1. PICK q : q = next[cursor][0]
    OBVIOUS
  <2>2. /\ cursor' = q /\ freed' = freed \union {cursor} /\ phase' = "delete"
        /\ ~broken' /\ cursor \in DOMAIN next \ {Head0}
        /\ freed = {n \in DOMAIN next \ {Head0} : Precedes(n, cursor)}
    BY <1>0, <1>4, <2>1 DEF DeleteNode, DeletedSoFar, TypeOK
  <2>3. /\ q # Head0 /\ q \in DOMAIN next \union {Nil}
        /\ \A n \in DOMAIN next \ {Head0} :
             (q # Nil => Precedes(n, q)) <=> (n = cursor \/ Precedes(n, cursor))
    BY <1>0, <2>1, <2>2, UpToSuccessor
  <2>4. freed' = {n \in DOMAIN next \ {Head0} : q # Nil => Precedes(n, q)}
    BY <2>2, <2>3
  <2>5. freed' = {n \in DOMAIN next' \ {Head0} : q # Nil => Precedes(n, q)'}
    BY <1>0, <2>4 DEF Precedes
  <2> QED
    BY <2>2, <2>3, <2>4, <2>5 DEF DeletedSoFar
<1>5. ASSUME DeleteHead
      PROVE  /\ DeletedSoFar' /\ freed' \subseteq DOMAIN next
             /\ cursor' \in DOMAIN next \union {Nil}
             /\ phase' \in {"insert", "delete", "gone"}
  <2>1. /\ cursor' = Nil /\ phase' = "gone" /\ freed' = freed \union {Head0}
        /\ freed = DOMAIN next \ {Head0}
    BY <1>0, <1>5 DEF DeleteHead, DeletedSoFar
  <2>2. freed' = DOMAIN next
    BY <1>2, <2>1
  <2> QED
    BY <1>0, <2>1, <2>2 DEF DeletedSoFar
<1>6. /\ DeletedSoFar' /\ freed' \subseteq DOMAIN next
      /\ cursor' \in DOMAIN next \union {Nil}
      /\ phase' \in {"insert", "delete", "gone"}
  BY <1>3, <1>4, <1>5
<1>7. TypeOK'
  <2>1. \A m \in DOMAIN next' : \A i \in DOMAIN next'[m] :
          next'[m][i] \in AtLevel(i)' \union {Nil}
    BY <1>0 DEF TypeOK, AtLevel
  <2>2. broken' \in BOOLEAN
    BY <1>0 DEF TypeOK
  <2>3. /\ key' \in Seq(Keys) /\ Len(key') <= N
        /\ prev' \in [Levels -> DOMAIN next'] /\ maxHeight' \in 1 .. MaxHeight
    BY <1>0 DEF TypeOK
  <2> QED
    BY <1>0, <1>6, <2>1, <2>2, <2>3 DEF TypeOK
<1> QED
  BY <1>1, <1>6, <1>7 DEF IInv

\* The list is empty.
LEMMA InitHolds == Init => IInv
<1> SUFFICES ASSUME Init PROVE IInv
  OBVIOUS
<1>0. /\ key = <<>> /\ next = [n \in {Head0} |-> [i \in Levels |-> Nil]]
      /\ prev = [i \in Levels |-> Head0] /\ maxHeight = 1 /\ broken = FALSE
      /\ phase = "insert" /\ cursor = Nil /\ freed = {}
  BY DEF Init
<1>1. /\ DOMAIN next = {Head0} /\ DOMAIN next[Head0] = Levels
      /\ \A i \in Levels : next[Head0][i] = Nil
      /\ key \in Seq(Keys) /\ Len(key) = 0
  BY <1>0
<1>2. \A i \in Levels : AtLevel(i) = {Head0}
  BY <1>1 DEF AtLevel
<1>3. TypeOK
  <2>1. key \in Seq(Keys) /\ Len(key) <= N
    BY <1>1
  <2>2. \A n \in DOMAIN next : \A i \in DOMAIN next[n] :
          next[n][i] \in AtLevel(i) \union {Nil}
    BY <1>1
  <2>3. prev \in [Levels -> DOMAIN next]
    BY <1>0, <1>1
  <2>4. /\ maxHeight \in 1 .. MaxHeight /\ broken \in BOOLEAN
        /\ phase \in {"insert", "delete", "gone"}
    <3>1. maxHeight = 1 /\ MaxHeight \in Nat \ {0}
      BY <1>0
    <3>2. maxHeight \in 1 .. MaxHeight
      BY <3>1
    <3> QED
      BY <1>0, <3>2, Zenon
  <2>5. cursor \in DOMAIN next \union {Nil} /\ freed \subseteq DOMAIN next
    BY <1>0, Zenon
  <2> QED
    BY <2>1, <2>2, <2>3, <2>4, <2>5 DEF TypeOK
<1>4. NodesMade
  BY <1>0, <1>1 DEF NodesMade
<1>5. Successors
  BY <1>1, <1>2 DEF Successors, Precedes
<1>6. FingersFit
  BY <1>0, <1>2 DEF FingersFit, Precedes
<1>7. DeletedSoFar
  BY <1>0 DEF DeletedSoFar
<1> QED
  BY <1>3, <1>4, <1>5, <1>6, <1>7 DEF IInv

\* A step that changes nothing.
LEMMA StutterPreserves == IInv /\ UNCHANGED vars => IInv'
<1> SUFFICES ASSUME IInv, UNCHANGED vars PROVE IInv'
  OBVIOUS
<1>0. /\ TypeOK /\ NodesMade /\ Successors /\ FingersFit /\ DeletedSoFar
      /\ UNCHANGED <<key, next, prev, maxHeight, broken, phase, cursor, freed>>
  BY DEF IInv, vars
<1>1. TypeOK'
  BY <1>0 DEF TypeOK, AtLevel
<1>2. NodesMade'
  BY <1>0 DEF NodesMade
<1>3. Successors'
  BY <1>0 DEF Successors, AtLevel, Precedes
<1>4. FingersFit'
  BY <1>0 DEF FingersFit, AtLevel, Precedes
<1>5. DeletedSoFar'
  <2>1. \A n : Precedes(n, cursor)' <=> Precedes(n, cursor)
    BY <1>0 DEF Precedes
  <2>2. {n \in DOMAIN next' \ {Head0} : cursor' # Nil => Precedes(n, cursor)'}
          = {n \in DOMAIN next \ {Head0} : cursor # Nil => Precedes(n, cursor)}
    BY <1>0, <2>1
  <2> QED
    BY <1>0, <2>2 DEF DeletedSoFar
<1> QED
  BY <1>1, <1>2, <1>3, <1>4, <1>5 DEF IInv

\* The invariant holds of every state: on each level a pointer leads to the
\* next node in order, prev_ to the last node that is not behind the latest
\* one, and the destructor has deleted what lies before its node.
THEOREM Invariance == Spec => []IInv
<1>1. Init => IInv
  BY InitHolds
<1>2. IInv /\ [Next]_vars => IInv'
  <2> SUFFICES ASSUME IInv, [Next]_vars PROVE IInv'
    OBVIOUS
  <2>1. CASE \E k \in Keys : Overwrite(k)
    BY <2>1, OverwritePreserves
  <2>2. CASE \E k \in Keys : \E h \in 1 .. MaxHeight : Insert(k, h)
    BY <2>2, InsertPreserves
  <2>3. CASE StartDelete \/ DeleteNode \/ DeleteHead
    BY <2>3, DestructorPreserves
  <2>4. CASE UNCHANGED vars
    BY <2>4, StutterPreserves
  <2> QED
    BY <2>1, <2>2, <2>3, <2>4 DEF Next
<1> QED
  BY <1>1, <1>2, PTL DEF Spec

---------------------------------------------------------------------------
(* The properties.                                                         *)

\* Starting from prev_, or not searching at all, finds the place that a search
\* from the head finds, whatever key comes next.
THEOREM FingersAreSound == Spec => []ShortcutIsSound
<1>1. IInv => ShortcutIsSound
  BY PlaceFinds DEF IInv, ShortcutIsSound
<1> QED
  BY <1>1, Invariance, PTL

\* The destructor deletes every node once.
THEOREM DestructorIsComplete == Spec => []DeletesEachNodeOnce
<1>1. IInv => DeletesEachNodeOnce
  <2> SUFFICES ASSUME IInv PROVE DeletesEachNodeOnce
    OBVIOUS
  <2>0. TypeOK /\ NodesMade /\ DeletedSoFar
    BY DEF IInv
  <2>1. cursor \in DOMAIN next \union {Nil} /\ Nil \notin DOMAIN next
    BY <2>0, NodesTyped DEF TypeOK
  <2>2. cursor \in freed => FALSE
    <3>1. CASE phase = "insert"
      BY <2>0, <3>1 DEF DeletedSoFar
    <3>2. CASE phase = "delete"
      BY <2>0, <2>1, <3>2, PrecedesIsOrder DEF DeletedSoFar
    <3>3. CASE phase = "gone"
      BY <2>0, <2>1, <3>3 DEF DeletedSoFar
    <3> QED
      BY <2>0, <3>1, <3>2, <3>3 DEF TypeOK
  <2> QED
    BY <2>0, <2>2 DEF DeletesEachNodeOnce, DeletedSoFar
<1> QED
  BY <1>1, Invariance, PTL

---------------------------------------------------------------------------
(* The walk.                                                               *)

\* What a walk along level i is from each node of D, and from the end.
Walks(f, D, i) ==
  f = [n \in D |-> IF n = Nil THEN <<>> ELSE <<n>> \o f[next[n][i]]]

\* A walk ends behind the last node.
LEMMA EndIsLast ==
  ASSUME TypeOK, NodesMade, Successors, NEW i \in Levels,
         NEW y \in AtLevel(i), next[y][i] = Nil
  PROVE  \A m \in AtLevel(i) : ~Precedes(y, m)
<1>1. Nil \notin AtLevel(i)
  BY NodesTyped
<1>2. \/ next[y][i] = Nil /\ \A m \in AtLevel(i) : ~Precedes(y, m)
      \/ next[y][i] \in AtLevel(i)
  BY Zenon DEF Successors
<1> QED
  BY <1>1, <1>2

\* The walk along a level exists.
LEMMA WalksExist ==
  ASSUME TypeOK, NodesMade, Successors, NEW i \in Levels
  PROVE  \E f : Walks(f, AtLevel(i) \union {Nil}, i)
<1> DEFINE On(y) == {m \in AtLevel(i) : m = y \/ Precedes(y, m)} \union {Nil}
           None == {y \in AtLevel(i) : ~\E f : Walks(f, On(y), i)}
<1>0. /\ AtLevel(i) \subseteq DOMAIN next /\ Nil \notin AtLevel(i)
      /\ Head0 \in AtLevel(i)
  BY NodesTyped
<1>1. ASSUME NEW y \in AtLevel(i), NEW q, q = next[y][i], NEW D, NEW f,
             Walks(f, D, i), y \notin D, Nil \in D, q \in D,
             \A n \in D : n # Nil => next[n][i] \in D
      PROVE  \E g : Walks(g, D \union {y}, i)
  <2> DEFINE g == [n \in D \union {y} |-> IF n = y THEN <<y>> \o f[q] ELSE f[n]]
  <2>1. ASSUME NEW n \in D \union {y}
        PROVE  g[n] = IF n = Nil THEN <<>> ELSE <<n>> \o g[next[n][i]]
    <3>1. \A m \in D : m # y /\ g[m] = f[m]
      BY <1>1
    <3>2. CASE n = y
      <4>1. g[n] = <<y>> \o f[q] /\ n # Nil
        BY <1>0, <1>1, <3>2
      <4>2. g[next[n][i]] = f[q]
        BY <1>1, <3>1, <3>2
      <4> HIDE DEF g
      <4> QED
        BY <3>2, <4>1, <4>2
    <3>3. CASE n # y
      <4>1. n \in D
        BY <3>3
      <4>2. f[n] = IF n = Nil THEN <<>> ELSE <<n>> \o f[next[n][i]]
        BY <1>1, <4>1 DEF Walks
      <4>3. n # Nil => g[next[n][i]] = f[next[n][i]]
        BY <1>1, <3>1, <4>1
      <4>4. g[n] = f[n]
        BY <3>1, <4>1
      <4> HIDE DEF g
      <4> QED
        BY <4>2, <4>3, <4>4
    <3> QED
      BY <3>2, <3>3
  <2>2. g = [n \in D \union {y} |-> g[n]]
    OBVIOUS
  <2>3. Walks(g, D \union {y}, i)
    <3> HIDE DEF g
    <3> QED
      BY <2>1, <2>2 DEF Walks
  <2> QED
    BY <2>3
<1>2. ASSUME NEW y \in AtLevel(i), NEW q, q = next[y][i], q # Nil
      PROVE  /\ q \in AtLevel(i) /\ Precedes(y, q) /\ y \notin On(q)
             /\ On(y) = On(q) \union {y}
  <2>1. /\ q \in AtLevel(i) /\ Precedes(y, q)
        /\ \A m \in AtLevel(i) : Precedes(y, m) => ~Precedes(m, q)
    BY <1>2 DEF Successors
  <2>2. y \notin On(q)
    BY <1>0, <2>1, PrecedesIsOrder
  <2>3. \A m \in AtLevel(i) : Precedes(y, m) <=> m = q \/ Precedes(q, m)
    BY <1>0, <2>1, PrecedesIsOrder
  <2>4. On(y) = On(q) \union {y}
    BY <2>3
  <2> QED
    BY <2>1, <2>2, <2>4
<1>3. ASSUME NEW y \in AtLevel(i), NEW n \in On(y), n # Nil
      PROVE  next[n][i] \in On(y)
  <2>1. n \in AtLevel(i) /\ (n = y \/ Precedes(y, n))
    BY <1>3
  <2>2. CASE next[n][i] = Nil
    BY <2>2
  <2>3. CASE next[n][i] # Nil
    <3>1. next[n][i] \in AtLevel(i) /\ Precedes(n, next[n][i])
      BY <2>1, <2>3 DEF Successors
    <3>2. Precedes(y, next[n][i])
      BY <1>0, <2>1, <3>1, PrecedesIsOrder
    <3> QED
      BY <3>1, <3>2
  <2> QED
    BY <2>2, <2>3
<1>4. ASSUME None # {} PROVE FALSE
  <2>1. None \subseteq DOMAIN next
    BY <1>0
  <2>2. PICK y \in None : \A m \in None : m = y \/ Precedes(m, y)
    <3> HIDE DEF None
    <3> QED
      BY <1>4, <2>1, LastNode
  <2>3. y \in AtLevel(i) /\ ~\E f : Walks(f, On(y), i)
    BY <2>2
  <2>4. PICK q : q = next[y][i]
    OBVIOUS
  <2>5. CASE q = Nil
    <3>1. \A m \in AtLevel(i) : ~Precedes(y, m)
      BY <2>3, <2>4, <2>5, EndIsLast
    <3>2. On(y) = {Nil} \union {y}
      BY <2>3, <3>1
    <3>3. Walks([n \in {Nil} |-> <<>>], {Nil}, i)
      BY DEF Walks
    <3>4. \E g : Walks(g, {Nil} \union {y}, i)
      <4>1. y \notin {Nil} /\ q \in {Nil}
        BY <1>0, <2>3, <2>5
      <4> QED
        BY <1>1, <2>3, <2>4, <3>3, <4>1
    <3> QED
      BY <2>3, <3>2, <3>4
  <2>6. CASE q # Nil
    <3>1. /\ q \in AtLevel(i) /\ Precedes(y, q) /\ y \notin On(q)
          /\ On(y) = On(q) \union {y}
      BY <1>2, <2>3, <2>4, <2>6
    <3>2. q \notin None
      <4>1. ~(q = y \/ Precedes(q, y))
        BY <1>0, <2>3, <3>1, PrecedesIsOrder
      <4> HIDE DEF None
      <4> QED
        BY <2>2, <4>1
    <3>3. PICK f : Walks(f, On(q), i)
      BY <3>1, <3>2
    <3>4. q \in On(q) /\ Nil \in On(q)
      BY <3>1
    <3>5. \A n \in On(q) : n # Nil => next[n][i] \in On(q)
      BY <1>3, <3>1
    <3>6. \E g : Walks(g, On(q) \union {y}, i)
      <4> HIDE DEF On
      <4> QED
        BY <1>1, <2>3, <2>4, <3>1, <3>3, <3>4, <3>5
    <3> HIDE DEF On
    <3> QED
      BY <2>3, <3>1, <3>6
  <2> QED
    BY <2>5, <2>6
<1>5. On(Head0) = AtLevel(i) \union {Nil}
  BY <1>0, PrecedesIsOrder
<1>6. Head0 \notin None
  BY <1>4
<1> QED
  BY <1>0, <1>5, <1>6

\* A walk from a node meets it and the nodes of the level behind it, in order.
Meets(s, n, i) ==
  /\ s \in Seq(AtLevel(i))
  /\ \A m \in AtLevel(i) : (m = n \/ Precedes(n, m)) <=> m \in ToSet(s)
  /\ \A a, b \in DOMAIN s : a < b => Precedes(s[a], s[b])

LEMMA WalkMeets ==
  ASSUME TypeOK, NodesMade, Successors, NEW i \in Levels,
         NEW f, Walks(f, AtLevel(i) \union {Nil}, i), NEW n \in AtLevel(i)
  PROVE  Meets(f[n], n, i)
<1> DEFINE Bad == {y \in AtLevel(i) : ~Meets(f[y], y, i)}
<1>0. AtLevel(i) \subseteq DOMAIN next /\ Nil \notin AtLevel(i)
  BY NodesTyped
<1>1. ASSUME NEW y \in AtLevel(i) PROVE f[y] = <<y>> \o f[next[y][i]]
  BY <1>0 DEF Walks
<1>2. f[Nil] = <<>>
  BY DEF Walks
<1>3. ASSUME Bad # {} PROVE FALSE
  <2>1. Bad \subseteq DOMAIN next
    BY <1>0
  <2>2. PICK y \in Bad : \A m \in Bad : m = y \/ Precedes(m, y)
    <3> HIDE DEF Bad
    <3> QED
      BY <1>3, <2>1, LastNode
  <2>3. y \in AtLevel(i) /\ ~Meets(f[y], y, i)
    BY <2>2
  <2>4. PICK q : q = next[y][i]
    OBVIOUS
  <2>5. CASE q = Nil
    <3>1. \A m \in AtLevel(i) : ~Precedes(y, m)
      BY <2>3, <2>4, <2>5, EndIsLast
    <3>2. f[y] = <<y>>
      <4>1. f[y] = <<y>> \o <<>>
        BY <1>1, <1>2, <2>3, <2>4, <2>5
      <4>2. <<y>> \o <<>> = <<y>>
        OBVIOUS
      <4> QED
        BY <4>1, <4>2
    <3>3. ToSet(<<y>>) = {y}
      BY DEF ToSet
    <3>4. Meets(<<y>>, y, i)
      <4>1. <<y>> \in Seq(AtLevel(i))
        BY <2>3
      <4>2. \A m \in AtLevel(i) : (m = y \/ Precedes(y, m)) <=> m \in ToSet(<<y>>)
        BY <3>1, <3>3
      <4>3. \A a, b \in DOMAIN <<y>> : a < b => Precedes(<<y>>[a], <<y>>[b])
        OBVIOUS
      <4> QED
        BY <4>1, <4>2, <4>3 DEF Meets
    <3> QED
      BY <2>3, <3>2, <3>4
  <2>6. CASE q # Nil
    <3>1. /\ q \in AtLevel(i) /\ Precedes(y, q)
          /\ \A m \in AtLevel(i) : Precedes(y, m) => ~Precedes(m, q)
      BY <2>3, <2>4, <2>6 DEF Successors
    <3>2. Meets(f[q], q, i)
      <4>1. ~(q = y \/ Precedes(q, y))
        BY <1>0, <2>3, <3>1, PrecedesIsOrder
      <4>2. q \notin Bad
        <5> HIDE DEF Bad
        <5> QED
          BY <2>2, <4>1
      <4> QED
        BY <3>1, <4>2
    <3>3. PICK t : t = f[q]
      OBVIOUS
    <3>4. PICK s : s = f[y]
      OBVIOUS
    <3>5. s = <<y>> \o t /\ t \in Seq(AtLevel(i))
      BY <1>1, <2>3, <2>4, <3>2, <3>3, <3>4 DEF Meets
    <3>6. /\ s \in Seq(AtLevel(i)) /\ Len(t) \in Nat /\ Len(s) = 1 + Len(t)
          /\ DOMAIN s = 1 .. Len(s) /\ DOMAIN t = 1 .. Len(t)
          /\ s[1] = y /\ \A a \in 2 .. Len(s) : s[a] = t[a - 1]
      BY <2>3, <3>5
    <3>7. /\ \A a \in DOMAIN s : a = 1 \/ (a - 1 \in DOMAIN t /\ s[a] = t[a - 1])
          /\ \A a \in DOMAIN t : a + 1 \in DOMAIN s /\ s[a + 1] = t[a]
          /\ 1 \in DOMAIN s
      BY <3>6
    <3>8. \A m : m \in ToSet(s) <=> m = y \/ m \in ToSet(t)
      <4>1. ASSUME NEW m \in ToSet(s) PROVE m = y \/ m \in ToSet(t)
        <5>1. PICK a \in DOMAIN s : m = s[a]
          BY DEF ToSet
        <5>2. CASE a = 1
          BY <3>6, <5>1, <5>2
        <5>3. CASE a # 1
          BY <3>7, <5>1, <5>3 DEF ToSet
        <5> QED
          BY <5>2, <5>3
      <4>2. y \in ToSet(s)
        BY <3>6, <3>7 DEF ToSet
      <4>3. ASSUME NEW m \in ToSet(t) PROVE m \in ToSet(s)
        <5>1. PICK a \in DOMAIN t : m = t[a]
          BY DEF ToSet
        <5> QED
          BY <3>7, <5>1 DEF ToSet
      <4> QED
        BY <4>1, <4>2, <4>3
    <3>9. \A m \in AtLevel(i) : (m = q \/ Precedes(q, m)) <=> m \in ToSet(t)
      BY <3>2, <3>3 DEF Meets
    <3>10. \A m \in AtLevel(i) : Precedes(y, m) <=> (m = q \/ Precedes(q, m))
      BY <1>0, <2>3, <3>1, PrecedesIsOrder
    <3>11. \A a \in DOMAIN t : t[a] \in AtLevel(i) /\ Precedes(y, t[a])
      <4> SUFFICES ASSUME NEW a \in DOMAIN t
          PROVE  t[a] \in AtLevel(i) /\ Precedes(y, t[a])
        OBVIOUS
      <4>1. t[a] \in AtLevel(i)
        BY <3>5
      <4>2. t[a] \in ToSet(t)
        BY DEF ToSet
      <4> QED
        BY <3>9, <3>10, <4>1, <4>2
    <3>12. \A a, b \in DOMAIN t : a < b => Precedes(t[a], t[b])
      BY <3>2, <3>3 DEF Meets
    <3>13. \A a, b \in DOMAIN s : a < b => Precedes(s[a], s[b])
      <4> SUFFICES ASSUME NEW a \in DOMAIN s, NEW b \in DOMAIN s, a < b
          PROVE  Precedes(s[a], s[b])
        OBVIOUS
      <4>1. b # 1 /\ a \in Nat /\ b \in Nat
        BY <3>6
      <4>2. b - 1 \in DOMAIN t /\ s[b] = t[b - 1]
        BY <3>7, <4>1
      <4>3. CASE a = 1
        BY <3>6, <3>11, <4>2, <4>3
      <4>4. CASE a # 1
        <5>1. a - 1 \in DOMAIN t /\ s[a] = t[a - 1] /\ a - 1 < b - 1
          BY <3>7, <4>1, <4>4
        <5> QED
          BY <3>12, <4>2, <5>1
      <4> QED
        BY <4>3, <4>4
    <3>14. \A m \in AtLevel(i) : (m = y \/ Precedes(y, m)) <=> m \in ToSet(s)
      BY <3>8, <3>9, <3>10
    <3>15. Meets(s, y, i)
      BY <3>6, <3>13, <3>14 DEF Meets
    <3> QED
      BY <2>3, <3>4, <3>15
  <2> QED
    BY <2>5, <2>6
<1> QED
  BY <1>3

\* Every level stays sorted, and a walk along it meets all its nodes once.
THEOREM WalksAreSorted == Spec => []LevelsSorted
<1>1. IInv => LevelsSorted
  <2> SUFFICES ASSUME IInv, NEW i \in Levels
      PROVE  /\ ToSet(Walk(i)) = AtLevel(i) \ {Head0}
             /\ \A a, b \in DOMAIN Walk(i) :
                  a < b => Precedes(Walk(i)[a], Walk(i)[b])
    BY DEF IInv, LevelsSorted
  <2>0. TypeOK /\ NodesMade /\ Successors
    BY DEF IInv
  <2> DEFINE from == CHOOSE f :
               f = [n \in AtLevel(i) \union {Nil} |->
                      IF n = Nil THEN <<>> ELSE <<n>> \o f[next[n][i]]]
  <2>1. Walks(from, AtLevel(i) \union {Nil}, i)
    BY <2>0, WalksExist DEF Walks
  <2>2. Walk(i) = from[next[Head0][i]]
    BY DEF Walk
  <2> HIDE DEF from
  <2>3. PICK q : q = next[Head0][i]
    OBVIOUS
  <2>4. /\ Head0 \in AtLevel(i) /\ AtLevel(i) \subseteq DOMAIN next
        /\ Nil \notin AtLevel(i)
    BY <2>0, NodesTyped
  <2>5. CASE q = Nil
    <3>1. Walk(i) = <<>>
      BY <2>1, <2>2, <2>3, <2>5 DEF Walks
    <3>2. ToSet(<<>>) = {}
      BY DEF ToSet
    <3>3. \A m \in AtLevel(i) : ~Precedes(Head0, m)
      BY <2>0, <2>3, <2>4, <2>5, EndIsLast
    <3>4. AtLevel(i) \ {Head0} = {}
      BY <2>0, <2>4, <3>3, PrecedesIsOrder
    <3> QED
      BY <3>1, <3>2, <3>4
  <2>6. CASE q # Nil
    <3>1. /\ q \in AtLevel(i) /\ Precedes(Head0, q)
          /\ \A m \in AtLevel(i) : Precedes(Head0, m) => ~Precedes(m, q)
      BY <2>0, <2>3, <2>4, <2>6 DEF Successors
    <3>2. Meets(Walk(i), q, i)
      BY <2>0, <2>1, <2>2, <2>3, <3>1, WalkMeets
    <3>3. \A m \in AtLevel(i) : m # Head0 <=> (m = q \/ Precedes(q, m))
      BY <2>0, <2>4, <3>1, PrecedesIsOrder
    <3>4. \A m \in AtLevel(i) : m # Head0 <=> m \in ToSet(Walk(i))
      BY <3>2, <3>3 DEF Meets
    <3>5. ToSet(Walk(i)) \subseteq AtLevel(i)
      BY <3>2 DEF Meets, ToSet
    <3>6. ToSet(Walk(i)) = AtLevel(i) \ {Head0}
      BY <3>4, <3>5
    <3> QED
      BY <3>2, <3>6 DEF Meets
  <2> QED
    BY <2>5, <2>6
<1> QED
  BY <1>1, Invariance, PTL
=============================================================================
