---------------------- MODULE PersistentSkipListProofs ----------------------
(***************************************************************************)
(* Proofs about PersistentSkipList with one thread and distinct keys, for  *)
(* any number of Inserts and any height: the search finds the place of     *)
(* every key, and what a power failure may find in NVM.  There is one      *)
(* lemma per part of the invariant, with a step for each action that can   *)
(* disturb it.                                                             *)
(***************************************************************************)
EXTENDS PersistentSkipList, TLAPS

\* Named, for the names of its modules would clash with Head.
Numbers == INSTANCE NumberLemmas

USE SkipListAssumption
    DEF vars, listVars, threadVars, nvmVars, Goes, Nodes, Points, Levels,
        Head, Nil, Garbage, Torn

---------------------------------------------------------------------------
(* The order of the nodes, and the sets On(i).                             *)

\* What TypeOK says of the values of the functions.
LEMMA ValuesTyped ==
  ASSUME TypeOK
  PROVE  /\ made \in Nat
         /\ \A n \in Nodes : height[n] \in 0 .. MaxHeight
         /\ \A i \in Levels : prev[i] \in Points
         /\ \A n \in Points, i \in Levels :
              next[n][i] \in Points \union {Nil, Garbage}
         /\ \A t \in Threads : lvl[t] \in Levels /\ cur[t] \in Points
<1>1. made \in Nat
  BY DEF TypeOK
<1>2. \A n \in Nodes : height[n] \in 0 .. MaxHeight
  BY DEF TypeOK
<1>3. \A i \in Levels : prev[i] \in Points
  BY DEF TypeOK
<1>4. \A n \in Points, i \in Levels : next[n][i] \in Points \union {Nil, Garbage}
  <2>1. next \in [Points -> [Levels -> Points \union {Nil, Garbage}]]
    BY DEF TypeOK
  <2> QED
    BY <2>1
<1>5. \A t \in Threads : lvl[t] \in Levels /\ cur[t] \in Points
  BY DEF TypeOK
<1> QED
  BY <1>1, <1>2, <1>3, <1>4, <1>5

\* Distinct keys put the nodes in a strict order with the head first.
LEMMA PrecedesIsOrder ==
  ASSUME TypeOK, KeysDistinct
  PROVE  /\ \A m \in Points : ~Precedes(m, m)
         /\ \A m, n \in Points : Precedes(m, n) => ~Precedes(n, m)
         /\ \A m, n, p \in Points :
              Precedes(m, n) /\ Precedes(n, p) => Precedes(m, p)
         /\ \A m, n \in Points : m = n \/ Precedes(m, n) \/ Precedes(n, m)
         /\ \A n \in Nodes : Precedes(Head, n)
<1>1. \A m \in Nodes : key[m] \in Nat
  BY DEF TypeOK
<1>2. \A m \in Points : m \in Nodes <=> m # Head
  OBVIOUS
<1> QED
  BY <1>1, <1>2 DEF KeysDistinct, Precedes, KeyBelow

\* What On(i) is when one thread uses the list.
LEMMA OnIs ==
  ASSUME NEW t, Threads = {t}, NEW i \in Levels
  PROVE  /\ Head \in On(i) /\ On(i) \subseteq Points
         /\ \A n \in Nodes : n \in On(i) <=> height[n] > i /\ ~Unlinked(t, n, i)
BY DEF On

\* The keys never change.
LEMMA KeysStay ==
  ASSUME Next
  PROVE  /\ key' = key
         /\ \A m, n \in Points : Precedes(m, n)' <=> Precedes(m, n)
<1>1. key' = key
  BY DEF Next, Step, StartAtFinger, StartFindNextNode, StartFindLessThan,
         Advance, Descend, Grow, Link, PersistNew, LinkPrev, PersistPrev,
         WriteBack
<1> QED
  BY <1>1 DEF Precedes, KeyBelow

\* While no node is being linked, the lists are those of the heights.
LEMMA OnByHeight ==
  ASSUME NEW t, Threads = {t}, TypeOK, pc[t] \in {"idle", "search", "grow"}
  PROVE  /\ \A i \in Levels : \A n \in Nodes : n \in On(i) <=> height[n] > i
         /\ \A i, j \in Levels : i <= j => On(j) \subseteq On(i)
<1>1. \A i \in Levels : \A n \in Nodes : n \in On(i) <=> height[n] > i
  <2> TAKE i \in Levels
  <2> TAKE n \in Nodes
  <2>1. ~Unlinked(t, n, i)
    BY DEF Unlinked
  <2> QED
    BY <2>1, OnIs
<1>2. ASSUME NEW i \in Levels, NEW j \in Levels, i <= j, NEW n \in On(j)
      PROVE  n \in On(i)
  <2>1. n \in Points /\ Head \in On(i)
    BY OnIs
  <2>2. ASSUME n \in Nodes PROVE height[n] > i
    <3>1. height[n] > j /\ height[n] \in Int
      BY <1>1, <2>2 DEF TypeOK
    <3> QED
      BY <1>2, <3>1
  <2> QED
    BY <1>1, <2>1, <2>2
<1> QED
  BY <1>1, <1>2

\* The node of an Insert in progress is in no list before it is linked.
LEMMA OnStays ==
  ASSUME NEW t, Threads = {t}, TypeOK, NodesMade, NEW i \in Levels,
         Next, ~LinkPrev(t)
  PROVE  On(i)' = On(i)
<1> SUFFICES ASSUME NEW n \in Nodes
    PROVE  (height[n] > i /\ ~Unlinked(t, n, i))'
             <=> height[n] > i /\ ~Unlinked(t, n, i)
  BY DEF On
<1>0. t \in Threads
  OBVIOUS
<1>1. CASE StartAtFinger(t) \/ StartFindNextNode(t) \/ StartFindLessThan(t)
  BY <1>0, <1>1 DEF StartAtFinger, StartFindNextNode, StartFindLessThan,
                    Unlinked, TypeOK
<1>2. CASE Advance(t) \/ Descend(t)
  BY <1>0, <1>2 DEF Advance, Descend, Unlinked, TypeOK
<1>3. CASE Grow(t)
  BY <1>0, <1>3 DEF Grow, Unlinked, TypeOK, NodesMade
<1>4. CASE Link(t) \/ PersistNew(t)
  BY <1>0, <1>4 DEF Link, PersistNew, Unlinked, TypeOK
<1>5. CASE PersistPrev(t)
  <2>1. /\ height' = height /\ cur' = cur /\ pc[t] = "persistPrev"
        /\ IF lvl[t] + 1 = height[cur[t]]
           THEN pc'[t] = "idle" ELSE pc'[t] = "link" /\ lvl'[t] = lvl[t] + 1
    BY <1>0, <1>5 DEF PersistPrev, NextLevel, TypeOK
  <2>2. lvl[t] \in Nat /\ i \in Nat /\ height[n] \in Nat
    BY <1>0, ValuesTyped
  <2> QED
    BY <2>1, <2>2 DEF Unlinked
<1>6. CASE \E m \in Points, j \in Levels : WriteBack(m, j)
  BY <1>6 DEF WriteBack, Unlinked
<1> QED
  BY <1>1, <1>2, <1>3, <1>4, <1>5, <1>6 DEF Next, Step

\* The store of prev_[i]->SetNext puts the new node into the list of level i.
LEMMA OnGrows ==
  ASSUME NEW t, Threads = {t}, TypeOK, NodesMade, NEW i \in Levels,
         LinkPrev(t)
  PROVE  On(i)' = IF i = lvl[t] THEN On(i) \union {cur[t]} ELSE On(i)
<1>1. /\ pc[t] = "linkPrev" /\ pc'[t] = "persistPrev"
      /\ UNCHANGED <<height, cur, lvl>>
      /\ cur[t] \in Nodes /\ lvl[t] < height[cur[t]] /\ lvl[t] \in Levels
  BY DEF LinkPrev, NodesMade, TypeOK
<1>2. ASSUME NEW n \in Nodes
      PROVE  (height[n] > i /\ ~Unlinked(t, n, i))'
               <=> \/ height[n] > i /\ ~Unlinked(t, n, i)
                   \/ n = cur[t] /\ i = lvl[t]
  BY <1>1 DEF Unlinked, TypeOK
<1> QED
  BY <1>1, <1>2 DEF On

\* The node that is being linked is not in the list of a level to come.
LEMMA NewNodeIsNotOn ==
  ASSUME NEW t, Threads = {t}, TypeOK, NodesMade, NEW i \in Levels,
         \/ pc[t] \in {"search", "grow"}
         \/ pc[t] \in {"link", "persistNew", "linkPrev"} /\ lvl[t] <= i
         \/ pc[t] = "persistPrev" /\ lvl[t] < i
  PROVE  cur[t] \in Nodes /\ cur[t] \notin On(i)
<1>1. cur[t] \in Nodes
  BY DEF NodesMade, TypeOK
<1> QED
  BY <1>1, OnIs DEF NodesMade, TypeOK, Unlinked

\* A number that is not used yet is in no list.
LEMMA OnIsMade ==
  ASSUME NEW t, Threads = {t}, TypeOK, NodesMade, NEW i \in Levels
  PROVE  \A n \in On(i) : n \in Points /\ n <= made
<1> SUFFICES ASSUME NEW n \in On(i) PROVE n \in Points /\ n <= made
  OBVIOUS
<1>1. n \in Points
  BY DEF On
<1>0. made \in Nat /\ i \in Nat
  BY DEF TypeOK
<1>2. ASSUME n \in Nodes PROVE n <= made
  <2>0. height[n] > i
    BY <1>2 DEF On
  <2>1. height[n] > i /\ height[n] \in Nat
    BY <1>2, <2>0 DEF TypeOK
  <2> QED
    BY <1>0, <1>2, <2>1 DEF NodesMade
<1> QED
  BY <1>0, <1>1, <1>2

---------------------------------------------------------------------------
(* The search.                                                             *)

\* What an idle list gives the next Insert, whose node is made + 1.
LEMMA IdleFacts ==
  ASSUME NEW t, Threads = {t}, FingersFit, NodesMade, Successors,
         pc[t] = "idle", made < N
  PROVE  /\ made + 1 \in Nodes /\ height[made + 1] = 0
         /\ prev[0] \in On(0) /\ prev[0] \in Points
         /\ \A i \in Levels : \A m \in On(i) : m # made + 1 /\ m \in Points
         /\ next[prev[0]][0] # Nil =>
              /\ next[prev[0]][0] \in On(0)
              /\ IsPlace(prev[0], next[prev[0]][0], 0)
         /\ next[prev[0]][0] = Nil => \A m \in On(0) : ~Precedes(prev[0], m)
<1>0. TypeOK /\ 0 \in Levels /\ 0 \in 0 .. maxHeight - 1 /\ made \in Nat
  BY DEF FingersFit, TypeOK
<1>1. made + 1 \in Nodes /\ height[made + 1] = 0
  BY <1>0 DEF NodesMade, TypeOK
<1>2. prev[0] \in On(0) /\ prev[0] \in Points
  BY <1>0 DEF FingersFit, TypeOK
<1>3. ASSUME NEW i \in Levels, NEW m \in On(i)
      PROVE  m # made + 1 /\ m \in Points
  <2>1. m \in Points /\ m <= made
    BY <1>0, OnIsMade
  <2> QED
    BY <1>0, <2>1
<1>4. next[prev[0]][0] # Nil =>
        /\ next[prev[0]][0] \in On(0)
        /\ IsPlace(prev[0], next[prev[0]][0], 0)
  BY <1>0, <1>2 DEF Successors
<1>5. next[prev[0]][0] = Nil => \A m \in On(0) : ~Precedes(prev[0], m)
  <2>1. next[prev[0]][0] = Nil => next[prev[0]][0] \notin On(0)
    BY DEF On
  <2> QED
    BY <1>0, <1>2, <2>1 DEF Successors
<1> QED
  BY <1>1, <1>2, <1>3, <1>4, <1>5

\* A key behind prev_[0] is behind every prev_[i].
LEMMA BehindFingers ==
  ASSUME NEW t, Threads = {t}, FingersFit, KeysDistinct,
         pc[t] = "idle", NEW n \in Nodes, Precedes(prev[0], n),
         NEW i \in 0 .. maxHeight - 1
  PROVE  prev[i] \in On(i) /\ prev[i] \in Points /\ Precedes(prev[i], n)
<1>1. TypeOK /\ i \in Levels /\ 0 \in Levels
  BY DEF FingersFit, TypeOK
<1>2. prev[i] \in On(i) /\ ~Precedes(prev[0], prev[i])
  BY DEF FingersFit
<1>3. prev[i] \in Points /\ prev[0] \in Points /\ n \in Points
  BY <1>1 DEF TypeOK
<1>4. prev[i] = prev[0] \/ Precedes(prev[i], prev[0])
  BY <1>1, <1>2, <1>3, PrecedesIsOrder
<1>5. Precedes(prev[i], n)
  BY <1>1, <1>3, <1>4, PrecedesIsOrder
<1> QED
  BY <1>2, <1>3, <1>5

\* StartAtFinger: the key belongs right behind prev_[0], so prev_ is its
\* place on every level.
LEMMA PlaceAtFinger ==
  ASSUME NEW t, Threads = {t}, FingersFit, KeysDistinct, NodesMade, Successors,
         StartAtFinger(t), NEW i \in 0 .. maxHeight - 1
  PROVE  IsPlace(prev[i], made + 1, i)
<1> DEFINE n == made + 1
           p == prev[0]
           q == next[p][0]
<1>0. pc[t] = "idle" /\ made < N /\ TypeOK
  BY DEF StartAtFinger, FingersFit
<1>00. i \in Levels /\ 0 \in Levels
  BY <1>0 DEF TypeOK
<1>1. /\ n \in Nodes /\ p \in Points /\ p # n
      /\ q # Nil => q \in Points /\ q # n /\ IsPlace(p, q, 0)
      /\ q = Nil => \A m \in On(0) : ~Precedes(p, m)
      /\ \A m \in On(i) : m # n /\ m \in Points
  BY <1>0, <1>00, IdleFacts
<1>2. Precedes(p, n) /\ (q # Nil => Precedes(n, q))
  <2>1. \A m \in Points : m # n => ~KeyEqual(m, n)
    BY <1>1 DEF KeysDistinct, KeyEqual
  <2>2. KeyBelow(p, n) /\ (q # Nil => key[n] < key[q])
    BY <1>1, <2>1 DEF StartAtFinger
  <2>3. n # Head /\ (q # Nil => q # Head)
    BY <1>1 DEF IsPlace, Precedes
  <2> QED
    BY <2>2, <2>3 DEF Precedes, KeyBelow
<1>3. prev[i] \in On(i) /\ prev[i] \in Points /\ Precedes(prev[i], n)
  BY <1>0, <1>1, <1>2, BehindFingers
<1>4. ASSUME NEW m \in On(i), Precedes(prev[i], m) PROVE ~Precedes(m, n)
  <2>1. Precedes(p, m) /\ m \in Points
    BY <1>0, <1>1, <1>4 DEF FingersFit
  <2>2. m \in On(0)
    BY <1>0, <1>00, <1>4, OnByHeight
  <2>3. q # Nil /\ q \in Points /\ ~Precedes(m, q)
    BY <1>1, <2>1, <2>2 DEF IsPlace
  <2>4. Precedes(n, q) /\ n \in Points
    BY <1>1, <1>2, <2>3
  <2>5. Precedes(n, m)
    BY <1>0, <2>1, <2>3, <2>4, PrecedesIsOrder
  <2> QED
    BY <1>0, <2>1, <2>4, <2>5, PrecedesIsOrder
<1> QED
  BY <1>3, <1>4 DEF IsPlace

\* Descend: where the search stops on a level is the place of the new node.
LEMMA PlaceAtDescent ==
  ASSUME NEW t, Threads = {t}, TypeOK, KeysDistinct, NodesMade, Successors,
         SearchPlaces, Descend(t)
  PROVE  IsPlace(x[t], cur[t], lvl[t])
<1> DEFINE q == next[x[t]][lvl[t]]
<1>1. pc[t] = "search" /\ t \in Threads /\ lvl[t] \in Levels /\ x[t] \in Points
  BY DEF Descend, TypeOK
<1>2. x[t] \in On(lvl[t]) /\ Precedes(x[t], cur[t])
  BY <1>1 DEF SearchPlaces
<1>3. cur[t] \in Nodes /\ cur[t] \notin On(lvl[t]) /\ cur[t] \in Points
  BY <1>1, NewNodeIsNotOn
<1>4. ASSUME NEW m \in On(lvl[t]), Precedes(x[t], m) PROVE ~Precedes(m, cur[t])
  <2>1. m \in Points
    BY <1>1, OnIs
  <2>2. q # Nil /\ q \in On(lvl[t]) /\ q \in Points /\ ~Precedes(m, q)
    <3>0. \/ q = Nil /\ \A r \in On(lvl[t]) : ~Precedes(x[t], r)
          \/ q \in On(lvl[t]) /\ IsPlace(x[t], q, lvl[t])
      BY <1>1, <1>2, Zenon DEF Successors
    <3>1. q \in On(lvl[t]) /\ IsPlace(x[t], q, lvl[t])
      BY <1>4, <3>0
    <3>2. q \in Points
      BY <3>1 DEF On
    <3> QED
      BY <1>4, <3>1, <3>2 DEF IsPlace
  <2>3. ~Precedes(q, cur[t])
    BY <2>2 DEF Descend, Precedes
  <2>4. Precedes(cur[t], q)
    BY <1>3, <2>2, <2>3, PrecedesIsOrder
  <2>5. Precedes(cur[t], m)
    BY <1>3, <2>1, <2>2, <2>4, PrecedesIsOrder
  <2> QED
    BY <1>3, <2>1, <2>5, PrecedesIsOrder
<1> QED
  BY <1>2, <1>4 DEF IsPlace

---------------------------------------------------------------------------
(* The parts of the invariant.                                             *)

\* Every step keeps the variables typed.
LEMMA TypePreserved ==
  ASSUME NEW t, Threads = {t}, TypeOK, NodesMade, Successors, SearchPlaces,
         Next
  PROVE  TypeOK'
<1>0. t \in Threads
  OBVIOUS
<1>1. CASE StartAtFinger(t) \/ StartFindNextNode(t) \/ StartFindLessThan(t)
  <2>1. made + 1 \in Nodes /\ made' = made + 1 /\ cur' = [cur EXCEPT ![t] = made + 1]
    BY <1>1 DEF TypeOK, StartAtFinger, StartFindNextNode, StartFindLessThan
  <2>2. maxHeight - 1 \in Levels
    BY DEF TypeOK
  <2>3. pc' \in [Threads -> PCs] /\ UNCHANGED <<key, listVars, nvmVars>>
    BY <1>1 DEF TypeOK, PCs, StartAtFinger, StartFindNextNode, StartFindLessThan
  <2>4. x' \in [Threads -> Points]
    BY <1>1, <2>2 DEF TypeOK, StartAtFinger, StartFindNextNode, StartFindLessThan
  <2>5. lvl' \in [Threads -> Levels]
    BY <1>1, <2>2 DEF TypeOK, StartAtFinger, StartFindNextNode, StartFindLessThan
  <2>6. made' \in 0 .. N /\ cur' \in [Threads -> Points]
    BY <2>1 DEF TypeOK
  <2>7. /\ key' \in [Nodes -> Nat]
        /\ height' \in [Nodes -> 0 .. MaxHeight]
        /\ next' \in [Points -> [Levels -> Points \union {Nil, Garbage}]]
        /\ pm' \in [Points -> [Levels -> Points \union {Nil, Garbage, Torn}]]
        /\ keyDurable' \subseteq Points
        /\ prev' \in [Levels -> Points]
        /\ maxHeight' \in 1 .. MaxHeight
    BY <2>3 DEF TypeOK
  <2> QED
    BY <2>3, <2>4, <2>5, <2>6, <2>7 DEF TypeOK
<1>2. CASE Advance(t)
  <2>1. next[x[t]][lvl[t]] \in Points
    <3>1. lvl[t] \in Levels /\ x[t] \in On(lvl[t])
      BY <1>0, <1>2 DEF Advance, TypeOK, SearchPlaces
    <3>2. next[x[t]][lvl[t]] \in On(lvl[t])
      BY <1>2, <3>1 DEF Successors, Advance
    <3> QED
      BY <3>2 DEF On
  <2> QED
    BY <1>2, <2>1 DEF TypeOK, Advance
<1>3. CASE Descend(t)
  <2>1. pc' \in [Threads -> PCs] /\ prev' \in [Levels -> Points]
    BY <1>0, <1>3 DEF TypeOK, PCs, Descend
  <2>2. lvl' \in [Threads -> Levels]
    BY <1>0, <1>3 DEF TypeOK, Descend
  <2> QED
    BY <1>3, <2>1, <2>2 DEF TypeOK, Descend
<1>4. CASE Grow(t)
  <2> PICK h \in 1 .. MaxHeight :
         /\ height' = [height EXCEPT ![cur[t]] = h]
         /\ prev' = [i \in Levels |->
                       IF maxHeight <= i /\ i < h THEN Head ELSE prev[i]]
         /\ maxHeight' = IF h > maxHeight THEN h ELSE maxHeight
    BY <1>4 DEF Grow
  <2>0. h \in 0 .. MaxHeight /\ height \in [Nodes -> 0 .. MaxHeight]
    BY DEF TypeOK
  <2>1. height' \in [Nodes -> 0 .. MaxHeight]
    BY <2>0
  <2>4. maxHeight' \in 1 .. MaxHeight
    BY DEF TypeOK
  <2>2. prev' \in [Levels -> Points]
    BY DEF TypeOK
  <2>3. pc' \in [Threads -> PCs] /\ lvl' \in [Threads -> Levels]
    BY <1>4 DEF TypeOK, PCs, Grow
  <2> QED
    BY <1>4, <2>1, <2>2, <2>3, <2>4 DEF TypeOK, Grow
<1>5. CASE Link(t) \/ LinkPrev(t)
  <2>1. pc' \in [Threads -> PCs]
    BY <1>5 DEF TypeOK, PCs, Link, LinkPrev
  <2>2. /\ lvl[t] \in Levels /\ cur[t] \in Points /\ prev[lvl[t]] \in Points
        /\ next[prev[lvl[t]]][lvl[t]] \in Points \union {Nil, Garbage}
    BY <1>0, ValuesTyped
  <2>4. next \in [Points -> [Levels -> Points \union {Nil, Garbage}]]
    BY DEF TypeOK
  <2>3. next' \in [Points -> [Levels -> Points \union {Nil, Garbage}]]
    <3>1. CASE Link(t)
      BY <2>2, <2>4, <3>1 DEF Link
    <3>2. CASE LinkPrev(t)
      BY <2>2, <2>4, <3>2 DEF LinkPrev
    <3> QED
      BY <1>5, <3>1, <3>2
  <2> QED
    BY <1>5, <2>1, <2>3 DEF TypeOK, Link, LinkPrev
<1>6. CASE PersistNew(t)
  <2>1. pc' \in [Threads -> PCs]
    BY <1>6 DEF TypeOK, PCs, PersistNew
  <2>2. /\ lvl[t] \in Levels /\ cur[t] \in Points
        /\ next[cur[t]][lvl[t]] \in Points \union {Nil, Garbage, Torn}
    BY <1>0, ValuesTyped
  <2>3. pm' \in [Points -> [Levels -> Points \union {Nil, Garbage, Torn}]]
    BY <1>6, <2>2 DEF TypeOK, PersistNew
  <2> QED
    BY <1>6, <2>1, <2>3 DEF TypeOK, PersistNew
<1>7. CASE PersistPrev(t)
  <2>1. pc' \in [Threads -> PCs]
    BY <1>7 DEF TypeOK, PCs, PersistPrev, NextLevel
  <2>2. /\ lvl[t] \in Levels /\ cur[t] \in Points /\ prev[lvl[t]] \in Points
        /\ next[prev[lvl[t]]][lvl[t]] \in Points \union {Nil, Garbage, Torn}
    BY <1>0, ValuesTyped
  <2>3. pm' \in [Points -> [Levels -> Points \union {Nil, Garbage, Torn}]]
    BY <1>7, <2>2 DEF TypeOK, PersistPrev
  <2>4. keyDurable' \subseteq Points /\ prev' \in [Levels -> Points]
    BY <1>7, <2>2 DEF TypeOK, PersistPrev
  <2>5. lvl' \in [Threads -> Levels]
    <3>1. cur[t] \in Nodes /\ lvl[t] < height[cur[t]]
      BY <1>0, <1>7, <2>2 DEF TypeOK, NodesMade, PersistPrev, NextLevel
    <3>2. height[cur[t]] \in 0 .. MaxHeight
      BY <3>1 DEF TypeOK
    <3>3. lvl[t] + 1 = height[cur[t]] \/ lvl[t] + 1 \in Levels
      BY <2>2, <3>1, <3>2
    <3> QED
      BY <1>7, <3>3 DEF TypeOK, PersistPrev, NextLevel
  <2> QED
    BY <1>7, <2>1, <2>3, <2>4, <2>5 DEF TypeOK, PersistPrev
<1>8. ASSUME NEW n \in Points, NEW i \in Levels, WriteBack(n, i) PROVE TypeOK'
  <2>1. pm' \in [Points -> [Levels -> Points \union {Nil, Garbage, Torn}]]
    <3>1. next[n][i] \in Points \union {Nil, Garbage, Torn}
      BY ValuesTyped
    <3> QED
      BY <1>8, <3>1 DEF TypeOK, WriteBack
  <2> QED
    BY <1>8, <2>1 DEF TypeOK, WriteBack
<1> QED
  BY <1>1, <1>2, <1>3, <1>4, <1>5, <1>6, <1>7, <1>8 DEF Next, Step

\* The node of an Insert in progress is the last one made.
LEMMA MadePreserved ==
  ASSUME NEW t, Threads = {t}, TypeOK, NodesMade, Next
  PROVE  NodesMade'
<1>0. t \in Threads /\ \A u \in Threads : u = t
  OBVIOUS
<1>1. CASE StartAtFinger(t) \/ StartFindNextNode(t) \/ StartFindLessThan(t)
  <2>0. made \in Nat /\ made < N
    BY <1>1, ValuesTyped DEF StartAtFinger, StartFindNextNode, StartFindLessThan
  <2>5. /\ made' = made + 1 /\ cur' = [cur EXCEPT ![t] = made + 1]
        /\ UNCHANGED <<height, maxHeight>>
        /\ \/ pc' = [pc EXCEPT ![t] = "search"]
           \/ pc' = [pc EXCEPT ![t] = "grow"]
    BY <1>1 DEF StartAtFinger, StartFindNextNode, StartFindLessThan
  <2>1. /\ made \in Nat /\ made + 1 \in Nodes /\ made' = made + 1
        /\ cur'[t] = made + 1 /\ UNCHANGED <<height, maxHeight>>
        /\ pc'[t] \in {"search", "grow"}
    BY <1>0, <2>0, <2>5 DEF TypeOK
  <2>2. height[made + 1] = 0
    <3>1. height[made + 1] \in Nat
      BY <2>1, ValuesTyped
    <3> QED
      BY <2>1, <3>1 DEF NodesMade
  <2>3. pc'[t] = "search" => lvl'[t] < maxHeight
    BY <1>0, <1>1 DEF TypeOK, StartAtFinger, StartFindNextNode, StartFindLessThan
  <2>4. \A n \in Nodes : height[n] <= maxHeight /\ (height[n] > 0 => n <= made + 1)
    BY <2>1 DEF TypeOK, NodesMade
  <2> QED
    BY <1>0, <2>1, <2>2, <2>3, <2>4 DEF NodesMade
<1>2. CASE Advance(t)
  BY <1>2 DEF NodesMade, Advance
<1>3. CASE Descend(t)
  BY <1>0, <1>3 DEF NodesMade, Descend, TypeOK
<1>4. CASE Grow(t)
  <2> PICK h \in 1 .. MaxHeight :
         /\ height' = [height EXCEPT ![cur[t]] = h]
         /\ maxHeight' = IF h > maxHeight THEN h ELSE maxHeight
    BY <1>4 DEF Grow
  <2>1. cur[t] = made /\ made > 0 /\ made \in Nodes
    BY <1>0, <1>4 DEF NodesMade, Grow, TypeOK
  <2>2. height'[made] = h /\ \A n \in Nodes : n # made => height'[n] = height[n]
    BY <2>1 DEF TypeOK
  <2>5. maxHeight \in Nat /\ \A n \in Nodes : height[n] \in Nat
    BY ValuesTyped DEF TypeOK
  <2>3. \A n \in Nodes : height'[n] <= maxHeight' /\ (height'[n] > 0 => n <= made)
    BY <2>1, <2>2, <2>5 DEF NodesMade
  <2>4. made' = made /\ cur' = cur /\ pc'[t] = "link" /\ lvl'[t] = 0
    BY <1>0, <1>4 DEF Grow, TypeOK
  <2> QED
    BY <1>0, <2>1, <2>2, <2>3, <2>4 DEF NodesMade
<1>5. CASE Link(t) \/ LinkPrev(t) \/ PersistNew(t)
  <2>1. pc[t] \in {"link", "persistNew", "linkPrev"}
    BY <1>5 DEF Link, LinkPrev, PersistNew
  <2>2. pc'[t] \in {"persistNew", "linkPrev", "persistPrev"}
    BY <1>0, <1>5 DEF Link, LinkPrev, PersistNew, TypeOK
  <2>3. UNCHANGED <<height, maxHeight, made, cur, lvl>>
    BY <1>5 DEF Link, LinkPrev, PersistNew
  <2> QED
    BY <1>0, <2>1, <2>2, <2>3 DEF NodesMade
<1>6. CASE PersistPrev(t)
  <2>1. /\ pc[t] = "persistPrev" /\ cur[t] = made /\ made > 0 /\ made \in Nodes
        /\ lvl[t] < height[made] /\ lvl[t] \in Nat /\ height[made] \in Nat
    BY <1>0, <1>6 DEF NodesMade, PersistPrev, NextLevel, TypeOK
  <2>2. UNCHANGED <<height, maxHeight, made, cur>>
    BY <1>6 DEF PersistPrev
  <2>3. \/ pc'[t] = "idle"
        \/ pc'[t] = "link" /\ lvl'[t] < height[made]
    BY <1>0, <1>6, <2>1 DEF PersistPrev, NextLevel, TypeOK
  <2> QED
    BY <1>0, <2>1, <2>2, <2>3 DEF NodesMade
<1>7. ASSUME NEW n \in Points, NEW i \in Levels, WriteBack(n, i) PROVE NodesMade'
  BY <1>7 DEF NodesMade, WriteBack
<1> QED
  BY <1>1, <1>2, <1>3, <1>4, <1>5, <1>6, <1>7 DEF Next, Step

\* The store of prev_[i]->SetNext: the new node comes between its place and
\* the successor of the place, which it has taken over.
LEMMA LinkedInOrder ==
  ASSUME NEW t, Threads = {t}, TypeOK, KeysDistinct, NodesMade, Successors,
         PlaceFound, LinkPlaces, LinkPrev(t), NEW i \in Levels, lvl[t] = i
  PROVE  \A r \in On(i)' :
           \/ next'[r][i] = Nil /\ \A m \in On(i)' : ~Precedes(r, m)
           \/ /\ next'[r][i] \in On(i)' /\ Precedes(r, next'[r][i])
              /\ \A m \in On(i)' : Precedes(r, m) => ~Precedes(m, next'[r][i])
<1> DEFINE n == cur[t]
           p == prev[i]
           q == next[p][i]
           Follows(r, s) ==
             \/ s = Nil /\ \A m \in On(i)' : ~Precedes(r, m)
             \/ /\ s \in On(i)' /\ Precedes(r, s)
                /\ \A m \in On(i)' : Precedes(r, m) => ~Precedes(m, s)
<1>1. /\ t \in Threads /\ pc[t] = "linkPrev" /\ n \in Nodes /\ p \in Points
      /\ next' = [next EXCEPT ![p][i] = n]
  BY DEF LinkPrev, TypeOK, NodesMade
<1>2. On(i)' = On(i) \union {n} /\ On(i) \subseteq Points
  BY OnGrows DEF On
<1>3. n \notin On(i)
  BY <1>1, NewNodeIsNotOn
<1>4. p \in On(i) /\ Precedes(p, n) /\ \A m \in On(i) : Precedes(p, m) => ~Precedes(m, n)
  <2>1. lvl[t] < height[n] /\ height[n] <= maxHeight
    BY <1>1 DEF NodesMade
  <2>2. i \in lvl[t] .. maxHeight - 1
    BY <1>1, <2>1 DEF TypeOK
  <2> QED
    BY <1>1, <2>2 DEF PlaceFound, IsPlace
<1>5. next[n][i] = q /\ p # n
  BY <1>1, <1>3, <1>4 DEF LinkPlaces
<1>6. /\ next'[p][i] = n /\ next'[n][i] = q
      /\ \A r \in On(i) : r # p => next'[r][i] = next[r][i]
  BY <1>1, <1>2, <1>5 DEF TypeOK
<1>7. \A r \in On(i) :
        \/ next[r][i] = Nil /\ \A m \in On(i) : ~Precedes(r, m)
        \/ /\ next[r][i] \in On(i) /\ Precedes(r, next[r][i])
           /\ \A m \in On(i) : Precedes(r, m) => ~Precedes(m, next[r][i])
  BY DEF Successors, IsPlace
<1>8. n \in Points /\ \A m \in On(i)' : m \in Points
  BY <1>1, <1>2
<1>9. Follows(p, n)
  <2>1. \A m \in On(i)' : Precedes(p, m) => ~Precedes(m, n)
    BY <1>2, <1>4, <1>8, PrecedesIsOrder
  <2> QED
    BY <1>2, <1>4, <2>1
<1>10. Follows(n, q)
  <2>1. \A m \in On(i)' : Precedes(n, m) => m \in On(i) /\ Precedes(p, m)
    BY <1>1, <1>2, <1>4, <1>8, PrecedesIsOrder
  <2>2. CASE q = Nil /\ \A m \in On(i) : ~Precedes(p, m)
    BY <2>1, <2>2
  <2>3. CASE /\ q \in On(i) /\ Precedes(p, q)
             /\ \A m \in On(i) : Precedes(p, m) => ~Precedes(m, q)
    <3>1. q \in Points /\ q # n /\ ~Precedes(q, n)
      BY <1>2, <1>3, <1>4, <2>3
    <3>2. Precedes(n, q)
      BY <1>8, <3>1, PrecedesIsOrder
    <3> QED
      BY <1>2, <2>1, <2>3, <3>2
  <2> QED
    BY <1>4, <1>7, <2>2, <2>3
<1>11. ASSUME NEW r \in On(i), r # p PROVE Follows(r, next[r][i])
  <2> DEFINE s == next[r][i]
  <2>1. r \in Points
    BY <1>2
  <2>2. Precedes(r, n) => Precedes(r, p)
    BY <1>1, <1>4, <1>11, <2>1, PrecedesIsOrder
  <2>3. CASE s = Nil /\ \A m \in On(i) : ~Precedes(r, m)
    BY <1>2, <1>4, <2>2, <2>3
  <2>4. CASE /\ s \in On(i) /\ Precedes(r, s)
             /\ \A m \in On(i) : Precedes(r, m) => ~Precedes(m, s)
    <3>1. s \in Points
      BY <1>2, <2>4
    <3>2. ASSUME Precedes(r, n) PROVE ~Precedes(n, s)
      <4>1. s = p \/ Precedes(s, p)
        BY <1>1, <1>4, <2>2, <2>4, <3>1, <3>2, PrecedesIsOrder
      <4>2. Precedes(s, n)
        BY <1>1, <1>4, <1>8, <3>1, <4>1, PrecedesIsOrder
      <4> QED
        BY <1>8, <3>1, <4>2, PrecedesIsOrder
    <3> QED
      BY <1>2, <2>4, <3>2
  <2> QED
    BY <1>7, <1>11, <2>3, <2>4
<1>12. \A r \in On(i)' : Follows(r, next'[r][i])
  <2> HIDE DEF Follows, n, p, q
  <2> QED
    BY <1>2, <1>6, <1>9, <1>10, <1>11
<1> QED
  BY <1>12

\* The pointers of every level stay in order: SetNext twice per level.
LEMMA SuccessorsPreserved ==
  ASSUME NEW t, Threads = {t}, TypeOK, KeysDistinct, NodesMade, Successors,
         PlaceFound, LinkPlaces, Next
  PROVE  Successors'
<1>0. t \in Threads
  OBVIOUS
<1>k. key' = key
  BY KeysStay
<1> SUFFICES ASSUME NEW i \in Levels
    PROVE  (\A p \in On(i) :
              \/ next[p][i] = Nil /\ \A m \in On(i) : ~Precedes(p, m)
              \/ next[p][i] \in On(i) /\ IsPlace(p, next[p][i], i))'
  BY DEF Successors
<1>1. ASSUME ~LinkPrev(t), \A p \in On(i) : next'[p][i] = next[p][i]
      PROVE  (\A p \in On(i) :
                \/ next[p][i] = Nil /\ \A m \in On(i) : ~Precedes(p, m)
                \/ next[p][i] \in On(i) /\ IsPlace(p, next[p][i], i))'
  <2>1. On(i)' = On(i)
    BY <1>1, OnStays
  <2>2. \A p \in On(i) :
          \/ next[p][i] = Nil /\ \A m \in On(i) : ~Precedes(p, m)
          \/ next[p][i] \in On(i) /\ IsPlace(p, next[p][i], i)
    BY DEF Successors
  <2> QED
    BY <1>k, <1>1, <2>1, <2>2 DEF IsPlace, Precedes, KeyBelow
<1>2. CASE ~Link(t) /\ ~LinkPrev(t)
  <2>1. next' = next
    BY <1>2 DEF Next, Step, StartAtFinger, StartFindNextNode, StartFindLessThan,
                Advance, Descend, Grow, PersistNew, PersistPrev, WriteBack
  <2> QED
    BY <1>1, <1>2, <2>1
<1>3. CASE Link(t)
  <2>1. ~LinkPrev(t) /\ pc[t] = "link"
    BY <1>3 DEF Link, LinkPrev
  <2>2. ASSUME lvl[t] = i PROVE cur[t] \notin On(i)
    <3>1. lvl[t] <= i
      BY <2>2
    <3> QED
      BY <2>1, <3>1, NewNodeIsNotOn
  <2>4. On(i) \subseteq Points /\ cur[t] \in Points /\ lvl[t] \in Levels
    BY <1>0 DEF TypeOK, On
  <2>3. \A p \in On(i) : next'[p][i] = next[p][i]
    BY <1>3, <2>2, <2>4 DEF Link, TypeOK
  <2> QED
    BY <1>1, <2>1, <2>3
<1>4. CASE LinkPrev(t)
  <2>1. /\ pc[t] = "linkPrev" /\ lvl[t] \in Levels /\ cur[t] \in Nodes
        /\ prev[lvl[t]] \in Points
        /\ next' = [next EXCEPT ![prev[lvl[t]]][lvl[t]] = cur[t]]
    BY <1>0, <1>4 DEF LinkPrev, TypeOK, NodesMade
  <2>2. CASE lvl[t] # i
    <3>1. On(i)' = On(i)
      BY <1>4, <2>2, OnGrows
    <3>2. \A p \in On(i) : next'[p][i] = next[p][i]
      BY <2>1, <2>2 DEF TypeOK, On
    <3> QED
      BY <1>k, <3>1, <3>2 DEF Successors, IsPlace, Precedes, KeyBelow
  <2>3. CASE lvl[t] = i
    <3>1. \A r \in On(i)' :
            \/ next'[r][i] = Nil /\ \A m \in On(i)' : ~Precedes(r, m)
            \/ /\ next'[r][i] \in On(i)' /\ Precedes(r, next'[r][i])
               /\ \A m \in On(i)' : Precedes(r, m) => ~Precedes(m, next'[r][i])
      BY <1>4, <2>3, LinkedInOrder
    <3> QED
      BY <1>k, <3>1 DEF IsPlace, Precedes, KeyBelow
  <2> QED
    BY <2>2, <2>3
<1> QED
  BY <1>2, <1>3, <1>4

\* A search starts at a node before the key and goes on to such nodes, and
\* leaves the place of the key in prev_ when it goes down.
LEMMA SearchPreserved ==
  ASSUME NEW t, Threads = {t}, FingersFit, KeysDistinct, NodesMade, Successors,
         SearchPlaces, Next
  PROVE  SearchPlaces'
<1>0. t \in Threads /\ (\A u \in Threads : u = t) /\ TypeOK
  BY DEF FingersFit
<1>k. key' = key
  BY KeysStay
<1> SUFFICES ASSUME pc'[t] = "search"
    PROVE  /\ Precedes(x[t], cur[t])'
           /\ \A i \in Levels :
                /\ (i = lvl[t] => x[t] \in On(i))'
                /\ (lvl[t] < i /\ i < maxHeight => IsPlace(prev[i], cur[t], i))'
  BY <1>0 DEF SearchPlaces
<1>1. CASE StartFindNextNode(t)
  <2> DEFINE n == made + 1
             h == maxHeight - 1
  <2>1. /\ pc[t] = "idle" /\ made < N /\ cur'[t] = n /\ lvl'[t] = h
        /\ x'[t] = prev[h] /\ UNCHANGED <<prev, maxHeight>>
    BY <1>0, <1>1 DEF StartFindNextNode, TypeOK
  <2>2. n \in Nodes /\ prev[0] \in Points /\ h \in 0 .. maxHeight - 1 /\ h \in Levels
    BY <1>0, <2>1, IdleFacts DEF TypeOK
  <2>3. Precedes(prev[0], n)
    BY <1>1, <2>2 DEF StartFindNextNode, Precedes
  <2>4. prev[h] \in On(h) /\ Precedes(prev[h], n)
    BY <2>1, <2>2, <2>3, BehindFingers
  <2>5. ~LinkPrev(t)
    BY <2>1 DEF LinkPrev
  <2>6. \A i \in Levels : On(i)' = On(i)
    BY <1>0, <2>5, OnStays
  <2>7. Precedes(x[t], cur[t])'
    BY <1>k, <2>1, <2>4 DEF Precedes, KeyBelow
  <2>8. ASSUME NEW i \in Levels
        PROVE  /\ (i = lvl[t] => x[t] \in On(i))'
               /\ ~(lvl'[t] < i /\ i < maxHeight')
    BY <1>0, <2>1, <2>4, <2>6 DEF TypeOK
  <2> QED
    BY <2>7, <2>8
<1>2. CASE StartFindLessThan(t)
  <2>1. /\ made + 1 \in Nodes /\ cur'[t] = made + 1 /\ lvl'[t] = maxHeight - 1
        /\ x'[t] = Head /\ UNCHANGED <<prev, maxHeight>>
    BY <1>0, <1>2 DEF StartFindLessThan, TypeOK
  <2>2. Precedes(x[t], cur[t])'
    BY <2>1 DEF Precedes, KeyBelow
  <2>3. ASSUME NEW i \in Levels
        PROVE  /\ (i = lvl[t] => x[t] \in On(i))'
               /\ ~(lvl'[t] < i /\ i < maxHeight')
    BY <1>0, <2>1 DEF TypeOK, On
  <2> QED
    BY <2>2, <2>3
<1>3. CASE Advance(t)
  <2>1. /\ pc[t] = "search" /\ lvl[t] \in Levels /\ x[t] \in Points
        /\ cur[t] \in Nodes
        /\ x'[t] = next[x[t]][lvl[t]]
        /\ UNCHANGED <<cur, lvl, prev, maxHeight, next>>
    BY <1>0, <1>3 DEF Advance, TypeOK, NodesMade
  <2>2. x'[t] # Nil /\ Precedes(x'[t], cur[t])
    BY <1>3, <2>1 DEF Advance, Precedes
  <2>3. ASSUME NEW i \in Levels, i = lvl[t] PROVE x'[t] \in On(i)
    BY <1>0, <2>1, <2>2, <2>3 DEF SearchPlaces, Successors
  <2>4. ~LinkPrev(t)
    BY <2>1 DEF LinkPrev
  <2>5. \A i \in Levels : On(i)' = On(i)
    BY <1>0, <2>4, OnStays
  <2>6. Precedes(x[t], cur[t])'
    BY <1>k, <2>1, <2>2 DEF Precedes, KeyBelow
  <2>7. ASSUME NEW i \in Levels PROVE (i = lvl[t] => x[t] \in On(i))'
    BY <2>1, <2>3, <2>5
  <2>8. ASSUME NEW i \in Levels, lvl[t] < i, i < maxHeight
        PROVE  IsPlace(prev[i], cur[t], i)'
    <3>1. IsPlace(prev[i], cur[t], i)
      BY <1>0, <2>1, <2>8 DEF SearchPlaces
    <3> QED
      BY <1>k, <2>1, <2>5, <3>1 DEF IsPlace, Precedes, KeyBelow
  <2> QED
    BY <2>1, <2>6, <2>7, <2>8
<1>4. CASE Descend(t)
  <2>1. /\ pc[t] = "search" /\ lvl[t] \in Levels /\ lvl[t] # 0
        /\ lvl'[t] = lvl[t] - 1
        /\ prev' = [prev EXCEPT ![lvl[t]] = x[t]]
        /\ UNCHANGED <<cur, x, maxHeight>>
    BY <1>0, <1>4 DEF Descend, TypeOK
  <2>2. ~LinkPrev(t)
    BY <2>1 DEF LinkPrev
  <2>3. \A i \in Levels : On(i)' = On(i)
    BY <1>0, <2>2, OnStays
  <2>4. Precedes(x[t], cur[t])'
    BY <1>0, <1>k, <2>1 DEF SearchPlaces, Precedes, KeyBelow
  <2>5. ASSUME NEW i \in Levels, i = lvl'[t] PROVE x[t] \in On(i)
    <3>1. x[t] \in On(lvl[t])
      BY <1>0, <2>1 DEF SearchPlaces
    <3>2. \A j \in Levels : j = lvl[t] => i <= j
      BY <2>1, <2>5
    <3>3. On(lvl[t]) \subseteq On(i)
      BY <1>0, <2>1, <3>2, OnByHeight
    <3> QED
      BY <3>1, <3>3
  <2>6. ASSUME NEW i \in Levels, lvl'[t] < i, i < maxHeight
        PROVE  IsPlace(prev'[i], cur[t], i)
    <3>1. CASE i = lvl[t]
      BY <1>0, <1>4, <2>1, <3>1, PlaceAtDescent DEF TypeOK
    <3>2. CASE i # lvl[t]
      <4>1. lvl[t] < i /\ prev'[i] = prev[i]
        BY <1>0, <2>1, <2>6, <3>2 DEF TypeOK
      <4> QED
        BY <1>0, <2>1, <2>6, <4>1 DEF SearchPlaces
    <3> QED
      BY <3>1, <3>2
  <2>7. ASSUME NEW i \in Levels, lvl'[t] < i, i < maxHeight
        PROVE  IsPlace(prev[i], cur[t], i)'
    BY <1>k, <2>1, <2>3, <2>6, <2>7 DEF IsPlace, Precedes, KeyBelow
  <2> QED
    BY <2>1, <2>3, <2>4, <2>5, <2>7
<1>5. ASSUME \/ StartAtFinger(t) \/ Grow(t) \/ Link(t) \/ PersistNew(t)
             \/ LinkPrev(t) \/ PersistPrev(t)
      PROVE  FALSE
  BY <1>0, <1>5 DEF StartAtFinger, Grow, Link, PersistNew, LinkPrev,
                    PersistPrev, NextLevel, TypeOK
<1>6. ASSUME NEW n \in Points, NEW j \in Levels, WriteBack(n, j)
      PROVE  SearchPlaces'
  <2>1. UNCHANGED <<key, height, next, prev, maxHeight, pc, cur, x, lvl>>
    BY <1>6 DEF WriteBack
  <2>2. \A i \in Levels : On(i)' = On(i)
    BY <2>1 DEF On, Unlinked
  <2> QED
    BY <2>1, <2>2 DEF SearchPlaces, IsPlace, Precedes, KeyBelow
<1> QED
  BY <1>0, <1>1, <1>2, <1>3, <1>4, <1>5, <1>6 DEF Next, Step, SearchPlaces

\* The levels from one up to the highest in use.
LEMMA LevelsInUse ==
  \A m \in 1 .. MaxHeight :
    /\ \A i \in 0 .. m - 1 : i \in Levels /\ i < m
    /\ \A i \in Levels : i < m => i \in 0 .. m - 1
    /\ \A k \in Levels : \A i \in k .. m - 1 : i \in Levels /\ k <= i /\ i < m
OBVIOUS

\* A place stays a place while its level, prev_[i] and the node stay.
LEMMA PlaceStays ==
  ASSUME NEW t, Threads = {t}, TypeOK, NodesMade, Next, ~LinkPrev(t),
         NEW i \in Levels, prev'[i] = prev[i], cur'[t] = cur[t],
         IsPlace(prev[i], cur[t], i)
  PROVE  IsPlace(prev[i], cur[t], i)'
<1>1. On(i)' = On(i) /\ key' = key
  BY OnStays, KeysStay
<1> QED
  BY <1>1 DEF IsPlace, Precedes, KeyBelow

\* prev_ keeps the place of the new node until the node is linked there.
LEMMA PlacePreserved ==
  ASSUME NEW t, Threads = {t}, FingersFit, KeysDistinct, NodesMade, Successors,
         SearchPlaces, PlaceFound, LinkPlaces, Next
  PROVE  PlaceFound'
<1>0. t \in Threads /\ (\A u \in Threads : u = t) /\ TypeOK
  BY DEF FingersFit
<1>t. TypeOK'
  BY <1>0, TypePreserved
<1>l. lvl'[t] \in Levels /\ maxHeight' \in 1 .. MaxHeight
  BY <1>0, <1>t DEF TypeOK
<1>k. key' = key
  BY KeysStay
<1> SUFFICES ASSUME pc'[t] \in {"grow", "link", "persistNew", "linkPrev"},
                    NEW i \in Levels,
                    pc'[t] = "grow" \/ lvl'[t] <= i, i < maxHeight'
    PROVE  IsPlace(prev[i], cur[t], i)'
  <2>1. /\ \A i \in lvl'[t] .. maxHeight' - 1 :
               i \in Levels /\ lvl'[t] <= i /\ i < maxHeight'
        /\ \A i \in 0 .. maxHeight' - 1 : i \in Levels /\ i < maxHeight'
    BY <1>l, LevelsInUse, Zenon
  <2> QED
    BY <1>0, <2>1 DEF PlaceFound
<1>1. CASE StartAtFinger(t)
  <2>1. UNCHANGED <<prev, maxHeight>> /\ cur'[t] = made + 1 /\ pc[t] = "idle"
    BY <1>0, <1>1 DEF StartAtFinger, TypeOK
  <2>2. i \in 0 .. maxHeight - 1 /\ ~LinkPrev(t)
    BY <1>0, <2>1 DEF TypeOK, LinkPrev
  <2>3. IsPlace(prev[i], made + 1, i)
    BY <1>1, <2>2, PlaceAtFinger
  <2>4. On(i)' = On(i)
    BY <1>0, <2>2, OnStays
  <2> QED
    BY <1>k, <2>1, <2>3, <2>4 DEF IsPlace, Precedes, KeyBelow
<1>2. CASE Descend(t)
  <2>1. /\ pc[t] = "search" /\ lvl[t] = 0 /\ prev' = [prev EXCEPT ![0] = x[t]]
        /\ UNCHANGED <<cur, maxHeight>>
    BY <1>0, <1>2 DEF Descend, TypeOK
  <2>2. ~LinkPrev(t)
    BY <2>1 DEF LinkPrev
  <2>3. CASE i = 0
    <3>1. IsPlace(x[t], cur[t], i)
      BY <1>0, <1>2, <2>1, <2>3, PlaceAtDescent
    <3>2. On(i)' = On(i) /\ prev'[i] = x[t]
      BY <1>0, <2>1, <2>2, <2>3, OnStays DEF TypeOK
    <3> QED
      BY <1>k, <2>1, <3>1, <3>2 DEF IsPlace, Precedes, KeyBelow
  <2>4. CASE i # 0
    <3>1. prev'[i] = prev[i] /\ lvl[t] < i /\ i < maxHeight
      BY <1>0, <2>1, <2>4 DEF TypeOK
    <3>2. IsPlace(prev[i], cur[t], i)
      BY <1>0, <2>1, <3>1 DEF SearchPlaces
    <3> QED
      BY <1>0, <2>1, <2>2, <3>1, <3>2, PlaceStays
  <2> QED
    BY <2>3, <2>4
<1>3. CASE Grow(t)
  <2>1. pc[t] = "grow" /\ cur'[t] = cur[t] /\ ~LinkPrev(t)
    BY <1>3 DEF Grow, LinkPrev
  <2>2. CASE i < maxHeight
    <3>1. prev'[i] = prev[i]
      BY <1>0, <1>3, <2>2 DEF Grow, TypeOK
    <3>2. i \in 0 .. maxHeight - 1
      BY <1>0, <2>2 DEF TypeOK
    <3>3. IsPlace(prev[i], cur[t], i)
      BY <1>0, <2>1, <3>2 DEF PlaceFound
    <3> QED
      BY <1>0, <2>1, <3>1, <3>3, PlaceStays
  <2>3. CASE ~(i < maxHeight)
    <3>1. prev'[i] = Head
      BY <1>0, <1>3, <2>3 DEF Grow, TypeOK
    <3>2. On(i)' = On(i)
      BY <1>0, <2>1, OnStays
    <3>3. \A m \in On(i) : m = Head
      BY <1>0, <2>3 DEF On, NodesMade, TypeOK
    <3>4. cur[t] # Head
      BY <1>0, <2>1 DEF NodesMade
    <3> QED
      BY <2>1, <3>1, <3>2, <3>3, <3>4 DEF IsPlace, Precedes, KeyBelow, On
  <2> QED
    BY <2>2, <2>3
<1>4. CASE Link(t) \/ PersistNew(t)
  <2>1. /\ pc[t] \in {"link", "persistNew"} /\ ~LinkPrev(t)
        /\ pc'[t] \in {"persistNew", "linkPrev"}
        /\ UNCHANGED <<prev, maxHeight, cur, lvl>>
    BY <1>0, <1>4 DEF Link, PersistNew, LinkPrev, TypeOK
  <2>2. i \in lvl[t] .. maxHeight - 1
    BY <1>0, <2>1 DEF TypeOK
  <2>3. IsPlace(prev[i], cur[t], i)
    BY <1>0, <2>1, <2>2 DEF PlaceFound
  <2> QED
    BY <1>0, <2>1, <2>3, PlaceStays
<1>5. CASE PersistPrev(t)
  <2>1. /\ pc[t] = "persistPrev" /\ ~LinkPrev(t) /\ lvl'[t] = lvl[t] + 1
        /\ prev' = [prev EXCEPT ![lvl[t]] = cur[t]]
        /\ UNCHANGED <<maxHeight, cur>>
    BY <1>0, <1>5 DEF PersistPrev, NextLevel, LinkPrev, TypeOK
  <2>4. pc'[t] # "grow"
    BY <1>0, <1>5 DEF PersistPrev, NextLevel, TypeOK
  <2>2. i \in lvl[t] + 1 .. maxHeight - 1 /\ prev'[i] = prev[i]
    BY <1>0, <2>1, <2>4 DEF TypeOK
  <2>3. IsPlace(prev[i], cur[t], i)
    BY <1>0, <2>1, <2>2 DEF LinkPlaces
  <2> QED
    BY <1>0, <2>1, <2>2, <2>3, PlaceStays
<1>6. ASSUME \/ StartFindNextNode(t) \/ StartFindLessThan(t) \/ Advance(t)
             \/ LinkPrev(t)
      PROVE  FALSE
  BY <1>0, <1>6 DEF StartFindNextNode, StartFindLessThan, Advance, LinkPrev,
                    TypeOK
<1>7. ASSUME NEW n \in Points, NEW j \in Levels, WriteBack(n, j)
      PROVE  IsPlace(prev[i], cur[t], i)'
  <2>1. UNCHANGED <<key, height, prev, maxHeight, pc, cur, lvl>>
    BY <1>7 DEF WriteBack
  <2>2. On(i)' = On(i)
    BY <2>1 DEF On, Unlinked
  <2>3. i \in (IF pc[t] = "grow" THEN 0 ELSE lvl[t]) .. maxHeight - 1
    BY <1>0, <2>1 DEF TypeOK
  <2>4. IsPlace(prev[i], cur[t], i)
    BY <1>0, <2>1, <2>3 DEF PlaceFound
  <2> QED
    BY <2>1, <2>2, <2>4 DEF IsPlace, Precedes, KeyBelow
<1> QED
  BY <1>1, <1>2, <1>3, <1>4, <1>5, <1>6, <1>7 DEF Next, Step

\* The links of an Insert in progress.
LEMMA LinksPreserved ==
  ASSUME NEW t, Threads = {t}, FingersFit, KeysDistinct, NodesMade, Successors,
         SearchPlaces, PlaceFound, LinkPlaces, Next
  PROVE  LinkPlaces'
<1>0. t \in Threads /\ (\A u \in Threads : u = t) /\ TypeOK
  BY DEF FingersFit
<1>k. key' = key
  BY KeysStay
<1>1. CASE Grow(t)
  <2>1. pc'[t] = "link" /\ lvl'[t] = 0
    BY <1>0, <1>1 DEF Grow, TypeOK
  <2> QED
    BY <1>0, <2>1 DEF LinkPlaces
<1>2. CASE Link(t)
  <2>1. /\ pc[t] = "link" /\ pc'[t] = "persistNew" /\ lvl[t] \in Levels
        /\ cur[t] \in Nodes /\ prev[lvl[t]] \in Points
        /\ lvl[t] < height[cur[t]] /\ height[cur[t]] <= maxHeight
        /\ UNCHANGED <<cur, lvl, prev>>
        /\ next' = [next EXCEPT ![cur[t]][lvl[t]] = next[prev[lvl[t]]][lvl[t]]]
    BY <1>0, <1>2 DEF Link, TypeOK, NodesMade
  <2>2. lvl[t] \in lvl[t] .. maxHeight - 1
    BY <1>0, <2>1 DEF TypeOK
  <2>3. prev[lvl[t]] \in On(lvl[t])
    BY <1>0, <2>1, <2>2 DEF PlaceFound, IsPlace
  <2>4. lvl[t] <= lvl[t]
    BY <2>1
  <2>5. prev[lvl[t]] # cur[t]
    BY <1>0, <2>1, <2>3, <2>4, NewNodeIsNotOn
  <2>6. next'[cur[t]][lvl[t]] = next'[prev[lvl[t]]][lvl[t]]
    BY <1>0, <2>1, <2>5 DEF TypeOK
  <2>7. \A i \in 0 .. lvl[t] - 1 : prev[i] = cur[t]
    BY <1>0, <2>1 DEF LinkPlaces
  <2> QED
    BY <1>0, <2>1, <2>6, <2>7 DEF LinkPlaces
<1>3. CASE PersistNew(t)
  <2>1. pc[t] = "persistNew" /\ pc'[t] = "linkPrev" /\ UNCHANGED <<cur, lvl, prev, next>>
    BY <1>0, <1>3 DEF PersistNew, TypeOK
  <2> QED
    BY <1>0, <2>1 DEF LinkPlaces
<1>4. CASE LinkPrev(t)
  <2>1. /\ pc[t] = "linkPrev" /\ pc'[t] = "persistPrev" /\ lvl[t] \in Levels
        /\ prev[lvl[t]] \in Points
        /\ UNCHANGED <<cur, lvl, prev, maxHeight>>
        /\ next' = [next EXCEPT ![prev[lvl[t]]][lvl[t]] = cur[t]]
    BY <1>0, <1>4 DEF LinkPrev, TypeOK
  <2>2. next'[prev[lvl[t]]][lvl[t]] = cur[t]
    BY <1>0, <2>1 DEF TypeOK
  <2>3. ASSUME NEW i \in lvl[t] + 1 .. maxHeight - 1 PROVE IsPlace(prev[i], cur[t], i)'
    <3>1. i \in Levels /\ i # lvl[t] /\ i \in lvl[t] .. maxHeight - 1
      BY <1>0, <2>1 DEF TypeOK
    <3>2. IsPlace(prev[i], cur[t], i)
      BY <1>0, <2>1, <3>1 DEF PlaceFound
    <3>3. On(i)' = On(i)
      BY <1>0, <1>4, <3>1, OnGrows
    <3> QED
      BY <1>k, <2>1, <3>2, <3>3 DEF IsPlace, Precedes, KeyBelow
  <2>4. \A i \in 0 .. lvl[t] - 1 : prev[i] = cur[t]
    BY <1>0, <2>1 DEF LinkPlaces
  <2> QED
    BY <1>0, <2>1, <2>2, <2>3, <2>4 DEF LinkPlaces
<1>5. CASE PersistPrev(t)
  <2>1. /\ pc[t] = "persistPrev" /\ lvl[t] \in Levels
        /\ pc'[t] \in {"idle", "link"}
        /\ pc'[t] = "link" => lvl'[t] = lvl[t] + 1
        /\ prev' = [prev EXCEPT ![lvl[t]] = cur[t]] /\ cur' = cur
    BY <1>0, <1>5 DEF PersistPrev, NextLevel, TypeOK
  <2>2. \A i \in 0 .. lvl[t] - 1 : prev[i] = cur[t]
    BY <1>0, <2>1 DEF LinkPlaces
  <2>3. \A i \in 0 .. lvl[t] : prev'[i] = cur[t]
    BY <1>0, <2>1, <2>2 DEF TypeOK
  <2>4. pc'[t] = "link" => \A i \in 0 .. lvl'[t] - 1 : prev'[i] = cur'[t]
    BY <2>1, <2>3
  <2> QED
    BY <1>0, <2>1, <2>4 DEF LinkPlaces
<1>6. CASE \/ StartAtFinger(t) \/ StartFindNextNode(t) \/ StartFindLessThan(t)
           \/ Advance(t) \/ Descend(t)
  <2>1. pc'[t] \in {"search", "grow"}
    BY <1>0, <1>6 DEF StartAtFinger, StartFindNextNode, StartFindLessThan,
                      Advance, Descend, TypeOK
  <2> QED
    BY <1>0, <2>1 DEF LinkPlaces
<1>7. ASSUME NEW n \in Points, NEW j \in Levels, WriteBack(n, j)
      PROVE  LinkPlaces'
  <2>1. UNCHANGED <<key, height, next, prev, maxHeight, pc, cur, x, lvl>>
    BY <1>7 DEF WriteBack
  <2>2. \A i \in Levels : On(i)' = On(i)
    BY <2>1 DEF On, Unlinked
  <2>3. \A i \in lvl[t] + 1 .. maxHeight - 1 : i \in Levels
    BY <1>0 DEF TypeOK
  <2> QED
    BY <1>0, <2>1, <2>2, <2>3 DEF LinkPlaces, IsPlace, Precedes, KeyBelow
<1> QED
  BY <1>1, <1>2, <1>3, <1>4, <1>5, <1>6, <1>7 DEF Next, Step

\* When an Insert ends, prev_ is at the new node on its levels and at its
\* place on the others.
LEMMA FingersPreserved ==
  ASSUME NEW t, Threads = {t}, FingersFit, KeysDistinct, NodesMade, Successors,
         SearchPlaces, LinkPlaces, Next
  PROVE  FingersFit'
<1>0. t \in Threads /\ (\A u \in Threads : u = t) /\ TypeOK
  BY DEF FingersFit
<1>t. TypeOK'
  BY <1>0, TypePreserved
<1>k. key' = key
  BY KeysStay
<1>l. maxHeight' \in 1 .. MaxHeight
  BY <1>t DEF TypeOK
<1> SUFFICES ASSUME pc'[t] = "idle", NEW i \in Levels, i < maxHeight'
    PROVE  (/\ prev[i] \in On(i) /\ ~Precedes(prev[0], prev[i])
            /\ \A m \in On(i) : Precedes(prev[i], m) => Precedes(prev[0], m))'
  <2>1. \A i \in 0 .. maxHeight' - 1 : i \in Levels /\ i < maxHeight'
    BY <1>l, LevelsInUse, Zenon
  <2> QED
    BY <1>0, <1>t, <2>1 DEF FingersFit
<1>1. CASE PersistPrev(t)
  <2> DEFINE n == cur[t]
  <2>1. /\ pc[t] = "persistPrev" /\ ~LinkPrev(t) /\ lvl'[t] = 0
        /\ prev' = [prev EXCEPT ![lvl[t]] = n] /\ lvl[t] + 1 = height[n]
        /\ lvl[t] \in Levels /\ n \in Nodes /\ UNCHANGED <<maxHeight, cur, height>>
    BY <1>0, <1>1 DEF PersistPrev, NextLevel, LinkPrev, TypeOK, NodesMade
  <2>2. On(i)' = On(i)
    BY <1>0, <2>1, OnStays
  <2>3. \A j \in Levels : j <= lvl[t] => prev'[j] = n
    BY <1>0, <2>1 DEF LinkPlaces, TypeOK
  <2>4. prev'[0] = n
    BY <2>1, <2>3
  <2>5. n \in Points /\ ~Precedes(n, n)
    BY <1>0, <2>1, PrecedesIsOrder
  <2>6. CASE i <= lvl[t]
    <3>1. prev'[i] = n
      BY <2>3, <2>6
    <3>2. n \in On(i)
      BY <1>0, <2>1, <2>6 DEF On, Unlinked, TypeOK
    <3> QED
      BY <1>k, <2>2, <2>4, <2>5, <3>1, <3>2 DEF Precedes, KeyBelow
  <2>7. CASE ~(i <= lvl[t])
    <3>1. prev'[i] = prev[i] /\ lvl[t] < i /\ i \in lvl[t] + 1 .. maxHeight - 1
      BY <1>0, <2>1, <2>7 DEF TypeOK
    <3>2. IsPlace(prev[i], n, i) /\ prev[i] \in Points
      BY <1>0, <2>1, <3>1 DEF LinkPlaces, TypeOK
    <3>3. n \notin On(i)
      BY <1>0, <2>1, <3>1, NewNodeIsNotOn
    <3>4. prev[i] \in On(i) /\ ~Precedes(n, prev[i])
      BY <1>0, <2>5, <3>2, PrecedesIsOrder DEF IsPlace
    <3>5. ASSUME NEW m \in On(i), Precedes(prev[i], m) PROVE Precedes(n, m)
      <4>1. m # n /\ m \in Points /\ ~Precedes(m, n)
        BY <3>2, <3>3, <3>5 DEF IsPlace, On
      <4> QED
        BY <1>0, <2>5, <4>1, PrecedesIsOrder
    <3> QED
      BY <1>k, <2>2, <2>4, <3>1, <3>4, <3>5 DEF Precedes, KeyBelow
  <2> QED
    BY <2>6, <2>7
<1>2. ASSUME NEW n \in Points, NEW j \in Levels, WriteBack(n, j)
      PROVE  FingersFit'
  <2>1. UNCHANGED <<key, height, prev, maxHeight, pc, cur, lvl>>
    BY <1>2 DEF WriteBack
  <2>2. \A m \in Levels : On(m)' = On(m)
    BY <2>1 DEF On, Unlinked
  <2>3. \A m \in 0 .. maxHeight - 1 : m \in Levels
    BY <1>0 DEF TypeOK
  <2> QED
    BY <1>t, <2>1, <2>2, <2>3 DEF FingersFit, Precedes, KeyBelow
<1>3. ASSUME \/ StartAtFinger(t) \/ StartFindNextNode(t) \/ StartFindLessThan(t)
             \/ Descend(t) \/ Grow(t) \/ Link(t) \/ PersistNew(t) \/ LinkPrev(t)
      PROVE  FALSE
  BY <1>0, <1>3 DEF StartAtFinger, StartFindNextNode, StartFindLessThan,
                    Descend, Grow, Link, PersistNew, LinkPrev, TypeOK
<1>4. ~Advance(t)
  BY DEF Advance
<1>5. FingersFit' \/ PersistPrev(t)
  BY <1>2, <1>3, <1>4 DEF Next, Step
<1>6. ASSUME FingersFit'
      PROVE  (/\ prev[i] \in On(i) /\ ~Precedes(prev[0], prev[i])
              /\ \A m \in On(i) : Precedes(prev[i], m) => Precedes(prev[0], m))'
  <2>1. i \in 0 .. maxHeight' - 1
    BY <1>l, LevelsInUse, Zenon
  <2> QED
    BY <1>0, <1>6, <2>1 DEF FingersFit
<1> QED
  BY <1>1, <1>5, <1>6

\* At most one pointer is waiting for its pmem_persist.
LEMMA LagPreserved ==
  ASSUME NEW t, Threads = {t}, TypeOK, NvmLagsByOnePointer, Next
  PROVE  NvmLagsByOnePointer'
<1>0. t \in Threads /\ (\A u \in Threads : u = t)
  OBVIOUS
<1> DEFINE Lags(n, i) ==
             /\ i = lvl[t]
             /\ \/ pc[t] = "persistNew" /\ n = cur[t]
                \/ pc[t] = "persistPrev" /\ n = prev[i]
<1>p. \A n \in Points, i \in Levels : pm[n][i] # next[n][i] => Lags(n, i)
  BY <1>0 DEF NvmLagsByOnePointer
<1> SUFFICES ASSUME NEW n \in Points, NEW i \in Levels, pm'[n][i] # next'[n][i]
    PROVE  Lags(n, i)'
  BY <1>0 DEF NvmLagsByOnePointer
<1>1. CASE \/ StartAtFinger(t) \/ StartFindNextNode(t) \/ StartFindLessThan(t)
           \/ Advance(t) \/ Descend(t) \/ Grow(t)
  <2>1. UNCHANGED <<next, pm>> /\ pc[t] \in {"idle", "search", "grow"}
    BY <1>1 DEF StartAtFinger, StartFindNextNode, StartFindLessThan, Advance,
                Descend, Grow
  <2> QED
    BY <1>p, <2>1
<1>2. CASE Link(t) \/ LinkPrev(t)
  <2>1. pm' = pm /\ pc[t] \in {"link", "linkPrev"} /\ UNCHANGED <<prev, cur, lvl>>
    BY <1>2 DEF Link, LinkPrev
  <2>2. next'[n][i] # next[n][i]
    BY <1>p, <2>1
  <2>3. CASE Link(t)
    <3>1. n = cur[t] /\ i = lvl[t]
      BY <1>0, <2>2, <2>3 DEF Link, TypeOK
    <3> QED
      BY <1>0, <2>1, <2>3, <3>1 DEF Link, TypeOK
  <2>4. CASE LinkPrev(t)
    <3>1. n = prev[lvl[t]] /\ i = lvl[t]
      BY <1>0, <2>2, <2>4 DEF LinkPrev, TypeOK
    <3> QED
      BY <1>0, <2>1, <2>4, <3>1 DEF LinkPrev, TypeOK
  <2> QED
    BY <1>2, <2>3, <2>4
<1>3. CASE PersistNew(t)
  <2>1. /\ pc[t] = "persistNew" /\ next' = next
        /\ pm' = [pm EXCEPT ![cur[t]][lvl[t]] = next[cur[t]][lvl[t]]]
    BY <1>3 DEF PersistNew
  <2>2. CASE n = cur[t] /\ i = lvl[t]
    BY <2>1, <2>2 DEF TypeOK
  <2>3. CASE ~(n = cur[t] /\ i = lvl[t])
    <3>1. pm'[n][i] = pm[n][i]
      BY <2>1, <2>3 DEF TypeOK
    <3> QED
      BY <1>p, <2>1, <2>3, <3>1
  <2> QED
    BY <2>2, <2>3
<1>4. CASE PersistPrev(t)
  <2>1. /\ pc[t] = "persistPrev" /\ next' = next
        /\ pm' = [pm EXCEPT ![prev[lvl[t]]][lvl[t]] = next[prev[lvl[t]]][lvl[t]]]
    BY <1>4 DEF PersistPrev, NextLevel
  <2>2. CASE n = prev[lvl[t]] /\ i = lvl[t]
    BY <2>1, <2>2 DEF TypeOK
  <2>3. CASE ~(n = prev[lvl[t]] /\ i = lvl[t])
    <3>1. pm'[n][i] = pm[n][i]
      BY <2>1, <2>3 DEF TypeOK
    <3> QED
      BY <1>p, <2>1, <2>3, <3>1
  <2> QED
    BY <2>2, <2>3
<1>5. ASSUME NEW m \in Points, NEW j \in Levels, WriteBack(m, j) PROVE Lags(n, i)'
  <2>1. UNCHANGED <<next, prev, pc, cur, lvl>>
    BY <1>5 DEF WriteBack
  <2>2. pm[n][i] # next[n][i]
    <3>1. CASE n = m /\ i = j
      BY <1>5, <3>1 DEF WriteBack
    <3>2. CASE ~(n = m /\ i = j)
      <4>1. pm'[n][i] = pm[n][i]
        BY <1>5, <3>2 DEF WriteBack, TypeOK
      <4> QED
        BY <2>1, <4>1
    <3> QED
      BY <3>1, <3>2
  <2> QED
    BY <1>p, <2>1, <2>2
<1> QED
  BY <1>1, <1>2, <1>3, <1>4, <1>5 DEF Next, Step

\* The key of a node is in NVM when a later node has been linked behind it,
\* in NVM and for the CPU, but for the pointer that is being persisted.
LEMMA WrittenPreserved ==
  ASSUME NEW t, Threads = {t}, TypeOK, NodesMade, Successors, PlaceFound,
         LinkPlaces, NvmLagsByOnePointer, KeysWritten, Next
  PROVE  KeysWritten'
<1>0. t \in Threads /\ (\A u \in Threads : u = t)
  OBVIOUS
<1> DEFINE Pending(n, i) == pc[t] = "persistPrev" /\ n = prev[i] /\ i = lvl[t]
           Written(n, i) ==
             /\ next[n][i] \in Nodes /\ next[n][i] > n =>
                  n \in keyDurable \/ Pending(n, i)
             /\ pm[n][i] \in Nodes /\ pm[n][i] > n =>
                  n \in keyDurable \/ (Pending(n, i) /\ pm[n][i] = cur[t])
<1>p. \A n \in Points, i \in Levels : Written(n, i)
  BY <1>0 DEF KeysWritten
<1> SUFFICES ASSUME NEW n \in Points, NEW i \in Levels PROVE Written(n, i)'
  BY <1>0 DEF KeysWritten
<1>q. Written(n, i)
  BY <1>p
<1>1. CASE \/ StartAtFinger(t) \/ StartFindNextNode(t) \/ StartFindLessThan(t)
           \/ Advance(t) \/ Descend(t) \/ Grow(t)
  <2>1. UNCHANGED <<next, pm, keyDurable>> /\ pc[t] \in {"idle", "search", "grow"}
    BY <1>1 DEF StartAtFinger, StartFindNextNode, StartFindLessThan, Advance,
                Descend, Grow
  <2> QED
    BY <1>q, <2>1
<1>2. CASE Link(t)
  <2>1. /\ pc[t] = "link" /\ UNCHANGED <<pm, keyDurable>>
        /\ next' = [next EXCEPT ![cur[t]][lvl[t]] = next[prev[lvl[t]]][lvl[t]]]
        /\ lvl[t] \in Levels /\ cur[t] = made /\ cur[t] \in Nodes
        /\ lvl[t] < height[cur[t]] /\ height[cur[t]] <= maxHeight
    BY <1>0, <1>2 DEF Link, NodesMade, TypeOK
  <2>2. CASE n = cur[t] /\ i = lvl[t]
    <3>1. i \in lvl[t] .. maxHeight - 1
      BY <2>1, <2>2 DEF TypeOK
    <3>2. prev[i] \in On(i)
      BY <1>0, <2>1, <3>1 DEF PlaceFound, IsPlace
    <3>3. next[prev[i]][i] = Nil \/ next[prev[i]][i] \in On(i)
      BY <3>2 DEF Successors
    <3>4. \A m \in On(i) : m <= made
      BY OnIsMade
    <3>5. next'[n][i] = next[prev[i]][i]
      BY <2>1, <2>2 DEF TypeOK
    <3>6. ~(next'[n][i] \in Nodes /\ next'[n][i] > n)
      BY <2>1, <2>2, <3>3, <3>4, <3>5, ValuesTyped
    <3> QED
      BY <1>q, <2>1, <3>6
  <2>3. CASE ~(n = cur[t] /\ i = lvl[t])
    <3>1. next'[n][i] = next[n][i]
      BY <2>1, <2>3 DEF TypeOK
    <3> QED
      BY <1>q, <2>1, <3>1
  <2> QED
    BY <2>2, <2>3
<1>3. CASE PersistNew(t)
  <2>1. /\ pc[t] = "persistNew" /\ UNCHANGED <<next, keyDurable>>
        /\ pm' = [pm EXCEPT ![cur[t]][lvl[t]] = next[cur[t]][lvl[t]]]
    BY <1>3 DEF PersistNew
  <2>2. pm'[n][i] = pm[n][i] \/ pm'[n][i] = next[n][i]
    BY <2>1 DEF TypeOK
  <2> QED
    BY <1>q, <2>1, <2>2
<1>4. CASE LinkPrev(t)
  <2>1. /\ pc[t] = "linkPrev" /\ pc'[t] = "persistPrev" /\ lvl[t] \in Levels
        /\ UNCHANGED <<pm, keyDurable, prev, lvl>>
        /\ next' = [next EXCEPT ![prev[lvl[t]]][lvl[t]] = cur[t]]
    BY <1>0, <1>4 DEF LinkPrev, TypeOK
  <2>2. CASE n = prev[lvl[t]] /\ i = lvl[t]
    BY <1>q, <2>1, <2>2
  <2>3. CASE ~(n = prev[lvl[t]] /\ i = lvl[t])
    <3>1. next'[n][i] = next[n][i]
      BY <2>1, <2>3 DEF TypeOK
    <3> QED
      BY <1>q, <2>1, <3>1
  <2> QED
    BY <2>2, <2>3
<1>5. CASE PersistPrev(t)
  <2>1. /\ pc[t] = "persistPrev" /\ next' = next
        /\ pm' = [pm EXCEPT ![prev[lvl[t]]][lvl[t]] = next[prev[lvl[t]]][lvl[t]]]
        /\ keyDurable' = keyDurable \union {prev[lvl[t]]}
    BY <1>5 DEF PersistPrev, NextLevel
  <2>2. CASE n = prev[lvl[t]] /\ i = lvl[t]
    BY <2>1, <2>2
  <2>3. CASE ~(n = prev[lvl[t]] /\ i = lvl[t])
    <3>1. pm'[n][i] = pm[n][i] /\ ~Pending(n, i)
      BY <2>1, <2>3 DEF TypeOK
    <3> QED
      BY <1>q, <2>1, <3>1
  <2> QED
    BY <2>2, <2>3
<1>6. ASSUME NEW m \in Points, NEW j \in Levels, WriteBack(m, j)
      PROVE  Written(n, i)'
  <2>1. UNCHANGED <<next, keyDurable, prev, pc, cur, lvl>>
    BY <1>6 DEF WriteBack
  <2>2. CASE pm'[n][i] = pm[n][i]
    BY <1>q, <2>1, <2>2
  <2>3. CASE pm'[n][i] = Torn
    BY <1>q, <2>1, <2>3
  <2>4. CASE pm'[n][i] = next[n][i] /\ pm[n][i] # next[n][i]
    <3>1. Pending(n, i) => next[n][i] = cur[t]
      BY <1>0 DEF LinkPlaces
    <3> QED
      BY <1>q, <2>1, <2>4, <3>1
  <2>5. \/ pm'[n][i] = pm[n][i] \/ pm'[n][i] = Torn
        \/ pm'[n][i] = next[n][i] /\ pm[n][i] # next[n][i]
    BY <1>6 DEF WriteBack, TypeOK
  <2> QED
    BY <2>2, <2>3, <2>4, <2>5
<1> QED
  BY <1>1, <1>2, <1>3, <1>4, <1>5, <1>6 DEF Next, Step

\* The pointer that NVM lacks is torn, or the one before the Insert.
LEMMA OldPreserved ==
  ASSUME NEW t, Threads = {t}, TypeOK, NodesMade, PlaceFound, LinkPlaces,
         NvmLagsByOnePointer, OldPointer, Next
  PROVE  OldPointer'
<1>0. t \in Threads /\ \A u \in Threads : u = t
  OBVIOUS
<1> SUFFICES ASSUME pc'[t] = "persistPrev"
    PROVE  /\ (prev[lvl[t]] \in On(lvl[t]))'
           /\ (pm[prev[lvl[t]]][lvl[t]] \in
                 {cur[t], Torn, next[cur[t]][lvl[t]]})'
  BY <1>0 DEF OldPointer
<1>1. CASE LinkPrev(t)
  <2>1. /\ pc[t] = "linkPrev" /\ UNCHANGED <<pm, prev, lvl, cur>>
        /\ next' = [next EXCEPT ![prev[lvl[t]]][lvl[t]] = cur[t]]
        /\ lvl[t] \in Levels /\ prev[lvl[t]] \in Points /\ cur[t] \in Points
    BY <1>0, <1>1, ValuesTyped DEF LinkPrev
  <2>2. next[cur[t]][lvl[t]] = next[prev[lvl[t]]][lvl[t]]
    BY <1>0, <2>1 DEF LinkPlaces
  <2>3. pm[prev[lvl[t]]][lvl[t]] = next[prev[lvl[t]]][lvl[t]]
    BY <1>0, <2>1 DEF NvmLagsByOnePointer
  <2>4. prev[lvl[t]] \in On(lvl[t]) /\ prev[lvl[t]] # cur[t]
    <3>1. /\ cur[t] \in Nodes /\ height[cur[t]] \in Nat /\ maxHeight \in Nat
          /\ lvl[t] < height[cur[t]] /\ height[cur[t]] <= maxHeight
      <4>1. cur[t] \in Nodes /\ lvl[t] < height[cur[t]]
        BY <1>0, <2>1 DEF NodesMade, TypeOK
      <4> QED
        BY <4>1 DEF NodesMade, TypeOK
    <3>2. lvl[t] \in lvl[t] .. maxHeight - 1
      BY <2>1, <3>1
    <3>3. prev[lvl[t]] \in On(lvl[t])
      BY <1>0, <2>1, <3>2 DEF PlaceFound, IsPlace
    <3> QED
      BY <2>1, <3>3, NewNodeIsNotOn
  <2>5. next'[cur[t]][lvl[t]] = next[cur[t]][lvl[t]]
    BY <2>1, <2>4 DEF TypeOK
  <2>6. (prev[lvl[t]] \in On(lvl[t]))'
    <3>1. \A i \in Levels : On(i) \subseteq On(i)'
      BY <1>1, OnGrows
    <3>2. prev[lvl[t]] \in On(lvl[t])'
      BY <2>1, <2>4, <3>1
    <3> QED
      BY <2>1, <3>2 DEF On
  <2> QED
    BY <2>1, <2>2, <2>3, <2>5, <2>6
<1>2. ASSUME NEW m \in Points, NEW j \in Levels, WriteBack(m, j)
      PROVE  /\ (prev[lvl[t]] \in On(lvl[t]))'
             /\ (pm[prev[lvl[t]]][lvl[t]] \in
                   {cur[t], Torn, next[cur[t]][lvl[t]]})'
  <2>1. UNCHANGED <<height, next, prev, pc, cur, lvl>>
    BY <1>2 DEF WriteBack
  <2>2. \A n \in Points, i \in Levels :
          pm'[n][i] \in {pm[n][i], Torn, next[n][i]}
    BY <1>2 DEF WriteBack, TypeOK
  <2>3. lvl[t] \in Levels /\ prev[lvl[t]] \in Points
    BY <1>0, ValuesTyped
  <2>4. next[prev[lvl[t]]][lvl[t]] = cur[t]
    BY <1>0, <2>1 DEF LinkPlaces
  <2>5. (prev[lvl[t]] \in On(lvl[t]))'
    BY <1>0, <2>1 DEF OldPointer, On, Unlinked
  <2> QED
    BY <1>0, <2>1, <2>2, <2>3, <2>4, <2>5 DEF OldPointer
<1>3. CASE StartAtFinger(t) \/ StartFindNextNode(t) \/ StartFindLessThan(t)
  <2>1. pc'[t] # "persistPrev"
    BY <1>0, <1>3 DEF StartAtFinger, StartFindNextNode, StartFindLessThan,
                      TypeOK
  <2> QED
    BY <2>1
<1>4. CASE \/ Advance(t) \/ Descend(t) \/ Grow(t) \/ Link(t)
           \/ PersistNew(t) \/ PersistPrev(t)
  <2>1. pc'[t] # "persistPrev"
    BY <1>0, <1>4 DEF Advance, Descend, Grow, Link, PersistNew, PersistPrev,
                      NextLevel, TypeOK
  <2> QED
    BY <2>1
<1> QED
  BY <1>0, <1>1, <1>2, <1>3, <1>4 DEF Next, Step

---------------------------------------------------------------------------
(* The theorems, for one thread and distinct keys.                         *)

\* The empty list satisfies the invariant.
LEMMA InitInv ==
  ASSUME NEW t, Threads = {t}, KeyingsInject, Init
  PROVE  IInv
<1>0. t \in Threads /\ (\A u \in Threads : u = t)
  OBVIOUS
<1>1. KeysDistinct
  BY DEF Init, KeyingsInject, KeysDistinct
<1>2. TypeOK
  <2>1. /\ key \in [Nodes -> Nat] /\ made \in 0 .. N
        /\ height \in [Nodes -> 0 .. MaxHeight]
        /\ keyDurable \subseteq Points /\ prev \in [Levels -> Points]
        /\ maxHeight \in 1 .. MaxHeight
    BY DEF Init
  <2>2. next \in [Points -> [Levels -> Points \union {Nil, Garbage}]]
    BY DEF Init
  <2>3. pm \in [Points -> [Levels -> Points \union {Nil, Garbage, Torn}]]
    BY DEF Init
  <2>4. /\ pc \in [Threads -> PCs] /\ cur \in [Threads -> Points]
        /\ x \in [Threads -> Points] /\ lvl \in [Threads -> Levels]
    BY DEF Init, PCs
  <2> QED
    BY <2>1, <2>2, <2>3, <2>4 DEF TypeOK
<1>3. pc[t] = "idle" /\ pm = next /\ \A n \in Nodes : height[n] = 0
  BY <1>0 DEF Init
<1>4. \A i \in Levels : On(i) = {Head}
  BY <1>3 DEF On
<1>5. ~Precedes(Head, Head)
  BY DEF Precedes
<1>6. FingersFit
  <2>1. \A i \in 0 .. maxHeight - 1 : i \in Levels
    BY DEF Init
  <2>2. \A i \in Levels : prev[i] = Head
    BY DEF Init
  <2> QED
    BY <1>2, <1>4, <1>5, <2>1, <2>2 DEF FingersFit
<1>7. Successors
  BY <1>4, <1>5 DEF Init, Successors
<1>8. NodesMade
  BY <1>0, <1>2, <1>3 DEF Init, NodesMade, TypeOK
<1>9. SearchPlaces /\ PlaceFound /\ LinkPlaces
  BY <1>0, <1>3 DEF SearchPlaces, PlaceFound, LinkPlaces
<1>10. NvmLagsByOnePointer
  BY <1>3 DEF NvmLagsByOnePointer
<1>11. KeysWritten
  <2>1. \A n \in Points, i \in Levels : next[n][i] \notin Nodes
    BY DEF Init
  <2> QED
    BY <1>3, <2>1 DEF KeysWritten
<1>12. OldPointer
  BY <1>0, <1>3 DEF OldPointer
<1> QED
  BY <1>1, <1>6, <1>7, <1>8, <1>9, <1>10, <1>11, <1>12 DEF IInv

\* A step that changes nothing keeps the invariant.
LEMMA StutterInv ==
  ASSUME IInv, UNCHANGED vars
  PROVE  IInv'
<1>1. TypeOK'
  BY DEF IInv, FingersFit, TypeOK
<1>2. (\A i \in Levels : On(i)' = On(i)) /\ TypeOK
  BY DEF On, Unlinked, IInv, FingersFit
<1>3. FingersFit'
  <2>1. \A i \in 0 .. maxHeight - 1 : i \in Levels
    BY <1>2 DEF TypeOK
  <2> QED
    BY <1>1, <1>2, <2>1 DEF IInv, FingersFit, Precedes, KeyBelow
<1>4. KeysDistinct' /\ NodesMade'
  BY DEF IInv, KeysDistinct, NodesMade
<1>5. Successors'
  BY <1>2 DEF IInv, Successors, IsPlace, Precedes, KeyBelow
<1>6. SearchPlaces'
  BY <1>2 DEF IInv, SearchPlaces, IsPlace, Precedes, KeyBelow
<1>7. PlaceFound' /\ LinkPlaces'
  <2>1. \A u \in Threads :
          /\ \A i \in lvl[u] .. maxHeight - 1 : i \in Levels
          /\ \A i \in lvl[u] + 1 .. maxHeight - 1 : i \in Levels
    BY <1>2 DEF TypeOK
  <2>2. \A i \in 0 .. maxHeight - 1 : i \in Levels
    BY <1>2 DEF TypeOK
  <2>3. PlaceFound'
    BY <1>2, <2>1, <2>2 DEF IInv, PlaceFound, IsPlace, Precedes, KeyBelow
  <2>4. LinkPlaces'
    BY <1>2, <2>1 DEF IInv, LinkPlaces, IsPlace, Precedes, KeyBelow
  <2> QED
    BY <2>3, <2>4
<1>8. NvmLagsByOnePointer' /\ KeysWritten'
  BY DEF IInv, NvmLagsByOnePointer, KeysWritten
<1>9. OldPointer'
  <2>1. \A u \in Threads : lvl[u] \in Levels
    BY <1>2 DEF TypeOK
  <2> QED
    BY <1>2, <2>1 DEF IInv, OldPointer, On, Unlinked
<1> QED
  BY <1>3, <1>4, <1>5, <1>6, <1>7, <1>8, <1>9 DEF IInv

\* With one thread that inserts distinct keys, the invariant always holds.
THEOREM ListInvariance ==
  ASSUME OneThread, KeyingsInject
  PROVE  Spec => []IInv
<1> PICK t : Threads = {t}
  BY DEF OneThread
<1>1. Init => IInv
  BY InitInv
<1>2. IInv /\ [Next]_vars => IInv'
  <2> SUFFICES ASSUME IInv, [Next]_vars PROVE IInv'
    OBVIOUS
  <2>1. CASE Next
    <3>0. /\ FingersFit /\ TypeOK /\ KeysDistinct /\ NodesMade /\ Successors
          /\ SearchPlaces /\ PlaceFound /\ LinkPlaces
          /\ NvmLagsByOnePointer /\ KeysWritten /\ OldPointer
      BY DEF IInv, FingersFit
    <3>1. FingersFit'
      BY <2>1, <3>0, FingersPreserved
    <3>2. KeysDistinct' /\ NodesMade'
      BY <2>1, <3>0, KeysStay, MadePreserved DEF KeysDistinct
    <3>3. Successors'
      BY <2>1, <3>0, SuccessorsPreserved
    <3>4. SearchPlaces'
      BY <2>1, <3>0, SearchPreserved
    <3>5. PlaceFound'
      BY <2>1, <3>0, PlacePreserved
    <3>6. LinkPlaces'
      BY <2>1, <3>0, LinksPreserved
    <3>7. NvmLagsByOnePointer'
      BY <2>1, <3>0, LagPreserved
    <3>8. KeysWritten'
      BY <2>1, <3>0, WrittenPreserved
    <3>9. OldPointer'
      BY <2>1, <3>0, OldPreserved
    <3> QED
      BY <3>1, <3>2, <3>3, <3>4, <3>5, <3>6, <3>7, <3>8, <3>9 DEF IInv
  <2>2. CASE UNCHANGED vars
    BY <2>2, StutterInv
  <2> QED
    BY <2>1, <2>2
<1> QED
  BY <1>1, <1>2, PTL DEF Spec

---------------------------------------------------------------------------
(* Walks: Reach(image, i) is the least set that holds the head and what    *)
(* its nodes point at.                                                     *)

\* The sets that Reach collects, one more pointer followed in each.
Collects(met, image, i, m) ==
  met = [k \in 0 .. m |->
           IF k = 0 THEN {Head}
           ELSE met[k - 1] \union
                  {image[n][i] : n \in met[k - 1] \intersect Points}]

\* These sets exist, which makes the recursive function what it says.
LEMMA CollectsExists ==
  ASSUME NEW image, NEW i, NEW m \in Nat
  PROVE  \E met : Collects(met, image, i, m)
<1> DEFINE Fine == {k \in Nat : \E met : Collects(met, image, i, k)}
<1>1. 0 \in Fine
  <2> DEFINE met == [k \in 0 .. 0 |-> {Head}]
  <2>1. Collects(met, image, i, 0)
    BY DEF Collects
  <2> QED
    BY <2>1
<1>2. ASSUME NEW k \in Nat, k \in Fine PROVE k + 1 \in Fine
  <2>1. PICK g : Collects(g, image, i, k)
    BY <1>2
  <2> DEFINE more == g[k] \union {image[n][i] : n \in g[k] \intersect Points}
             met == [j \in 0 .. k + 1 |-> IF j = k + 1 THEN more ELSE g[j]]
  <2>2. ASSUME NEW j \in 0 .. k + 1
        PROVE  met[j] = IF j = 0 THEN {Head}
                        ELSE met[j - 1] \union
                          {image[n][i] : n \in met[j - 1] \intersect Points}
    <3>1. CASE j = k + 1
      <4>1. met[j] = more /\ met[j - 1] = g[k] /\ j # 0
        BY <3>1
      <4> QED
        BY <4>1
    <3>2. CASE j # k + 1
      <4>1. /\ j \in 0 .. k /\ met[j] = g[j]
            /\ j # 0 => met[j - 1] = g[j - 1]
        BY <3>2
      <4>2. g[j] = IF j = 0 THEN {Head}
                   ELSE g[j - 1] \union
                          {image[n][i] : n \in g[j - 1] \intersect Points}
        BY <2>1, <4>1 DEF Collects
      <4> QED
        BY <4>1, <4>2
    <3> QED
      BY <3>1, <3>2
  <2>3. Collects(met, image, i, k + 1)
    <3>1. met = [j \in 0 .. k + 1 |-> met[j]]
      OBVIOUS
    <3> HIDE DEF met
    <3> QED
      BY <2>2, <3>1 DEF Collects
  <2> QED
    BY <2>3
<1>3. \A k \in 0 .. m : k \in Fine
  <2> HIDE DEF Fine
  <2> QED
    BY <1>1, <1>2, Numbers!UpTo
<1> QED
  BY <1>3

\* Reach is the last of them.
LEMMA ReachIs ==
  ASSUME NEW image, NEW i
  PROVE  \E met : /\ Collects(met, image, i, N + 1)
                  /\ Reach(image, i) = met[N + 1] \ {Nil}
<1> DEFINE met == CHOOSE f :
             f = [k \in 0 .. N + 1 |->
                    IF k = 0 THEN {Head}
                    ELSE f[k - 1] \union
                           {image[n][i] : n \in f[k - 1] \intersect Points}]
<1>1. Reach(image, i) = met[N + 1] \ {Nil}
  BY DEF Reach
<1>2. Collects(met, image, i, N + 1)
  <2>0. N + 1 \in Nat
    OBVIOUS
  <2>1. \E f : Collects(f, image, i, N + 1)
    BY <2>0, CollectsExists, Zenon
  <2> QED
    BY <2>1 DEF Collects
<1> HIDE DEF met
<1> QED
  BY <1>1, <1>2

\* A set that holds the head and what its nodes point at holds all of Reach.
LEMMA ReachInside ==
  ASSUME NEW image, NEW i, NEW S, Head \in S,
         \A n \in S \intersect Points : image[n][i] \in S
  PROVE  Reach(image, i) \subseteq S
<1>1. PICK met : /\ Collects(met, image, i, N + 1)
                 /\ Reach(image, i) = met[N + 1] \ {Nil}
  BY ReachIs
<1> DEFINE Inside == {k \in 0 .. N + 1 : met[k] \subseteq S}
<1>2. 0 \in Inside
  BY <1>1 DEF Collects
<1>3. ASSUME NEW k \in 0 .. N + 1, k \in Inside, k < N + 1
      PROVE  k + 1 \in Inside
  <2>1. k + 1 \in 0 .. N + 1 /\ k + 1 # 0 /\ (k + 1) - 1 = k
    BY <1>3
  <2>2. met[k + 1] = met[k] \union
                       {image[n][i] : n \in met[k] \intersect Points}
    BY <1>1, <2>1 DEF Collects
  <2>3. met[k] \subseteq S
    BY <1>3
  <2>4. {image[n][i] : n \in met[k] \intersect Points} \subseteq S
    BY <2>3
  <2> QED
    BY <2>1, <2>2, <2>3, <2>4
<1>4. N + 1 \in Inside
  <2>1. N + 1 \in Nat /\ N + 1 \in 0 .. N + 1
    OBVIOUS
  <2> HIDE DEF Inside
  <2> QED
    BY <1>2, <1>3, <2>1, Numbers!UpTo
<1> QED
  BY <1>1, <1>4

\* N + 1 pointers are enough: Reach holds the head and what its nodes point at.
LEMMA ReachClosed ==
  ASSUME NEW image, NEW i
  PROVE  /\ Head \in Reach(image, i)
         /\ \A n \in Reach(image, i) \intersect Points :
              image[n][i] # Nil => image[n][i] \in Reach(image, i)
<1>1. PICK met : /\ Collects(met, image, i, N + 1)
                 /\ Reach(image, i) = met[N + 1] \ {Nil}
  BY ReachIs
<1> DEFINE Step1(S) == S \union {image[n][i] : n \in S \intersect Points}
           f == [k \in 0 .. N + 1 |-> met[k] \intersect Points]
<1>2. met[0] = {Head} /\ \A k \in 0 .. N : met[k + 1] = Step1(met[k])
  <2>1. met[0] = {Head}
    BY <1>1 DEF Collects
  <2>2. ASSUME NEW k \in 0 .. N PROVE met[k + 1] = Step1(met[k])
    <3>1. k + 1 \in 0 .. N + 1 /\ k + 1 # 0 /\ (k + 1) - 1 = k
      OBVIOUS
    <3> QED
      BY <1>1, <3>1 DEF Collects
  <2> QED
    BY <2>1, <2>2
<1>3. PICK k \in 0 .. N : f[k] = f[k + 1]
  <2>1. f[0] # {} /\ \A j \in 0 .. N + 1 : f[j] \subseteq 0 .. N
    BY <1>2
  <2>2. ASSUME NEW j \in 0 .. N PROVE f[j] \subseteq f[j + 1]
    <3>1. met[j] \subseteq met[j + 1]
      BY <1>2
    <3>2. j \in 0 .. N + 1 /\ j + 1 \in 0 .. N + 1
      OBVIOUS
    <3> QED
      BY <3>1, <3>2
  <2> HIDE DEF f
  <2> QED
    BY <2>1, <2>2, Numbers!ChainStops
<1> DEFINE Last == met[k + 1]
           Closed == {j \in 0 .. N + 1 : j >= k + 1 => met[j] = Last}
<1>4. met[k] \intersect Points = met[k + 1] \intersect Points
  <2>1. k \in 0 .. N + 1 /\ k + 1 \in 0 .. N + 1
    OBVIOUS
  <2> QED
    BY <1>3, <2>1
<1>5. Step1(Last) = Last
  BY <1>2, <1>4
<1>6. N + 1 \in Closed
  <2>1. 0 \in Closed
    OBVIOUS
  <2>2. ASSUME NEW j \in 0 .. N + 1, j \in Closed, j < N + 1
        PROVE  j + 1 \in Closed
    <3>1. j \in 0 .. N /\ j + 1 \in 0 .. N + 1 /\ met[j + 1] = Step1(met[j])
      BY <1>2, <2>2
    <3>2. CASE j + 1 = k + 1
      BY <3>1, <3>2
    <3>3. CASE j >= k + 1
      BY <1>5, <2>2, <3>1, <3>3
    <3> QED
      BY <3>1, <3>2, <3>3
  <2>3. N + 1 \in Nat /\ N + 1 \in 0 .. N + 1
    OBVIOUS
  <2> HIDE DEF Closed
  <2> QED
    BY <2>1, <2>2, <2>3, Numbers!UpTo
<1>7. met[N + 1] = Last
  BY <1>6
<1>8. Head \in met[N + 1]
  <2> DEFINE Has == {j \in 0 .. N + 1 : Head \in met[j]}
  <2>1. 0 \in Has
    BY <1>2
  <2>2. ASSUME NEW j \in 0 .. N + 1, j \in Has, j < N + 1 PROVE j + 1 \in Has
    BY <1>2, <2>2
  <2>3. N + 1 \in Nat /\ N + 1 \in 0 .. N + 1
    OBVIOUS
  <2>4. N + 1 \in Has
    <3> HIDE DEF Has
    <3> QED
      BY <2>1, <2>2, <2>3, Numbers!UpTo
  <2> QED
    BY <2>4
<1> QED
  BY <1>1, <1>5, <1>7, <1>8

\* A walk that goes on, in order, from every node before n meets n.
LEMMA WalkMeets ==
  ASSUME TypeOK, NEW image, NEW i, NEW n \in Nodes,
         \A p \in Reach(image, i) \intersect Points :
           Precedes(p, n) =>
             /\ image[p][i] \in Points
             /\ image[p][i] # n =>
                  Precedes(p, image[p][i]) /\ Precedes(image[p][i], n)
  PROVE  n \in Reach(image, i)
<1> SUFFICES ASSUME n \notin Reach(image, i) PROVE FALSE
  OBVIOUS
<1> DEFINE S == {p \in Reach(image, i) \intersect Points : Precedes(p, n)}
           D == {d \in Nat : \E p \in S : p # Head /\ d = key[n] - key[p]}
<1>0. \A p \in Nodes : key[p] \in Nat
  BY DEF TypeOK
<1>1. \A p \in S : image[p][i] \in S /\ Precedes(p, image[p][i])
  BY ReachClosed
<1>2. \A p \in S : p # Head => p \in Nodes /\ key[p] < key[n]
  BY DEF Precedes, KeyBelow
<1>3. \A p \in S : image[p][i] # Head
  BY <1>1 DEF Precedes
<1>4. \A p \in S : p # Head => key[n] - key[p] \in D
  BY <1>0, <1>2
<1>5. Head \in S
  BY ReachClosed DEF Precedes, KeyBelow
<1>6. D # {} /\ D \subseteq Nat
  BY <1>1, <1>3, <1>4, <1>5
<1>7. PICK d \in D : \A e \in D : d <= e
  <2> HIDE DEF D
  <2> QED
    BY <1>6, Numbers!LeastNumber
<1>8. PICK p \in S : p # Head /\ d = key[n] - key[p]
  BY <1>7
<1> DEFINE q == image[p][i]
<1>9. q \in S /\ q # Head /\ key[p] < key[q]
  BY <1>1, <1>3, <1>8 DEF Precedes, KeyBelow
<1>10. d <= key[n] - key[q]
  BY <1>4, <1>7, <1>9
<1> QED
  BY <1>0, <1>2, <1>8, <1>9, <1>10

\* What Successors says of a node that is before another one of its list.
LEMMA NextOnTheWay ==
  ASSUME TypeOK, KeysDistinct, Successors, NEW i \in Levels,
         NEW p \in On(i), NEW n \in On(i), Precedes(p, n)
  PROVE  /\ next[p][i] \in On(i) /\ Precedes(p, next[p][i])
         /\ next[p][i] # n => Precedes(next[p][i], n)
<1>1. next[p][i] \in On(i) /\ IsPlace(p, next[p][i], i)
  BY DEF Successors
<1>2. next[p][i] \in Points /\ n \in Points
  BY <1>1 DEF On
<1>3. Precedes(p, next[p][i]) /\ ~Precedes(n, next[p][i])
  BY <1>1 DEF IsPlace
<1> QED
  BY <1>1, <1>2, <1>3, PrecedesIsOrder

\* A walk along pointers that agree with next on the nodes of a level meets
\* these nodes and no others.
LEMMA WalkMeetsList ==
  ASSUME TypeOK, KeysDistinct, Successors, NEW i \in Levels, NEW image,
         \A n \in On(i) : image[n][i] = next[n][i]
  PROVE  Reach(image, i) = On(i)
<1>1. Head \in On(i) /\ On(i) \subseteq Points
  BY DEF On
<1>2. Reach(image, i) \subseteq On(i) \union {Nil}
  <2> DEFINE S == On(i) \union {Nil}
  <2>1. \A n \in On(i) : next[n][i] \in S
    BY DEF Successors
  <2>2. Head \in S /\ \A n \in S \intersect Points : image[n][i] \in S
    BY <1>1, <2>1
  <2> HIDE DEF S
  <2>3. Reach(image, i) \subseteq S
    BY <2>2, ReachInside
  <2> QED
    BY <2>3 DEF S
<1>3. Nil \notin Reach(image, i)
  BY DEF Reach
<1>4. ASSUME NEW n \in On(i) PROVE n \in Reach(image, i)
  <2>1. CASE n = Head
    BY <2>1, ReachClosed
  <2>2. CASE n # Head
    <3>1. n \in Nodes
      BY <1>1, <2>2
    <3>2. \A p \in Reach(image, i) \intersect Points :
            Precedes(p, n) =>
              /\ image[p][i] \in Points
              /\ image[p][i] # n =>
                   Precedes(p, image[p][i]) /\ Precedes(image[p][i], n)
      BY <1>1, <1>2, <1>3, NextOnTheWay
    <3> QED
      BY <3>1, <3>2, WalkMeets
  <2> QED
    BY <2>1, <2>2
<1> QED
  BY <1>2, <1>3, <1>4

---------------------------------------------------------------------------
(* What a power failure finds.                                             *)

\* What a pointer of a list may be in NVM.
LEMMA PointerInNvm ==
  ASSUME NEW t, Threads = {t}, IInv, NEW i \in Levels, NEW n \in On(i)
  PROVE  \/ pm[n][i] = next[n][i]
         \/ /\ pc[t] = "persistPrev" /\ i = lvl[t] /\ n = prev[i]
            /\ next[n][i] = cur[t] /\ cur[t] \in On(i) /\ cur[t] \in Nodes
            /\ pm[n][i] \in {Torn, next[cur[t]][i]}
<1>0. t \in Threads /\ (\A u \in Threads : u = t) /\ TypeOK /\ NodesMade
  BY DEF IInv, FingersFit
<1> SUFFICES ASSUME pm[n][i] # next[n][i]
    PROVE  /\ pc[t] = "persistPrev" /\ i = lvl[t] /\ n = prev[i]
           /\ next[n][i] = cur[t] /\ cur[t] \in On(i) /\ cur[t] \in Nodes
           /\ pm[n][i] \in {Torn, next[cur[t]][i]}
  OBVIOUS
<1>1. n \in Points
  BY DEF On
<1>2. pc[t] = "persistNew" => ~(i = lvl[t] /\ n = cur[t])
  BY <1>0, NewNodeIsNotOn
<1>3. pc[t] = "persistPrev" /\ i = lvl[t] /\ n = prev[i]
  BY <1>0, <1>1, <1>2 DEF IInv, NvmLagsByOnePointer
<1>4. next[n][i] = cur[t] /\ pm[n][i] \in {cur[t], Torn, next[cur[t]][i]}
  BY <1>0, <1>3 DEF IInv, LinkPlaces, OldPointer
<1>5. cur[t] \in Nodes /\ cur[t] \in On(i)
  <2>1. cur[t] \in Nodes /\ height[cur[t]] > i
    BY <1>0, <1>3 DEF NodesMade, TypeOK
  <2>2. ~Unlinked(t, cur[t], i)
    BY <1>3, <1>0 DEF Unlinked, TypeOK
  <2> QED
    BY <2>1, <2>2, OnIs
<1> QED
  BY <1>3, <1>4, <1>5

\* On the levels where nothing is in flight, NVM has the list of the CPU.
LEMMA SettledLevel ==
  ASSUME NEW t, Threads = {t}, IInv, NEW i \in Levels,
         pc[t] # "persistPrev" \/ lvl[t] # i
  PROVE  Reach(pm, i) = On(i)
<1>1. \A n \in On(i) : pm[n][i] = next[n][i]
  BY PointerInNvm
<1>2. TypeOK /\ KeysDistinct /\ Successors
  BY DEF IInv, FingersFit
<1> QED
  BY <1>1, <1>2, WalkMeetsList

\* The walk in NVM goes on in order or ends.
LEMMA NvmInOrder ==
  ASSUME NEW t, Threads = {t}, IInv, NEW i \in Levels, NEW n \in On(i)
  PROVE  \/ pm[n][i] \in {Nil, Torn}
         \/ pm[n][i] \in On(i) /\ Precedes(n, pm[n][i])
<1>0. TypeOK /\ KeysDistinct /\ Successors
  BY DEF IInv, FingersFit
<1>1. \A p \in On(i) : \/ next[p][i] = Nil
                       \/ next[p][i] \in On(i) /\ Precedes(p, next[p][i])
  BY <1>0 DEF Successors, IsPlace
<1>2. CASE pm[n][i] = next[n][i]
  BY <1>1, <1>2
<1>3. CASE /\ next[n][i] = cur[t] /\ cur[t] \in On(i) /\ cur[t] \in Nodes
           /\ pm[n][i] = next[cur[t]][i] /\ pm[n][i] # Nil
  <2>1. Precedes(n, cur[t]) /\ Precedes(cur[t], pm[n][i]) /\ pm[n][i] \in On(i)
    BY <1>1, <1>3
  <2>2. n \in Points /\ cur[t] \in Points /\ pm[n][i] \in Points
    BY <1>3, <2>1 DEF On
  <2> QED
    BY <1>0, <2>1, <2>2, PrecedesIsOrder
<1> QED
  BY <1>2, <1>3, PointerInNvm

\* A walk in NVM stays in its list.
LEMMA NvmInside ==
  ASSUME NEW t, Threads = {t}, IInv, NEW i \in Levels
  PROVE  Reach(pm, i) \subseteq On(i) \union {Torn}
<1> DEFINE S == On(i) \union {Nil, Torn}
<1>1. \A m \in On(i) : pm[m][i] \in S
  BY NvmInOrder
<1>2. Head \in S /\ \A m \in S \intersect Points : pm[m][i] \in S
  BY <1>1 DEF On
<1>3. Reach(pm, i) \subseteq S
  <2> HIDE DEF S
  <2> QED
    BY <1>2, ReachInside
<1>4. Nil \notin Reach(pm, i)
  BY DEF Reach
<1> QED
  BY <1>3, <1>4

\* The walk in NVM passes by no node but the one in flight.
LEMMA NvmOnTheWay ==
  ASSUME NEW t, Threads = {t}, IInv, NEW i \in Levels, NEW n \in On(i),
         NEW m \in On(i), Precedes(n, m), pc[t] = "idle" \/ cur[t] # m,
         pm[n][i] # Torn
  PROVE  /\ pm[n][i] \in On(i) /\ Precedes(n, pm[n][i])
         /\ pm[n][i] # m => Precedes(pm[n][i], m)
<1>0. TypeOK /\ KeysDistinct /\ Successors
  BY DEF IInv, FingersFit
<1>1. CASE pm[n][i] = next[n][i]
  BY <1>0, <1>1, NextOnTheWay
<1>2. CASE /\ pc[t] = "persistPrev" /\ next[n][i] = cur[t]
           /\ cur[t] \in On(i) /\ pm[n][i] = next[cur[t]][i]
  <2>1. Precedes(cur[t], m) /\ Precedes(n, cur[t])
    BY <1>0, <1>2, NextOnTheWay
  <2>2. /\ pm[n][i] \in On(i) /\ Precedes(cur[t], pm[n][i])
        /\ pm[n][i] # m => Precedes(pm[n][i], m)
    BY <1>0, <1>2, <2>1, NextOnTheWay
  <2>3. n \in Points /\ cur[t] \in Points /\ pm[n][i] \in Points
    BY <1>2, <2>2 DEF On
  <2> QED
    BY <1>0, <2>1, <2>2, <2>3, PrecedesIsOrder
<1> QED
  BY <1>1, <1>2, PointerInNvm

\* What the invariant says of the walks.
LEMMA WalkFacts ==
  ASSUME NEW t, Threads = {t}, IInv
  PROVE  InOrder /\ NothingCutOff /\ CrashSafe
<1>0. TypeOK /\ KeysDistinct /\ Successors /\ NodesMade
  BY DEF IInv, FingersFit
<1>1. NothingCutOff
  BY <1>0, WalkMeetsList DEF NothingCutOff
<1>2. InOrder
  <2> SUFFICES ASSUME NEW i \in Levels, NEW n \in On(i)
      PROVE  /\ n \in Points
             /\ next[n][i] \in Nodes => Precedes(n, next[n][i])
             /\ next[n][i] \in Nodes \union {Nil}
    BY <1>1 DEF InOrder, OrderedBut, NothingCutOff
  <2>1. n \in Points
    BY DEF On
  <2>2. CASE next[n][i] = Nil
    BY <2>1, <2>2
  <2>3. CASE next[n][i] \in On(i) /\ Precedes(n, next[n][i])
    BY <2>1, <2>3 DEF On, Precedes
  <2> QED
    BY <1>0, <2>2, <2>3 DEF Successors, IsPlace
<1>3. CrashLeavesOrder
  <2> SUFFICES ASSUME NEW i \in Levels, NEW n \in Reach(pm, i) \ {Torn}
      PROVE  /\ n \in Points
             /\ pm[n][i] \in Nodes => Precedes(n, pm[n][i])
             /\ pm[n][i] \in Nodes \union {Nil} \union {Torn}
    BY DEF CrashLeavesOrder, OrderedBut
  <2>1. \/ pm[n][i] \in {Nil, Torn} \/ n \notin On(i)
        \/ pm[n][i] \in On(i) /\ Precedes(n, pm[n][i])
    BY NvmInOrder
  <2>2. On(i) \subseteq Points
    BY DEF On
  <2>3. n \in On(i) /\ n \in Points
    BY <2>2, NvmInside
  <2>4. CASE pm[n][i] \in {Nil, Torn}
    BY <2>3, <2>4
  <2>5. CASE pm[n][i] \in On(i) /\ Precedes(n, pm[n][i])
    BY <2>3, <2>5 DEF On, Precedes
  <2> QED
    BY <2>1, <2>3, <2>4, <2>5
<1>4. CrashKeepsInserts
  <2> SUFFICES ASSUME NEW n \in 1 .. made, NEW i \in 0 .. height[n] - 1,
                      Torn \notin Reach(pm, i),
                      ~(cur[t] = n /\ pc[t] # "idle")
      PROVE  n \in Reach(pm, i)
    BY DEF CrashKeepsInserts
  <2>1. n \in Nodes /\ i \in Levels /\ height[n] > i
    <3>1. made \in 0 .. N
      BY <1>0 DEF TypeOK
    <3>2. n \in Nodes
      BY <3>1
    <3>3. height[n] \in 0 .. MaxHeight
      BY <1>0, <3>2 DEF TypeOK
    <3> QED
      BY <3>2, <3>3
  <2>2. n \in On(i)
    BY <2>1 DEF On, Unlinked
  <2>3. Reach(pm, i) \intersect Points \subseteq On(i)
    BY <2>1, NvmInside
  <2>4. \A p \in Reach(pm, i) \intersect Points : pm[p][i] # Torn
    BY ReachClosed
  <2>5. \A p \in Reach(pm, i) \intersect Points :
          Precedes(p, n) =>
            /\ pm[p][i] \in On(i)
            /\ pm[p][i] # n => Precedes(p, pm[p][i]) /\ Precedes(pm[p][i], n)
    BY <2>1, <2>2, <2>3, <2>4, NvmOnTheWay
  <2>6. On(i) \subseteq Points
    BY DEF On
  <2> QED
    BY <1>0, <2>1, <2>5, <2>6, WalkMeets
<1> QED
  BY <1>1, <1>2, <1>3, <1>4 DEF CrashSafe

---------------------------------------------------------------------------
(* The refinement of DurableSet.                                           *)

\* Thread t persists the pointer to its node at level 0, which NVM lacks.
InFlight(t) ==
  pc[t] = "persistPrev" /\ lvl[t] = 0 /\ pm[prev[0]][0] # cur[t]

\* The elements, and those that would survive: all but the one in flight, as
\* long as its pointer is not torn.
SetsAre(t) ==
  /\ Reach(next, 0) \ {Head} = On(0) \ {Head}
  /\ ~InFlight(t) => Reach(pm, 0) \intersect Nodes = On(0) \ {Head}
  /\ InFlight(t) =>
       /\ cur[t] \in On(0) \ {Head}
       /\ Reach(pm, 0) \intersect Nodes \subseteq On(0) \ {Head, cur[t]}
       /\ pm[prev[0]][0] # Torn =>
            Reach(pm, 0) \intersect Nodes = On(0) \ {Head, cur[t]}

LEMMA SetsAreSo ==
  ASSUME NEW t, Threads = {t}, IInv
  PROVE  SetsAre(t)
<1>0. /\ TypeOK /\ KeysDistinct /\ Successors
      /\ 0 \in Levels /\ On(0) \subseteq Points
  BY DEF IInv, FingersFit, On
<1>1. Reach(next, 0) = On(0)
  BY <1>0, WalkMeetsList
<1>2. ASSUME ~InFlight(t)
      PROVE  Reach(pm, 0) \intersect Nodes = On(0) \ {Head}
  <2>1. CASE pc[t] # "persistPrev" \/ lvl[t] # 0
    BY <1>0, <2>1, SettledLevel
  <2>2. CASE pc[t] = "persistPrev" /\ lvl[t] = 0 /\ pm[prev[0]][0] = cur[t]
    <3>1. \A n \in On(0) : pm[n][0] = next[n][0]
      BY <1>0, <2>2, PointerInNvm
    <3>2. Reach(pm, 0) = On(0)
      BY <1>0, <3>1, WalkMeetsList
    <3> QED
      BY <1>0, <3>2
  <2> QED
    BY <1>2, <2>1, <2>2 DEF InFlight
<1>3. ASSUME InFlight(t)
      PROVE  /\ cur[t] \in On(0) \ {Head}
             /\ Reach(pm, 0) \intersect Nodes \subseteq On(0) \ {Head, cur[t]}
             /\ pm[prev[0]][0] # Torn =>
                  Reach(pm, 0) \intersect Nodes = On(0) \ {Head, cur[t]}
  <2> DEFINE c == cur[t]
             p == prev[0]
             S == (On(0) \ {c}) \union {Nil, Torn}
  <2>0. pc[t] = "persistPrev" /\ lvl[t] = 0 /\ t \in Threads
    BY <1>3 DEF InFlight
  <2>1. p \in On(0) /\ next[p][0] = c
    BY <2>0 DEF IInv, OldPointer, LinkPlaces
  <2>2. c \in On(0) /\ c \in Nodes /\ pm[p][0] \in {Torn, next[c][0]}
    BY <1>0, <1>3, <2>1, PointerInNvm DEF InFlight
  <2>3. IsPlace(p, c, 0)
    BY <1>0, <2>1, <2>2 DEF Successors
  <2>4. ASSUME NEW n \in On(0), n # p PROVE pm[n][0] = next[n][0]
    BY <1>0, <2>4, PointerInNvm
  <2>5. ASSUME NEW n \in On(0), n # p PROVE next[n][0] # c
    <3> SUFFICES ASSUME next[n][0] = c PROVE FALSE
      OBVIOUS
    <3>1. IsPlace(n, c, 0)
      BY <1>0, <2>2 DEF Successors
    <3>2. n \in Points /\ p \in Points
      BY <1>0, <2>1
    <3> QED
      BY <1>0, <2>1, <2>3, <2>5, <3>1, <3>2, PrecedesIsOrder DEF IsPlace
  <2>6. next[c][0] # c
    BY <1>0, <2>2, PrecedesIsOrder DEF Successors, IsPlace
  <2>7. ASSUME NEW n \in On(0) \ {c} PROVE pm[n][0] \in S
    <3>1. pm[n][0] # c
      BY <2>2, <2>4, <2>5, <2>6
    <3>2. pm[n][0] \in {Nil, Torn} \/ pm[n][0] \in On(0)
      BY <1>0, NvmInOrder
    <3> QED
      BY <3>1, <3>2
  <2>8. Head \in S /\ \A n \in S \intersect Points : pm[n][0] \in S
    BY <2>2, <2>7 DEF On
  <2>9. Reach(pm, 0) \subseteq S
    <3> HIDE DEF S
    <3> QED
      BY <2>8, ReachInside
  <2>10. Reach(pm, 0) \intersect Nodes \subseteq On(0) \ {Head, c}
    BY <2>9
  <2>11. ASSUME pm[p][0] # Torn, NEW n \in On(0) \ {Head, c}
         PROVE  n \in Reach(pm, 0) \intersect Nodes
    <3>1. n \in Nodes
      BY <1>0
    <3>2. Reach(pm, 0) \intersect Points \subseteq On(0)
      BY <2>9
    <3>3. \A m \in On(0) : pm[m][0] # Torn
      <4>1. \A m \in On(0) : next[m][0] # Torn
        BY <1>0 DEF Successors
      <4> QED
        BY <1>0, <2>4, <2>11, <4>1
    <3>4. \A m \in Reach(pm, 0) \intersect Points :
            Precedes(m, n) =>
              /\ pm[m][0] \in On(0)
              /\ pm[m][0] # n =>
                   Precedes(m, pm[m][0]) /\ Precedes(pm[m][0], n)
      BY <1>0, <3>2, <3>3, NvmOnTheWay
    <3> QED
      BY <1>0, <3>1, <3>4, WalkMeets
  <2> QED
    BY <2>2, <2>10, <2>11
<1> QED
  BY <1>1, <1>2, <1>3 DEF SetsAre

\* An Insert adds its node to the list in one step, and a step that persists
\* makes it durable.
LEMMA DurableStep ==
  ASSUME NEW t, Threads = {t}, IInv, Next, SetsAre(t), SetsAre(t)'
  PROVE  DS!Next \/ UNCHANGED DS!vars
<1> DEFINE contents == Reach(next, 0) \ {Head}
           durable == Reach(pm, 0) \intersect Nodes
<1> USE DEF DS!vars
<1>0. /\ TypeOK /\ NodesMade /\ LinkPlaces /\ NvmLagsByOnePointer
      /\ t \in Threads /\ (\A u \in Threads : u = t) /\ 0 \in Levels
  BY DEF IInv, FingersFit
<1>1. CASE LinkPrev(t) /\ lvl[t] = 0
  <2>1. /\ pc[t] = "linkPrev" /\ pc'[t] = "persistPrev" /\ cur[t] \in Nodes
        /\ UNCHANGED <<pm, prev, lvl, cur>>
        /\ prev[0] \in Points
    BY <1>0, <1>1 DEF LinkPrev, NodesMade, TypeOK
  <2>2. On(0)' = On(0) \union {cur[t]} /\ cur[t] \notin On(0)
    BY <1>0, <1>1, <2>1, OnGrows, NewNodeIsNotOn
  <2>3. pm[prev[0]][0] = next[prev[0]][0]
    BY <1>0, <2>1 DEF NvmLagsByOnePointer
  <2>4. pm[prev[0]][0] # Torn /\ pm[prev[0]][0] # cur[t]
    <3>1. pm[prev[0]][0] \in Points \union {Nil, Garbage}
      BY <1>0, <2>1, <2>3, ValuesTyped
    <3>2. pm[prev[0]][0] # cur[t]
      <4>1. 0 \in 0 .. maxHeight - 1 /\ lvl[t] .. maxHeight - 1 = 0 .. maxHeight - 1
        BY <1>0, <1>1 DEF TypeOK
      <4>2. prev[0] \in On(0)
        BY <1>0, <1>1, <2>1, <4>1 DEF IInv, PlaceFound, IsPlace
      <4>3. next[prev[0]][0] \in On(0) \union {Nil}
        BY <1>0, <4>2 DEF IInv, Successors
      <4> QED
        BY <2>1, <2>2, <2>3, <4>3
    <3> QED
      BY <3>1, <3>2
  <2>5. ~InFlight(t) /\ InFlight(t)' /\ (pm[prev[0]][0] # Torn)'
    BY <1>1, <2>1, <2>4 DEF InFlight
  <2>6. contents = On(0) \ {Head} /\ durable = On(0) \ {Head}
    BY <2>5 DEF SetsAre
  <2>7. /\ contents' = On(0)' \ {Head}
        /\ durable' = On(0)' \ {Head, cur'[t]}
    BY <2>5 DEF SetsAre
  <2>8. DS!Add(cur[t])
    BY <2>1, <2>2, <2>6, <2>7 DEF DS!Add
  <2> QED
    BY <2>1, <2>8 DEF DS!Next
<1>2. ASSUME On(0)' = On(0), ~InFlight(t), ~InFlight(t)'
      PROVE  UNCHANGED <<contents, durable>>
  BY <1>2 DEF SetsAre
<1>3. CASE LinkPrev(t) /\ lvl[t] # 0
  <2>1. /\ pc[t] = "linkPrev" /\ pc'[t] = "persistPrev" /\ lvl' = lvl
        /\ On(0)' = On(0)
    BY <1>0, <1>3, OnGrows DEF LinkPrev, TypeOK
  <2> QED
    BY <1>2, <1>3, <2>1 DEF InFlight
<1>4. CASE PersistPrev(t)
  <2>1. ~InFlight(t)' /\ On(0)' = On(0)
    <3>1. pc'[t] # "persistPrev"
      BY <1>0, <1>4 DEF PersistPrev, NextLevel, TypeOK
    <3>2. ~LinkPrev(t)
      BY <1>4 DEF PersistPrev, NextLevel, LinkPrev
    <3> QED
      BY <1>0, <3>1, <3>2, OnStays DEF InFlight
  <2>2. contents' = contents /\ durable' = contents
    BY <2>1 DEF SetsAre
  <2> QED
    BY <2>2 DEF DS!Next, DS!Persist
<1>5. ASSUME NEW m \in Points, NEW j \in Levels, WriteBack(m, j)
      PROVE  DS!Next \/ UNCHANGED DS!vars
  <2>1. /\ UNCHANGED <<next, prev, pc, cur, lvl, height>>
        /\ On(0)' = On(0)
    BY <1>5 DEF WriteBack, On, Unlinked
  <2>3. CASE ~InFlight(t)'
    <3>1. contents' = contents /\ durable' = contents
      BY <2>1, <2>3 DEF SetsAre
    <3> QED
      BY <3>1 DEF DS!Next, DS!Persist
  <2>4. CASE InFlight(t)'
    <3>1. pc[t] = "persistPrev" /\ lvl[t] = 0 /\ next[prev[0]][0] = cur[t]
      BY <1>0, <2>1, <2>4 DEF InFlight, LinkPlaces
    <3>2. pm[m][j] # next[m][j] => m = prev[0] /\ j = 0
      BY <1>0, <3>1 DEF NvmLagsByOnePointer
    <3>3. m = prev[0] /\ j = 0 /\ pm[prev[0]][0] # cur[t]
      BY <1>5, <3>1, <3>2 DEF WriteBack
    <3>4. pm'[prev[0]][0] = Torn /\ pm[prev[0]][0] # Torn
      BY <1>0, <1>5, <2>1, <2>4, <3>1, <3>3 DEF WriteBack, InFlight, TypeOK
    <3>5. InFlight(t)
      BY <3>1, <3>3 DEF InFlight
    <3>6. /\ contents = On(0) \ {Head} /\ cur[t] \in On(0) \ {Head}
          /\ durable = On(0) \ {Head, cur[t]}
      BY <3>4, <3>5 DEF SetsAre
    <3>7. /\ contents' = On(0) \ {Head}
          /\ durable' \subseteq On(0) \ {Head, cur[t]}
      BY <2>1, <2>4 DEF SetsAre
    <3>8. DS!Tear
      BY <3>6, <3>7 DEF DS!Tear
    <3> QED
      BY <3>8 DEF DS!Next
  <2> QED
    BY <2>3, <2>4
<1>6. CASE \/ StartAtFinger(t) \/ StartFindNextNode(t) \/ StartFindLessThan(t)
           \/ Advance(t) \/ Descend(t) \/ Grow(t) \/ Link(t) \/ PersistNew(t)
  <2>1. /\ pc[t] \notin {"linkPrev", "persistPrev"}
        /\ pc'[t] # "persistPrev"
    BY <1>0, <1>6
       DEF StartAtFinger, StartFindNextNode, StartFindLessThan, Advance,
           Descend, Grow, Link, PersistNew, TypeOK
  <2>2. On(0)' = On(0)
    BY <1>0, <2>1, OnStays DEF LinkPrev
  <2> QED
    BY <1>2, <2>1, <2>2 DEF InFlight
<1> QED
  BY <1>0, <1>1, <1>3, <1>4, <1>5, <1>6 DEF Next, Step

---------------------------------------------------------------------------
(* What follows from the invariant.                                        *)

\* Insert's search from the saved prev_ finds the place of every key.
THEOREM SearchFindsPlace ==
  ASSUME OneThread, KeyingsInject
  PROVE  Spec => []PlaceFound
<1>1. IInv => PlaceFound
  BY DEF IInv
<1> QED
  BY <1>1, ListInvariance, PTL

\* Between two Inserts prev_ is where the next one may start from.
THEOREM FingersAlwaysFit ==
  ASSUME OneThread, KeyingsInject
  PROVE  Spec => []FingersFit
<1>1. IInv => FingersFit
  BY DEF IInv
<1> QED
  BY <1>1, ListInvariance, PTL

\* NVM lags behind the CPU by at most the pointer that is being persisted.
THEOREM OnePointerLags ==
  ASSUME OneThread, KeyingsInject
  PROVE  Spec => []NvmLagsByOnePointer
<1>1. IInv => NvmLagsByOnePointer
  BY DEF IInv
<1> QED
  BY <1>1, ListInvariance, PTL

\* A node behind which a finished Insert has linked its own has its key in NVM.
THEOREM KeysOfPredecessors ==
  ASSUME OneThread, KeyingsInject
  PROVE  Spec => []PredecessorsHaveKeys
<1>1. IInv => PredecessorsHaveKeys
  BY DEF IInv, KeysWritten, PredecessorsHaveKeys
<1> QED
  BY <1>1, ListInvariance, PTL

\* The check of Print never fails: a walk along any level meets the nodes in
\* strict order of their keys.
THEOREM PrintFindsOrder ==
  ASSUME OneThread, KeyingsInject
  PROVE  Spec => []InOrder
<1> PICK t : Threads = {t}
  BY DEF OneThread
<1>1. IInv => InOrder
  BY WalkFacts
<1> QED
  BY <1>1, ListInvariance, PTL

\* Starting from prev_ never cuts a node off: a walk along a level meets every
\* node that is linked there, and no other.
THEOREM WalksMeetEveryNode ==
  ASSUME OneThread, KeyingsInject
  PROVE  Spec => []NothingCutOff
<1> PICK t : Threads = {t}
  BY DEF OneThread
<1>1. IInv => NothingCutOff
  BY WalkFacts
<1> QED
  BY <1>1, ListInvariance, PTL

\* A power failure between any two stores leaves the list in order, and every
\* finished Insert in it.
THEOREM PowerFailureIsSafe ==
  ASSUME OneThread, KeyingsInject
  PROVE  Spec => []CrashSafe
<1> PICK t : Threads = {t}
  BY DEF OneThread
<1>1. IInv => CrashSafe
  BY WalkFacts
<1> QED
  BY <1>1, ListInvariance, PTL

\* The list is a durable set: every step of the code adds an element, persists
\* it, tears it, or leaves the set alone.
THEOREM DurableSetImplemented ==
  ASSUME OneThread, KeyingsInject
  PROVE  Spec => ImplementsDurableSet
<1> PICK t : Threads = {t}
  BY DEF OneThread
<1>1. Init => DS!Init
  <2> SUFFICES ASSUME Init PROVE DS!Init
    OBVIOUS
  <2>1. SetsAre(t)
    BY InitInv, SetsAreSo
  <2>2. ~InFlight(t)
    BY DEF InFlight, Init
  <2>3. On(0) = {Head}
    BY DEF On, Init
  <2> QED
    BY <2>1, <2>2, <2>3 DEF SetsAre, DS!Init
<1>2. IInv => SetsAre(t)
  BY SetsAreSo
<1>3. IInv /\ SetsAre(t) /\ SetsAre(t)' /\ [Next]_vars => [DS!Next]_(DS!vars)
  <2>1. UNCHANGED vars => UNCHANGED DS!vars
    BY DEF DS!vars, Reach
  <2> QED
    BY <2>1, DurableStep
<1> QED
  BY <1>1, <1>2, <1>3, ListInvariance, PTL
     DEF Spec, ImplementsDurableSet, DS!Spec
=============================================================================
