--------------------------- MODULE MemorySkipList ---------------------------
(***************************************************************************)
(* The skip list in DRAM (log_batch.cc).  It belongs to one thread at a    *)
(* time: the writer inserts, then a worker walks it and deletes it.  Each  *)
(* Insert is one action, and its search a function of the list.            *)
(*                                                                         *)
(* A node is the number n of the Insert that made it; key[n] is its key.   *)
(* The domain of next is the set of nodes allocated, Head included, and    *)
(* next[n] has as many pointers as node n has memory for: an access behind *)
(* them is an error of the model.                                          *)
(***************************************************************************)
EXTENDS Integers, SequencesExt

CONSTANTS
  N,          \* number of calls of Insert
  MaxHeight,  \* max_height of the constructor
  Keys        \* the keys, numbers

ASSUME MemoryAssumption ==
  N \in Nat /\ MaxHeight \in Nat \ {0} /\ Keys \subseteq Nat

Head0 == 0  \* head_
Nil == -1   \* nullptr

VARIABLES
  key,        \* the key of every call of Insert so far
  next,       \* next_ of every node
  prev,       \* prev_
  maxHeight,  \* max_height_
  broken,     \* an equal key was copied over a node
  phase,      \* "insert", "delete" or "gone"
  cursor,     \* start, in the destructor
  freed       \* the nodes deleted

vars == <<key, next, prev, maxHeight, broken, phase, cursor, freed>>

Levels == 0 .. MaxHeight - 1

Init ==
  /\ key = <<>>
  /\ next = [n \in {Head0} |-> [i \in Levels |-> Nil]]
  /\ prev = [i \in Levels |-> Head0]
  /\ maxHeight = 1
  /\ broken = FALSE
  /\ phase = "insert" /\ cursor = Nil /\ freed = {}

---------------------------------------------------------------------------
(* Insert.                                                                 *)

\* KeyIsAfterNode and CompareKeyAndNode; the key " " of the head is below all.
Below(n, k) == n # Head0 => key[n] < k
Equal(n, k) == n # Head0 /\ key[n] = k

\* The nodes that have a pointer at level i.
AtLevel(i) == {n \in DOMAIN next : i \in DOMAIN next[n]}

\* The loop of FindLessThan and FindNextNode on one level: to the right from
\* node y, while the next key is below k.
Right(k, i) ==
  LET last[y \in AtLevel(i)] ==
        LET q == next[y][i]
        IN IF q # Nil /\ Below(q, k) THEN last[q] ELSE y
  IN last

\* The whole loop: right, then down, from node x at the highest level in use.
Search(k, x) ==
  LET place[i \in 0 .. maxHeight - 1] ==
        Right(k, i)[IF i = maxHeight - 1 THEN x ELSE place[i + 1]]
  IN [i \in Levels |-> IF i < maxHeight THEN place[i] ELSE prev[i]]

Successor == next[prev[0]][0]

\* Mutant: the successor of prev_[0] is not compared with.
PlaceBehindFinger(k) == IF Below(prev[0], k) THEN prev ELSE Search(k, Head0)

\* prev_ after the comparisons of Insert and the search they call for.
Place(k) ==
  IF ~Below(prev[0], k) THEN Search(k, Head0)
  ELSE IF Successor # Nil /\ Below(Successor, k)
       THEN Search(k, prev[maxHeight - 1])
       ELSE prev

SameNode(k) ==
  \/ Equal(prev[0], k)
  \/ Below(prev[0], k) /\ Successor # Nil /\ Equal(Successor, k)

\* The key is copied over prev_[0], its pointers included.  Whatever comes next
\* reads them; the model ends here.
Overwrite(k) ==
  /\ phase = "insert" /\ ~broken /\ Len(key) < N
  /\ SameNode(k)
  /\ key' = Append(key, k) /\ broken' = TRUE
  /\ UNCHANGED <<next, prev, maxHeight, phase, cursor, freed>>

\* prev_ when the new node, of height h, is linked.
Fingers(k, h) ==
  [i \in Levels |-> IF maxHeight <= i /\ i < h THEN Head0 ELSE Place(k)[i]]

\* x->SetNext and prev_[i]->SetNext, for every level of the new node n.
Linked(n, h, at) ==
  [m \in DOMAIN next \union {n} |->
     IF m = n THEN [i \in 0 .. h - 1 |-> next[at[i]][i]]
     ELSE [i \in DOMAIN next[m] |->
             IF i < h /\ at[i] = m THEN n ELSE next[m][i]]]

\* Mutant: only prev_[0] is moved to the new node, after the loop.
InsertBottomFinger(k, h) ==
  LET n == Len(key) + 1
  IN /\ phase = "insert" /\ ~broken /\ n <= N /\ ~SameNode(k)
     /\ key' = Append(key, k)
     /\ next' = Linked(n, h, Fingers(k, h))
     /\ prev' = [Fingers(k, h) EXCEPT ![0] = n]
     /\ maxHeight' = IF h > maxHeight THEN h ELSE maxHeight
  /\ UNCHANGED <<broken, phase, cursor, freed>>

\* A new node, of height h.
Insert(k, h) ==
  LET n == Len(key) + 1
  IN /\ phase = "insert" /\ ~broken /\ n <= N /\ ~SameNode(k)
     /\ key' = Append(key, k)
     /\ next' = Linked(n, h, Fingers(k, h))
     /\ prev' = [i \in Levels |-> IF i < h THEN n ELSE Fingers(k, h)[i]]
     /\ maxHeight' = IF h > maxHeight THEN h ELSE maxHeight
  /\ UNCHANGED <<broken, phase, cursor, freed>>

---------------------------------------------------------------------------
(* The destructor.                                                         *)

StartDelete ==
  /\ phase = "insert" /\ ~broken
  /\ phase' = "delete" /\ cursor' = next[Head0][0]
  /\ UNCHANGED <<key, next, prev, maxHeight, broken, freed>>

\* Mutant: the walk goes along the second level.
DeleteTall ==
  /\ phase = "delete" /\ cursor # Nil
  /\ freed' = freed \union {cursor}
  /\ cursor' = IF 1 \in DOMAIN next[cursor] THEN next[cursor][1] ELSE Nil
  /\ UNCHANGED <<key, next, prev, maxHeight, broken, phase>>

\* tmp = start, start = start->Next(0), delete tmp.
DeleteNode ==
  /\ phase = "delete" /\ cursor # Nil
  /\ freed' = freed \union {cursor}
  /\ cursor' = next[cursor][0]
  /\ UNCHANGED <<key, next, prev, maxHeight, broken, phase>>

\* delete head_.
DeleteHead ==
  /\ phase = "delete" /\ cursor = Nil
  /\ phase' = "gone" /\ freed' = freed \union {Head0}
  /\ UNCHANGED <<key, next, prev, maxHeight, broken, cursor>>

Next ==
  \/ \E k \in Keys : Overwrite(k) \/ \E h \in 1 .. MaxHeight : Insert(k, h)
  \/ StartDelete \/ DeleteNode \/ DeleteHead

Spec == Init /\ [][Next]_vars
---------------------------------------------------------------------------
(* Properties.                                                             *)

TypeOK ==
  /\ key \in Seq(Keys) /\ Len(key) <= N
  /\ \A n \in DOMAIN next : \A i \in DOMAIN next[n] :
       next[n][i] \in AtLevel(i) \union {Nil}
  /\ prev \in [Levels -> DOMAIN next]
  /\ maxHeight \in 1 .. MaxHeight
  /\ broken \in BOOLEAN
  /\ phase \in {"insert", "delete", "gone"}
  /\ cursor \in DOMAIN next \union {Nil}
  /\ freed \subseteq DOMAIN next

\* The order of the nodes: the head, then by key, of equal keys the later one
\* first.
Precedes(m, n) ==
  n # Head0 /\ (m # Head0 => key[m] < key[n] \/ (key[m] = key[n] /\ m > n))

\* The nodes met along level i, as FlushNVM::Run meets them at level 0.
Walk(i) ==
  LET from[n \in AtLevel(i) \union {Nil}] ==
        IF n = Nil THEN <<>> ELSE <<n>> \o from[next[n][i]]
  IN from[next[Head0][i]]

\* No pointer leaves its level, and a walk along a level meets exactly the
\* nodes that are high enough, each once, in order.
LevelsSorted ==
  /\ TypeOK
  /\ \A i \in Levels :
       /\ ToSet(Walk(i)) = AtLevel(i) \ {Head0}
       /\ \A a, b \in DOMAIN Walk(i) :
            a < b => Precedes(Walk(i)[a], Walk(i)[b])

\* Whatever key comes next, starting from prev_, or not searching at all,
\* finds the same place at every level as a search from the head.
ShortcutIsSound ==
  phase = "insert" /\ ~broken =>
    \A k \in Keys : ~SameNode(k) => Place(k) = Search(k, Head0)

\* The destructor deletes every node, and reads none that it has deleted.
DeletesEachNodeOnce ==
  /\ cursor \notin freed
  /\ phase = "gone" => freed = DOMAIN next

---------------------------------------------------------------------------
(* The inductive invariant: what the pointers and prev_ are, without walks *)
(* and searches.                                                           *)

\* Every Insert that did not overwrite a node has made one.
NodesMade ==
  /\ DOMAIN next = 0 .. IF broken THEN Len(key) - 1 ELSE Len(key)
  /\ DOMAIN next[Head0] = Levels
  /\ \A n \in DOMAIN next \ {Head0} :
       \E h \in 1 .. maxHeight : DOMAIN next[n] = 0 .. h - 1

\* On each level a pointer leads to the next node in order, the last to none.
Successors ==
  \A i \in Levels : \A p \in AtLevel(i) :
    \/ next[p][i] = Nil /\ \A m \in AtLevel(i) : ~Precedes(p, m)
    \/ /\ next[p][i] \in AtLevel(i) /\ Precedes(p, next[p][i])
       /\ \A m \in AtLevel(i) : Precedes(p, m) => ~Precedes(m, next[p][i])

\* prev_[i] is the last node of level i that is not behind prev_[0].
FingersFit ==
  \A i \in Levels :
    IF i < maxHeight
    THEN /\ prev[i] \in AtLevel(i) /\ ~Precedes(prev[0], prev[i])
         /\ \A m \in AtLevel(i) : Precedes(prev[i], m) => Precedes(prev[0], m)
    ELSE prev[i] = Head0

\* The destructor has deleted the nodes before cursor.
DeletedSoFar ==
  /\ phase = "insert" => cursor = Nil /\ freed = {}
  /\ phase = "delete" =>
       /\ ~broken /\ cursor # Head0
       /\ freed = {n \in DOMAIN next \ {Head0} :
                     cursor # Nil => Precedes(n, cursor)}
  /\ phase = "gone" => cursor = Nil /\ freed = DOMAIN next

IInv == TypeOK /\ NodesMade /\ Successors /\ FingersFit /\ DeletedSoFar
============================================================================
