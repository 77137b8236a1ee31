------------------------- MODULE PersistentSkipList -------------------------
(***************************************************************************)
(* The skip list in NVM (persistent_skip_list.cc).  Insert looks for the   *)
(* place of a key starting from prev_, the predecessors that the last      *)
(* Insert left, and only goes back to the head for a smaller key.  The new *)
(* node is then linked level by level; each pointer is stored and then     *)
(* persisted (SetNext).                                                    *)
(*                                                                         *)
(* A node is the number n of the Insert that made it, key[n] is its key.   *)
(* next is what the CPU sees, pm what a power failure leaves: a store gets *)
(* to pm when it is persisted, or earlier, when the cache writes it back.  *)
(* The allocator gives the key " " of the head one byte, so that every     *)
(* node after it is misaligned: a pointer may lie across two cache lines,  *)
(* and then half of it may be written back.                                *)
(*                                                                         *)
(* Nothing locks the list.  Threads are the threads that call Insert: one  *)
(* is what the list is made for, and FlushPipeline reaches states in which *)
(* two CallThreads are inside FlushNVM::Run.                               *)
(*                                                                         *)
(* The first access of Insert (Comparisons), a step of the search, and the *)
(* choice of the height are each one action.                               *)
(***************************************************************************)
EXTENDS Integers

CONSTANTS
  Threads,    \* threads that call Insert
  N,          \* number of calls of Insert
  MaxHeight,  \* max_height of the constructor
  Keyings     \* the key functions considered, [1 .. N -> Nat]

ASSUME SkipListAssumption ==
  /\ Threads # {}
  /\ N \in Nat
  /\ MaxHeight \in Nat \ {0}
  /\ Keyings \subseteq [1 .. N -> Nat]

Head == 0
Nil == -1      \* nullptr
Garbage == -2  \* what next_ holds in fresh memory
Torn == -3     \* half of a pointer's new value, half of its old one

Nodes == 1 .. N
Points == Nodes \union {Head}
Levels == 0 .. MaxHeight - 1

VARIABLES
  key,        \* key[n] is the key of the n-th Insert
  made,       \* calls of Insert so far
  height,     \* height of a node, 0 before it is allocated
  next,       \* next_ of every node
  pm,         \* next_ of every node in NVM
  keyDurable, \* nodes whose key_ is certainly in NVM
  prev,       \* prev_
  maxHeight,  \* max_height_
  pc,         \* where each thread is
  cur,        \* the node it inserts
  x,          \* where its search is
  lvl         \* the level its loop is at

listVars   == <<height, next, prev, maxHeight>>
threadVars == <<pc, cur, x, lvl>>
nvmVars    == <<pm, keyDurable>>
vars == <<key, made, listVars, nvmVars, threadVars>>

PCs == {"idle", "search", "grow", "link", "persistNew", "linkPrev",
        "persistPrev"}

\* Persistent_SkipList::Persistent_SkipList.
Init ==
  /\ key \in Keyings
  /\ made = 0
  /\ height = [n \in Nodes |-> 0]
  /\ next = [n \in Points |->
               [i \in Levels |-> IF n = Head THEN Nil ELSE Garbage]]
  /\ pm = next
  /\ keyDurable = {}
  /\ prev = [i \in Levels |-> Head]
  /\ maxHeight = 1
  /\ pc = [t \in Threads |-> "idle"]
  /\ cur = [t \in Threads |-> 0]
  /\ x = [t \in Threads |-> Head]
  /\ lvl = [t \in Threads |-> 0]

Goes(t, from, to) == pc[t] = from /\ pc' = [pc EXCEPT ![t] = to]

\* CompareKeyAndNode: the key of the head, " ", is below every key.
KeyBelow(p, n) == p # Head => key[p] < key[n]
KeyEqual(p, n) == p # Head /\ key[p] = key[n]

---------------------------------------------------------------------------
(* The comparisons at the start of Insert.                                 *)

\* A mutant: the successor of prev_[0] is not looked at.
AnywhereBehindFinger(t) ==
  /\ Goes(t, "idle", "grow")
  /\ made < N
  /\ KeyBelow(prev[0], made + 1)
  /\ cur' = [cur EXCEPT ![t] = made + 1]
  /\ made' = made + 1
  /\ UNCHANGED <<key, listVars, nvmVars, x, lvl>>

\* The key belongs right behind prev_[0], or is equal to a neighbour (the
\* "impossible" cases, after which Insert goes on all the same).
StartAtFinger(t) ==
  /\ Goes(t, "idle", "grow")
  /\ made < N
  /\ LET n == made + 1
         p == prev[0]
         q == next[p][0]
     IN /\ \/ KeyBelow(p, n) /\ (q # Nil => key[n] < key[q])
           \/ KeyBelow(p, n) /\ q # Nil /\ KeyEqual(q, n)
           \/ KeyEqual(p, n)
        /\ cur' = [cur EXCEPT ![t] = n]
        /\ made' = n
  /\ UNCHANGED <<key, listVars, nvmVars, x, lvl>>

\* A mutant: the search goes along the bottom level only.
SearchBottomLevel(t) ==
  /\ Goes(t, "idle", "search")
  /\ made < N
  /\ LET q == next[prev[0]][0]
     IN q # Nil /\ KeyBelow(q, made + 1)
  /\ cur' = [cur EXCEPT ![t] = made + 1]
  /\ made' = made + 1
  /\ lvl' = [lvl EXCEPT ![t] = 0]
  /\ x' = [x EXCEPT ![t] = prev[0]]
  /\ UNCHANGED <<key, listVars, nvmVars>>

\* FindNextNode, called when the key is behind prev_[0] and its successor.
StartFindNextNode(t) ==
  /\ Goes(t, "idle", "search")
  /\ made < N
  /\ LET n == made + 1
         p == prev[0]
         q == next[p][0]
     IN /\ KeyBelow(p, n) /\ q # Nil /\ KeyBelow(q, n)
        /\ cur' = [cur EXCEPT ![t] = n]
        /\ made' = n
  /\ lvl' = [lvl EXCEPT ![t] = maxHeight - 1]
  /\ x' = [x EXCEPT ![t] = prev[maxHeight - 1]]
  /\ UNCHANGED <<key, listVars, nvmVars>>

\* FindLessThan, called when the key is before prev_[0].
StartFindLessThan(t) ==
  /\ Goes(t, "idle", "search")
  /\ made < N
  /\ LET n == made + 1
     IN /\ ~KeyBelow(prev[0], n) /\ ~KeyEqual(prev[0], n)
        /\ cur' = [cur EXCEPT ![t] = n]
        /\ made' = n
  /\ lvl' = [lvl EXCEPT ![t] = maxHeight - 1]
  /\ x' = [x EXCEPT ![t] = Head]
  /\ UNCHANGED <<key, listVars, nvmVars>>

---------------------------------------------------------------------------
(* The loop that FindNextNode and FindLessThan share.                      *)

\* A mutant: the loop reads next from the node it started at.
AdvanceNowhere(t) ==
  /\ pc[t] = "search"
  /\ LET q == next[x[t]][lvl[t]]
     IN q # Nil /\ KeyBelow(q, cur[t])
  /\ UNCHANGED vars

\* KeyIsAfterNode(key, next): go right.
Advance(t) ==
  /\ pc[t] = "search"
  /\ LET q == next[x[t]][lvl[t]]
     IN /\ q # Nil /\ KeyBelow(q, cur[t])
        /\ x' = [x EXCEPT ![t] = q]
  /\ UNCHANGED <<key, made, listVars, nvmVars, pc, cur, lvl>>

\* prev[i] = x, then one level down.
Descend(t) ==
  /\ Goes(t, "search", IF lvl[t] = 0 THEN "grow" ELSE "search")
  /\ LET q == next[x[t]][lvl[t]]
     IN q # Nil => ~KeyBelow(q, cur[t])
  /\ prev' = [prev EXCEPT ![lvl[t]] = x[t]]
  /\ lvl' = [lvl EXCEPT ![t] = IF @ = 0 THEN 0 ELSE @ - 1]
  /\ UNCHANGED <<key, made, height, next, maxHeight, nvmVars, cur, x>>

---------------------------------------------------------------------------
(* The new node.                                                           *)

\* RandomHeight, max_height_ and NewNode.
Grow(t) ==
  /\ Goes(t, "grow", "link")
  /\ \E h \in 1 .. MaxHeight :
       /\ height' = [height EXCEPT ![cur[t]] = h]
       /\ prev' = [i \in Levels |->
                     IF maxHeight <= i /\ i < h THEN Head ELSE prev[i]]
       /\ maxHeight' = IF h > maxHeight THEN h ELSE maxHeight
  /\ lvl' = [lvl EXCEPT ![t] = 0]
  /\ UNCHANGED <<key, made, next, nvmVars, cur, x>>

\* A mutant: the successor is not carried over.
LinkToNothing(t) ==
  /\ Goes(t, "link", "persistNew")
  /\ next' = [next EXCEPT ![cur[t]][lvl[t]] = Nil]
  /\ UNCHANGED <<key, made, height, prev, maxHeight, nvmVars, cur, x, lvl>>

\* next_[n] = next, the store of x->SetNext.
Link(t) ==
  /\ Goes(t, "link", "persistNew")
  /\ next' = [next EXCEPT ![cur[t]][lvl[t]] = next[prev[lvl[t]]][lvl[t]]]
  /\ UNCHANGED <<key, made, height, prev, maxHeight, nvmVars, cur, x, lvl>>

\* A mutant: x->SetNext does not persist.
PersistNewForgotten(t) ==
  /\ Goes(t, "persistNew", "linkPrev")
  /\ UNCHANGED <<key, made, listVars, nvmVars, cur, x, lvl>>

\* pmem_persist in x->SetNext.
PersistNew(t) ==
  /\ Goes(t, "persistNew", "linkPrev")
  /\ pm' = [pm EXCEPT ![cur[t]][lvl[t]] = next[cur[t]][lvl[t]]]
  /\ UNCHANGED <<key, made, listVars, keyDurable, cur, x, lvl>>

\* The store of prev_[i]->SetNext.
LinkPrev(t) ==
  /\ Goes(t, "linkPrev", "persistPrev")
  /\ next' = [next EXCEPT ![prev[lvl[t]]][lvl[t]] = cur[t]]
  /\ UNCHANGED <<key, made, height, prev, maxHeight, nvmVars, cur, x, lvl>>

\* The end of an iteration of the loop over the levels.
NextLevel(t) ==
  LET top == lvl[t] + 1 = height[cur[t]]
  IN /\ Goes(t, "persistPrev", IF top THEN "idle" ELSE "link")
     /\ lvl' = [lvl EXCEPT ![t] = IF top THEN 0 ELSE @ + 1]

\* Mutants: the pointer is not persisted; x is persisted in place of
\* prev_[i]; the statement after the loop, prev_[0] = x, instead of the one
\* in it.
PersistPrevForgotten(t) ==
  /\ NextLevel(t)
  /\ keyDurable' = keyDurable \union {prev[lvl[t]]}
  /\ prev' = [prev EXCEPT ![lvl[t]] = cur[t]]
  /\ UNCHANGED <<key, made, height, next, pm, maxHeight, cur, x>>

PersistWrongNode(t) ==
  /\ NextLevel(t)
  /\ pm' = [pm EXCEPT ![prev[lvl[t]]][lvl[t]] = next[prev[lvl[t]]][lvl[t]]]
  /\ keyDurable' = keyDurable \union {cur[t]}
  /\ prev' = [prev EXCEPT ![lvl[t]] = cur[t]]
  /\ UNCHANGED <<key, made, height, next, maxHeight, cur, x>>

OnlyBottomFinger(t) ==
  /\ NextLevel(t)
  /\ pm' = [pm EXCEPT ![prev[lvl[t]]][lvl[t]] = next[prev[lvl[t]]][lvl[t]]]
  /\ keyDurable' = keyDurable \union {prev[lvl[t]]}
  /\ prev' = [prev EXCEPT ![0] = IF lvl[t] + 1 = height[cur[t]] THEN cur[t]
                                  ELSE @]
  /\ UNCHANGED <<key, made, height, next, maxHeight, cur, x>>

\* pmem_persist in prev_[i]->SetNext; the pmem_persist of prev_[i] itself,
\* whose first word is key_; then prev_[i] = x and the next level.
PersistPrev(t) ==
  /\ NextLevel(t)
  /\ LET i == lvl[t]
     IN /\ pm' = [pm EXCEPT ![prev[i]][i] = next[prev[i]][i]]
        /\ keyDurable' = keyDurable \union {prev[i]}
        /\ prev' = [prev EXCEPT ![i] = cur[t]]
  /\ UNCHANGED <<key, made, height, next, maxHeight, cur, x>>

\* The cache may write a stored pointer back before it is persisted, the
\* whole of it or one of the two lines it is on.
WriteBack(n, i) ==
  /\ pm[n][i] # next[n][i]
  /\ \E value \in {next[n][i], Torn} :
       /\ value # pm[n][i]
       /\ pm' = [pm EXCEPT ![n][i] = value]
  /\ UNCHANGED <<key, made, listVars, keyDurable, threadVars>>

---------------------------------------------------------------------------
Step(t) ==
  \/ StartAtFinger(t) \/ StartFindNextNode(t) \/ StartFindLessThan(t)
  \/ Advance(t) \/ Descend(t) \/ Grow(t)
  \/ Link(t) \/ PersistNew(t) \/ LinkPrev(t) \/ PersistPrev(t)

Next ==
  \/ \E t \in Threads : Step(t)
  \/ \E n \in Points, i \in Levels : WriteBack(n, i)

Spec == Init /\ [][Next]_vars

\* A thread that is inside Insert, or has keys left to insert, goes on.
FairSpec == Spec /\ \A t \in Threads : WF_vars(Step(t))
---------------------------------------------------------------------------
(* The lists, as pointers and as sets.                                     *)

\* The nodes that a walk along level i meets in an image of the list, which
\* is next or pm.
Reach(image, i) ==
  LET met[k \in 0 .. N + 1] ==
        IF k = 0 THEN {Head}
        ELSE met[k - 1] \union {image[n][i] : n \in met[k - 1] \intersect Points}
  IN met[N + 1] \ {Nil}

Precedes(m, n) == n # Head /\ KeyBelow(m, n)

\* The walk along every level of an image meets nodes only, in strict order.
\* The pointers of the set broken may lead nowhere.
OrderedBut(image, broken) ==
  \A i \in Levels : \A n \in Reach(image, i) \ broken :
    /\ n \in Points
    /\ image[n][i] \in Nodes => Precedes(n, image[n][i])
    /\ image[n][i] \in Nodes \union {Nil} \union broken

\* Thread t has yet to link node n at level i.
Unlinked(t, n, i) ==
  /\ cur[t] = n
  /\ \/ pc[t] \in {"link", "persistNew", "linkPrev"} /\ lvl[t] <= i
     \/ pc[t] = "persistPrev" /\ lvl[t] < i

\* The nodes that belong to the list of level i.
On(i) ==
  {Head} \union
  {n \in Nodes : height[n] > i /\ \A t \in Threads : ~Unlinked(t, n, i)}

\* No node of level i lies between p and node n.
IsPlace(p, n, i) ==
  /\ p \in On(i) /\ Precedes(p, n)
  /\ \A m \in On(i) : Precedes(p, m) => ~Precedes(m, n)

---------------------------------------------------------------------------
(* Safety.                                                                 *)

TypeOK ==
  /\ key \in [Nodes -> Nat]
  /\ made \in 0 .. N
  /\ height \in [Nodes -> 0 .. MaxHeight]
  /\ next \in [Points -> [Levels -> Points \union {Nil, Garbage}]]
  /\ pm \in [Points -> [Levels -> Points \union {Nil, Garbage, Torn}]]
  /\ keyDurable \subseteq Points
  /\ prev \in [Levels -> Points]
  /\ maxHeight \in 1 .. MaxHeight
  /\ pc \in [Threads -> PCs]
  /\ cur \in [Threads -> Points]
  /\ x \in [Threads -> Points]
  /\ lvl \in [Threads -> Levels]

\* persistent_skip_list.cc:227, "error: DRAM skiplist is not in order!!!":
\* the check of Print never fails, at any level, while keys are distinct.
InOrder == OrderedBut(next, {})

\* Every node is met by a walk along each of its levels as soon as it is
\* linked there: searching from the saved prev_ never cuts nodes off.
NothingCutOff == \A i \in Levels : Reach(next, i) = On(i)

\* A pointer in NVM is behind the one the CPU sees only while an Insert is
\* between its store and its pmem_persist.
NvmLagsByOnePointer ==
  \A n \in Points, i \in Levels :
    pm[n][i] # next[n][i] =>
      \E t \in Threads :
        /\ i = lvl[t]
        /\ \/ pc[t] = "persistNew" /\ n = cur[t]
           \/ pc[t] = "persistPrev" /\ n = prev[i]

\* After a power failure between any two stores, the walk along a level of
\* the list in NVM meets the nodes of finished Inserts in order, and no
\* memory that was never initialised; it ends at a torn pointer at worst.
CrashLeavesOrder == OrderedBut(pm, {Torn})

\* A finished Insert survives the power failure at each of its levels, except
\* on a level where an Insert in progress has left a torn pointer.
CrashKeepsInserts ==
  \A n \in 1 .. made : \A i \in 0 .. height[n] - 1 :
    \/ n \in Reach(pm, i)
    \/ Torn \in Reach(pm, i)
    \/ \E t \in Threads : cur[t] = n /\ pc[t] # "idle"

\* Both of what a power failure may not do (persistent_skip_list.cc:174-183).
CrashSafe == CrashLeavesOrder /\ CrashKeepsInserts

\* NewNode does not persist key_.  What is certain is that a node behind which
\* a later Insert has linked its own has its key_ in NVM.
PredecessorsHaveKeys ==
  \A n \in Points : \A i \in Levels :
    /\ pm[n][i] \in Nodes /\ pm[n][i] > n
    /\ \A t \in Threads : cur[t] = pm[n][i] => pc[t] = "idle"
    => n \in keyDurable

\* The variables have their types and, between two Inserts, prev_[i] is the
\* last node of level i that is not behind prev_[0], which is what lets the
\* next Insert start from there.
FingersFit ==
  /\ TypeOK
  /\ (\A t \in Threads : pc[t] = "idle") =>
       \A i \in 0 .. maxHeight - 1 :
         /\ prev[i] \in On(i) /\ ~Precedes(prev[0], prev[i])
         /\ \A m \in On(i) : Precedes(prev[i], m) => Precedes(prev[0], m)

\* When the search is over, whichever of the three ways it took, prev_[i] is
\* the place of the new node at each level that is not linked yet.
PlaceFound ==
  \A t \in Threads :
    pc[t] \in {"grow", "link", "persistNew", "linkPrev"} =>
      \A i \in (IF pc[t] = "grow" THEN 0 ELSE lvl[t]) .. maxHeight - 1 :
        IsPlace(prev[i], cur[t], i)

---------------------------------------------------------------------------
(* The inductive invariant of one thread that inserts distinct keys.       *)
(* It says nothing of walks: what they meet follows from it.               *)

OneThread == \E t : Threads = {t}

KeyingsInject == \A k \in Keyings : \A m, n \in Nodes : k[m] = k[n] => m = n

KeysDistinct == \A m, n \in Nodes : key[m] = key[n] => m = n

\* The node of an Insert in progress is the last one made, its height is
\* drawn when its place has been found, and every level it is to be linked
\* at is in use.
NodesMade ==
  /\ \A n \in Nodes : height[n] <= maxHeight /\ (height[n] > 0 => n <= made)
  /\ \A t \in Threads :
       /\ pc[t] # "idle" => cur[t] = made /\ made > 0
       /\ pc[t] \in {"search", "grow"} => height[cur[t]] = 0
       /\ pc[t] = "search" => lvl[t] < maxHeight
       /\ pc[t] \in {"link", "persistNew", "linkPrev", "persistPrev"} =>
            lvl[t] < height[cur[t]]

\* On each level a pointer leads to the next node in order, the last to none.
Successors ==
  \A i \in Levels : \A p \in On(i) :
    \/ next[p][i] = Nil /\ \A m \in On(i) : ~Precedes(p, m)
    \/ next[p][i] \in On(i) /\ IsPlace(p, next[p][i], i)

\* A search is at a node of its level before the new one, and has left the
\* place of the new node in prev_ on the levels above.
SearchPlaces ==
  \A t \in Threads : pc[t] = "search" =>
    /\ Precedes(x[t], cur[t])
    /\ \A i \in Levels :
         /\ i = lvl[t] => x[t] \in On(i)
         /\ lvl[t] < i /\ i < maxHeight => IsPlace(prev[i], cur[t], i)

\* While the new node is being linked, prev_ has it on the levels that are
\* done and its place on those to come.
LinkPlaces ==
  \A t \in Threads :
    /\ pc[t] \in {"link", "persistNew", "linkPrev", "persistPrev"} =>
         \A i \in 0 .. lvl[t] - 1 : prev[i] = cur[t]
    /\ pc[t] \in {"persistNew", "linkPrev"} =>
         next[cur[t]][lvl[t]] = next[prev[lvl[t]]][lvl[t]]
    /\ pc[t] = "persistPrev" =>
         /\ next[prev[lvl[t]]][lvl[t]] = cur[t]
         /\ \A i \in lvl[t] + 1 .. maxHeight - 1 : IsPlace(prev[i], cur[t], i)

\* A pointer to a later node was stored by prev_[i]->SetNext; the persist of
\* prev_[i] comes after that of the pointer.
KeysWritten ==
  \A n \in Points, i \in Levels :
    LET Pending(t) == pc[t] = "persistPrev" /\ n = prev[i] /\ i = lvl[t]
    IN  /\ next[n][i] \in Nodes /\ next[n][i] > n =>
             n \in keyDurable \/ \E t \in Threads : Pending(t)
        /\ pm[n][i] \in Nodes /\ pm[n][i] > n =>
             \/ n \in keyDurable
             \/ \E t \in Threads : Pending(t) /\ pm[n][i] = cur[t]

\* While the pointer of prev_[i] to the new node is persisted, it is torn in
\* NVM, or still leads to the node behind the new one.
OldPointer ==
  \A t \in Threads : pc[t] = "persistPrev" =>
    /\ prev[lvl[t]] \in On(lvl[t])
    /\ pm[prev[lvl[t]]][lvl[t]] \in {cur[t], Torn, next[cur[t]][lvl[t]]}

IInv ==
  /\ FingersFit /\ KeysDistinct /\ NodesMade /\ Successors /\ SearchPlaces
  /\ PlaceFound /\ LinkPlaces /\ NvmLagsByOnePointer /\ KeysWritten
  /\ OldPointer

---------------------------------------------------------------------------
(* The list implements a durable set.                                      *)

DS == INSTANCE DurableSet
        WITH contents <- Reach(next, 0) \ {Head},
             durable <- Reach(pm, 0) \intersect Nodes

\* An Insert adds one node to the list at one point, and the node survives a
\* power failure before the next one is added.
ImplementsDurableSet == DS!Spec

---------------------------------------------------------------------------
(* Liveness, under FairSpec: the search always ends, so every Insert does. *)

EveryInsertEnds == <>(made = N /\ \A t \in Threads : pc[t] = "idle")
============================================================================
