--------------------------- MODULE LogFilesProofs ---------------------------
(***************************************************************************)
(* Proofs about LogFiles, for any sizes, any number of keys and any first  *)
(* number of the word: what a log file covers, and when it is too small.   *)
(* There is one lemma per part of the invariant.                           *)
(***************************************************************************)
EXTENDS LogFiles, TLAPS

USE LogAssumption

\* What a write to the log changes in the files.
LEMMA WriteFacts ==
  ASSUME WriteLog
  PROVE  /\ DOMAIN file' = DOMAIN file \union {<<log[current], used + 1>>}
         /\ file'[<<log[current], used + 1>>] = ops + 1
         /\ \A p \in DOMAIN file : p # <<log[current], used + 1>> => file'[p] = file[p]
         /\ UNCHANGED <<ops, number, current, log, keys, maxSize, size, capacity, waiting>>
         /\ used' = used + 1 /\ pc' = "insert"
         /\ ops < OpsNum /\ pc = "log"
BY DEF WriteLog, Override

\* What handing a list over changes in the lists.
LEMMA FlushFacts ==
  ASSUME Flush
  PROVE  /\ DOMAIN keys' = DOMAIN keys \union {current + 1}
         /\ keys'[current + 1] = {}
         /\ \A g \in DOMAIN keys : g # current + 1 => keys'[g] = keys[g]
         /\ DOMAIN log' = DOMAIN log \union {current + 1}
         /\ \A g \in DOMAIN log : g # current + 1 => log'[g] = log[g]
         /\ UNCHANGED <<ops, maxSize, file>> /\ pc \in {"flush", "log"}
         /\ current' = current + 1 /\ waiting' = waiting \union {current}
         /\ number' = NextNumber(number) /\ pc' \in {"log", "done"}
         /\ size' = 0 /\ used' = 0 /\ capacity' = maxSize + Slack
BY DEF Flush, Realloc, Override

\* A number stays a number of the word.
LEMMA NumberInWord == \A n \in Nat : NextNumber(n) \in 0 .. Word - 1
<1> SUFFICES ASSUME NEW n \in Nat PROVE (n + 1) % Word \in 0 .. Word - 1
  BY DEF NextNumber
<1>1. Word \in Nat /\ Word > 0 /\ n + 1 \in Nat
  OBVIOUS
<1> QED
  BY <1>1

\* The invariant holds at first.
LEMMA InitInv == Init => IInv
<1> SUFFICES ASSUME Init PROVE IInv
  OBVIOUS
<1>1. PICK n \in FirstNumbers : number = NextNumber(n)
  BY DEF Init
<1>2. number \in 0 .. Word - 1
  BY <1>1, NumberInWord
<1>3. /\ current = 1 /\ DOMAIN keys = {1} /\ keys[1] = {} /\ DOMAIN log = {1}
      /\ DOMAIN file = {} /\ ops = 0 /\ size = 0 /\ used = 0 /\ waiting = {}
      /\ pc = "log" /\ maxSize \in LogSizes /\ maxSize \in Nat
      /\ capacity = DefaultSize + Slack
  BY DEF Init
<1>4. TypeOK
  BY <1>2, <1>3 DEF TypeOK
<1> QED
  BY <1>3, <1>4 DEF IInv, LoggedLast, CurrentNewest, Covered, CurrentPlaced, SizeCounted

\* A product grows with its factor.
LEMMA Times ==
  ASSUME NEW a \in Nat, NEW b \in Nat, a >= b
  PROVE  a * KeyBytes >= b * KeyBytes
<1>1. a - b \in Nat /\ KeyBytes \in Nat
  OBVIOUS
<1>2. (a - b) * KeyBytes \in Nat
  BY <1>1
<1>3. (a - b) * KeyBytes = a * KeyBytes - b * KeyBytes
  OBVIOUS
<1> QED
  BY <1>2, <1>3

\* A quotient, bounded from both sides.
LEMMA Quotient ==
  ASSUME NEW a \in Nat, NEW b \in Nat \ {0}
  PROVE  /\ a \div b \in Nat
         /\ (a \div b) * b <= a /\ a < (a \div b) * b + b
<1>1. a \div b \in Int /\ a = b * (a \div b) + (a % b) /\ a % b \in 0 .. b - 1
  OBVIOUS
<1>2. (a \div b) * b = b * (a \div b)
  BY <1>1
<1>3. a \div b >= 0
  OBVIOUS
<1> QED
  BY <1>1, <1>2, <1>3

---------------------------------------------------------------------------
(* The parts of the invariant.                                             *)

\* Types: only keys that have been written are in files and lists.
LEMMA TypePreserved ==
  ASSUME TypeOK, LoggedLast, CurrentNewest, Next
  PROVE  TypeOK'
<1>1. CASE WriteLog
  <2>1. ops + 1 \in 1 .. OpsNum
    BY <1>1, WriteFacts DEF TypeOK
  <2>2. \A p \in DOMAIN file' : file'[p] \in 1 .. OpsNum
    BY <1>1, <2>1, WriteFacts DEF TypeOK
  <2>3. used' \in Nat /\ pc' = "insert"
        /\ UNCHANGED <<ops, number, current, log, keys, maxSize, size, capacity, waiting>>
    BY <1>1, WriteFacts DEF TypeOK
  <2> QED
    BY <2>2, <2>3 DEF TypeOK
<1>2. CASE InsertInList
  <2>1. ops + 1 \in 1 .. OpsNum
    BY <1>2 DEF TypeOK, LoggedLast, InsertInList
  <2>2. DOMAIN keys' = DOMAIN keys /\ \A g \in DOMAIN keys' : keys'[g] \subseteq 1 .. OpsNum
    BY <1>2, <2>1 DEF TypeOK, InsertInList
  <2>3. ops' \in 0 .. OpsNum /\ size' \in Nat
          /\ pc' \in {"log", "flush"}
          /\ UNCHANGED <<number, current, log, maxSize, capacity, used, file, waiting>>
    BY <1>2, <2>1 DEF TypeOK, InsertInList
  <2> QED
    BY <2>2, <2>3 DEF TypeOK
<1>3. CASE Flush
  <2>1. \A g \in DOMAIN keys' : keys'[g] \subseteq 1 .. OpsNum
    BY <1>3, FlushFacts DEF TypeOK
  <2>2. current' \in DOMAIN keys' /\ waiting' \subseteq DOMAIN keys' /\ DOMAIN log' = DOMAIN keys'
    BY <1>3, FlushFacts DEF TypeOK
  <2>3. size' \in Nat /\ used' \in Nat /\ capacity' \in Nat /\ pc' \in {"log", "done"}
          /\ UNCHANGED <<ops, maxSize, file>>
    BY <1>3, FlushFacts DEF TypeOK
  <2>4. number' \in 0 .. Word - 1
    BY <1>3, FlushFacts, NumberInWord DEF TypeOK
  <2> QED
    BY <2>1, <2>2, <2>3, <2>4 DEF TypeOK
<1>4. ASSUME NEW g \in waiting, Flushed(g) PROVE TypeOK'
  BY <1>4 DEF TypeOK, Flushed
<1> QED
  BY <1>1, <1>2, <1>3, <1>4 DEF Next

\* The key that is logged is the last in the file.
LEMMA LoggedPreserved ==
  ASSUME TypeOK, LoggedLast, Next
  PROVE  LoggedLast'
<1>1. CASE WriteLog
  BY <1>1, WriteFacts DEF LoggedLast
<1>2. CASE InsertInList
  BY <1>2 DEF LoggedLast, InsertInList
<1>3. CASE Flush
  BY <1>3 DEF LoggedLast, Flush
<1>4. ASSUME NEW g \in waiting, Flushed(g) PROVE LoggedLast'
  BY <1>4 DEF LoggedLast, Flushed
<1> QED
  BY <1>1, <1>2, <1>3, <1>4 DEF Next

\* A new list has a new number.
LEMMA NewestPreserved ==
  ASSUME CurrentNewest, Next
  PROVE  CurrentNewest'
<1>1. CASE WriteLog
  BY <1>1, WriteFacts DEF CurrentNewest
<1>2. CASE InsertInList
  BY <1>2 DEF CurrentNewest, InsertInList
<1>3. CASE Flush
  BY <1>3, FlushFacts DEF CurrentNewest
<1>4. ASSUME NEW g \in waiting, Flushed(g) PROVE CurrentNewest'
  BY <1>4 DEF CurrentNewest, Flushed
<1> QED
  BY <1>1, <1>2, <1>3, <1>4 DEF Next

\* The allocator never goes back while the list is filled.
LEMMA PlacedPreserved ==
  ASSUME TypeOK, LoggedLast, CurrentNewest, CurrentPlaced, SizeCounted, Next
  PROVE  CurrentPlaced'
<1>1. CASE WriteLog
  <2> SUFFICES ASSUME NEW k \in keys[current]
               PROVE  \E n \in 1 .. used' : /\ <<log[current], n>> \in DOMAIN file'
                                            /\ file'[<<log[current], n>>] = k
    BY <1>1, WriteFacts DEF CurrentPlaced
  <2>1. PICK n \in 1 .. used :
          <<log[current], n>> \in DOMAIN file /\ file[<<log[current], n>>] = k
    BY DEF CurrentPlaced
  <2>2. n \in 1 .. used' /\ n # used + 1
    BY <1>1, <2>1, WriteFacts DEF TypeOK
  <2>3. <<log[current], n>> # <<log[current], used + 1>>
    BY <2>2
  <2>4. <<log[current], n>> \in DOMAIN file' /\ file'[<<log[current], n>>] = k
    BY <1>1, <2>1, <2>3, WriteFacts
  <2> QED
    BY <2>2, <2>4
<1>2. CASE InsertInList
  <2>1. keys'[current'] = keys[current] \union {ops + 1}
    BY <1>2 DEF TypeOK, InsertInList
  <2>2. UNCHANGED <<file, used, current, log>>
    BY <1>2 DEF InsertInList
  <2>3. used \in 1 .. used
    <3>1. used * KeyBytes = size + KeyBytes
      BY <1>2 DEF SizeCounted, InsertInList
    <3>2. CASE used = 0
      BY <3>1, <3>2 DEF TypeOK
    <3> QED
      BY <3>2 DEF TypeOK
  <2>4. /\ <<log[current], used>> \in DOMAIN file
        /\ file[<<log[current], used>>] = ops + 1
    BY <1>2 DEF LoggedLast, InsertInList
  <2> QED
    BY <2>1, <2>2, <2>3, <2>4 DEF CurrentPlaced
<1>3. CASE Flush
  BY <1>3, FlushFacts DEF CurrentPlaced
<1>4. ASSUME NEW g \in waiting, Flushed(g) PROVE CurrentPlaced'
  BY <1>4 DEF CurrentPlaced, Flushed
<1> QED
  BY <1>1, <1>2, <1>3, <1>4 DEF Next

\* A file loses a key only to a later list of the same name.
LEMMA CoveredPreserved ==
  ASSUME TypeOK, LoggedLast, CurrentNewest, Covered, CurrentPlaced,
         CurrentPlaced', CurrentNewest', Next
  PROVE  Covered'
<1>1. CASE WriteLog
  <2> SUFFICES ASSUME NEW g \in DOMAIN keys,
                      \A h \in DOMAIN keys : h > g => log[h] # log[g]
               PROVE  keys[g] \subseteq InFile(g)'
    BY <1>1, WriteFacts DEF Covered
  <2>1. CASE g = current
    <3> SUFFICES ASSUME NEW k \in keys[g] PROVE k \in InFile(g)'
      OBVIOUS
    <3>1. PICK n \in 1 .. used' :
            <<log[g], n>> \in DOMAIN file' /\ file'[<<log[g], n>>] = k
      BY <1>1, <2>1, WriteFacts DEF CurrentPlaced
    <3>2. <<log[g], n>>[1] = log[g] /\ log' = log
      BY <1>1, WriteFacts
    <3> QED
      BY <3>1, <3>2 DEF InFile
  <2>2. CASE g # current
    <3>1. log[current] # log[g]
      BY <2>2 DEF TypeOK, CurrentNewest
    <3>2. keys[g] \subseteq InFile(g)
      BY DEF Covered
    <3>3. ASSUME NEW p \in DOMAIN file, p[1] = log[g]
          PROVE  p \in DOMAIN file' /\ file'[p] = file[p]
      <4>1. p # <<log[current], used + 1>>
        BY <3>1, <3>3
      <4> QED
        BY <1>1, <4>1, WriteFacts
    <3>4. log' = log
      BY <1>1, WriteFacts
    <3> QED
      BY <3>2, <3>3, <3>4 DEF InFile
  <2> QED
    BY <2>1, <2>2
<1>2. CASE InsertInList
  <2>1. DOMAIN keys' = DOMAIN keys /\ UNCHANGED <<file, current, log>>
    BY <1>2 DEF InsertInList
  <2>2. keys'[current] = keys[current] \union {ops + 1}
    BY <1>2 DEF TypeOK, InsertInList
  <2>3. \A g \in DOMAIN keys : g # current => keys'[g] = keys[g]
    BY <1>2 DEF InsertInList
  <2>4. ops + 1 \in InFile(current)
    BY <1>2 DEF LoggedLast, InsertInList, InFile
  <2>5. \A g : InFile(g)' = InFile(g)
    BY <2>1 DEF InFile
  <2> QED
    BY <2>1, <2>2, <2>3, <2>4, <2>5 DEF Covered
<1>3. CASE Flush
  <2>1. \A g \in DOMAIN keys : g # current + 1
    BY DEF CurrentNewest
  <2>2. \A g \in DOMAIN keys : log'[g] = log[g]
    BY <1>3, <2>1, FlushFacts DEF TypeOK
  <2>3. \A g \in DOMAIN keys : InFile(g)' = InFile(g)
    BY <1>3, <2>2, FlushFacts DEF InFile
  <2> QED
    BY <1>3, <2>1, <2>2, <2>3, FlushFacts DEF Covered
<1>4. ASSUME NEW g \in waiting, Flushed(g) PROVE Covered'
  BY <1>4 DEF Covered, Flushed, InFile
<1> QED
  BY <1>1, <1>2, <1>3, <1>4 DEF Next

\* The bytes in the file are those of the list and of the key logged.
LEMMA SizePreserved ==
  ASSUME TypeOK, CurrentNewest, SizeCounted, Next
  PROVE  SizeCounted'
<1> USE DEF TypeOK
<1>0. maxSize \in Nat
  OBVIOUS
<1>1. CASE WriteLog
  <2>1. (used + 1) * KeyBytes = used * KeyBytes + KeyBytes
    OBVIOUS
  <2>2. used' * KeyBytes = size + KeyBytes
    BY <1>1, <2>1, WriteFacts DEF SizeCounted
  <2> QED
    BY <1>0, <1>1, <2>2, WriteFacts DEF SizeCounted
<1>2. CASE InsertInList
  <2>1. used * KeyBytes = size + KeyBytes /\ (size < maxSize \/ size = 0)
    BY <1>2 DEF SizeCounted, InsertInList
  <2>2. used >= 1
    <3>1. used = 0 => used * KeyBytes = 0
      OBVIOUS
    <3> QED
      BY <2>1, <3>1
  <2>3. size = 0 => used = 1
    <3>1. used >= 2 => used * KeyBytes >= 2 * KeyBytes
      BY Times
    <3> QED
      BY <2>1, <2>2, <3>1
  <2>4. /\ size' = size + KeyBytes
        /\ pc' = IF size' >= maxSize THEN "flush" ELSE "log"
        /\ UNCHANGED <<used, maxSize, current, capacity>>
    BY <1>2 DEF InsertInList
  <2>5. capacity' = (IF current' = 1 THEN DefaultSize ELSE maxSize') + Slack
    BY <2>4 DEF SizeCounted
  <2>6. used' * KeyBytes = size' + (IF pc' = "insert" THEN KeyBytes ELSE 0)
    BY <2>1, <2>4
  <2> QED
    BY <1>0, <2>1, <2>2, <2>3, <2>4, <2>5, <2>6 DEF SizeCounted
<1>3. CASE Flush
  <2>1. 0 * KeyBytes = 0
    OBVIOUS
  <2>2. current' # 1
    BY <1>3, FlushFacts DEF CurrentNewest
  <2> QED
    BY <1>3, <2>1, <2>2, FlushFacts DEF SizeCounted
<1>4. ASSUME NEW g \in waiting, Flushed(g) PROVE SizeCounted'
  BY <1>4 DEF SizeCounted, Flushed
<1> QED
  BY <1>1, <1>2, <1>3, <1>4 DEF Next

---------------------------------------------------------------------------
(* The invariant, and what follows from it.                                *)

\* The invariant is inductive.
LEMMA InvStep == IInv /\ [Next]_vars => IInv'
<1> SUFFICES ASSUME IInv, [Next]_vars PROVE IInv'
  OBVIOUS
<1>1. CASE Next
  <2>1. TypeOK' /\ LoggedLast' /\ CurrentNewest'
    BY <1>1, TypePreserved, LoggedPreserved, NewestPreserved DEF IInv
  <2>2. CurrentPlaced' /\ SizeCounted'
    BY <1>1, PlacedPreserved, SizePreserved DEF IInv
  <2>3. Covered'
    BY <1>1, <2>1, <2>2, CoveredPreserved DEF IInv
  <2> QED
    BY <2>1, <2>2, <2>3 DEF IInv
<1>2. CASE UNCHANGED vars
  BY <1>2 DEF vars, IInv, TypeOK, LoggedLast, CurrentNewest, Covered, InFile,
              CurrentPlaced, SizeCounted
<1> QED
  BY <1>1, <1>2

\* The invariant holds however lists are filled, handed over and flushed.
THEOREM LogInvariance == Spec => []IInv
BY InitInv, InvStep, PTL DEF Spec

\* A key in a list that was not copied to NVM yet is in the log file of the list,
\* unless a later list has taken over the file.
THEOREM KeysAreLogged == Spec => []CoveredUntilReopened
<1>1. IInv => CoveredUntilReopened
  BY DEF IInv, TypeOK, Covered, CoveredUntilReopened
<1> QED
  BY <1>1, LogInvariance, PTL

\* A list has as many keys as it takes to reach maxSize, and at least one.
LEMMA FullListFacts ==
  ASSUME NEW m \in Nat \ {0}, NEW u \in Nat
  PROVE  LET q == (m + KeyBytes - 1) \div KeyBytes
         IN  /\ q \in Nat
             /\ u * KeyBytes < m + KeyBytes => u <= q
             /\ u * KeyBytes >= m => u >= q
<1> DEFINE q == (m + KeyBytes - 1) \div KeyBytes
<1>0. m + KeyBytes - 1 \in Nat /\ KeyBytes \in Nat \ {0}
  OBVIOUS
<1>1. q \in Nat /\ q * KeyBytes <= m + KeyBytes - 1 /\ m + KeyBytes - 1 < q * KeyBytes + KeyBytes
  BY <1>0, Quotient
<1> HIDE DEF q
<1>2. u >= q + 1 => u * KeyBytes >= q * KeyBytes + KeyBytes
  <2>1. (q + 1) * KeyBytes = q * KeyBytes + KeyBytes
    BY <1>1
  <2> QED
    BY <1>0, <1>1, <2>1, Times
<1>3. q >= u + 1 => q * KeyBytes >= u * KeyBytes + KeyBytes
  <2>1. (u + 1) * KeyBytes = u * KeyBytes + KeyBytes
    OBVIOUS
  <2> QED
    BY <1>0, <1>1, <2>1, Times
<1>4. u * KeyBytes \in Nat /\ q * KeyBytes \in Nat
  BY <1>0, <1>1
<1>5. u * KeyBytes < m + KeyBytes => u <= q
  BY <1>0, <1>1, <1>2, <1>4
<1>6. u * KeyBytes >= m => u >= q
  BY <1>0, <1>1, <1>3, <1>4
<1> QED
  BY <1>1, <1>5, <1>6 DEF q

\* No list has more keys in its log file than fill a list, and one that is
\* handed over because it is full has as many.
LEMMA UpToFull ==
  ASSUME TypeOK, SizeCounted
  PROVE  /\ FullList \in Nat /\ used <= FullList
         /\ pc = "flush" => used = FullList
<1> USE DEF TypeOK
<1>0. maxSize \in Nat /\ used \in Nat /\ size \in Nat
  OBVIOUS
<1>1. CASE maxSize = 0
  <2>1. used >= 2 => used * KeyBytes >= 2 * KeyBytes
    BY Times
  <2>2. used = 0 => used * KeyBytes = 0
    OBVIOUS
  <2>3. used <= 1 /\ (pc = "flush" => used = 1)
    BY <1>0, <1>1, <2>1, <2>2 DEF SizeCounted
  <2> QED
    BY <1>0, <1>1, <2>3 DEF FullList
<1>2. CASE maxSize # 0
  <2>1. FullList = (maxSize + KeyBytes - 1) \div KeyBytes
    BY <1>2 DEF FullList
  <2>2. used * KeyBytes < maxSize + KeyBytes
    BY <1>0, <1>2 DEF SizeCounted
  <2>3. pc = "flush" => used * KeyBytes >= maxSize
    BY <1>0 DEF SizeCounted
  <2>4. /\ FullList \in Nat /\ used <= FullList
        /\ used * KeyBytes >= maxSize => used >= FullList
    BY <1>0, <1>2, <2>1, <2>2, FullListFacts
  <2> QED
    BY <1>0, <2>3, <2>4
<1> QED
  BY <1>1, <1>2

\* A log is written behind its mapping in exactly the lists that need more than
\* there is, the first with its own limit, for any sizes.
THEOREM LogsOverrun == Spec => []OverrunsWhenTooLong
<1>1. ASSUME IInv PROVE OverrunsWhenTooLong
  <2>1. TypeOK /\ SizeCounted
    BY <1>1 DEF IInv
  <2>2. /\ FullList \in Nat /\ used \in Nat /\ used <= FullList
        /\ pc = "flush" => used = FullList
    BY <2>1, UpToFull DEF TypeOK
  <2>3. used * KeyBytes <= FullList * KeyBytes
    BY <2>2, Times
  <2>4. used * KeyBytes \in Int /\ FullList * KeyBytes \in Int /\ capacity \in Int
    BY <2>1, <2>2 DEF TypeOK
  <2>5. TooLong <=> FullList * KeyBytes > capacity
    BY <2>1 DEF TooLong, SizeCounted
  <2> QED
    BY <2>2, <2>3, <2>4, <2>5 DEF OverrunsWhenTooLong
<1> QED
  BY <1>1, LogInvariance, PTL
=============================================================================
