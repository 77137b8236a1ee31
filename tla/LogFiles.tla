------------------------------ MODULE LogFiles ------------------------------
(***************************************************************************)
(* The write path in a build without DRAM_CANCEL_LOG: every key is written *)
(* to a log file before it goes to the list in DRAM.  Each list has a file *)
(* of its own, or should have: AllocateFile numbers the lists, but gives   *)
(* snprintf a size one short, so that only the first seven characters of   *)
(* the number are in the file name.  An allocator starts at the beginning  *)
(* of its file, whatever is there.                                         *)
(*                                                                         *)
(* Lists are 1, 2, 3, ... in the order they are made; their numbers in the *)
(* code may start anywhere and wrap.  Workers are reduced to what matters  *)
(* here: lists that wait are flushed in any order (FlushPipeline is about  *)
(* how).  Keys have one size, so a place in a file is a number of keys.    *)
(***************************************************************************)
EXTENDS Integers, FiniteSets

CONSTANTS
  OpsNum,        \* keys written
  KeyBytes,      \* key.size()
  LogSizes,      \* what one_log_size may be
  DefaultSize,   \* k64MB, the size the constructor assumes
  Slack,         \* 1048576
  MaxWaiting,    \* lists that may be queued or being copied at one time
  Width,         \* 8, the width and the room of the number in a file name
  Base,          \* 10
  Word,          \* 2^32, the numbers of a uint32_t
  FirstNumbers   \* what skiplist_seq_number_ may hold, never initialised

ASSUME LogAssumption ==
  /\ {OpsNum, DefaultSize, Slack, MaxWaiting} \subseteq Nat
  /\ LogSizes \subseteq Nat
  /\ {KeyBytes, Width, Base, Word} \subseteq Nat \ {0}
  /\ FirstNumbers \subseteq 0 .. Word - 1

VARIABLES
  pc,        \* where the writer is: "log", "insert", "flush", "done"
  ops,       \* keys written so far
  number,    \* skiplist_seq_number_
  current,   \* the list being filled
  log,       \* the name of the log file of every list
  keys,      \* the keys of every list so far
  maxSize,   \* max_mem_skiplist_size_ once Init has set it: one_log_size
  size,      \* cur_mem_skiplist_size_
  capacity,  \* bytes of the mapping of the current log file
  used,      \* keys that the current allocator has made room for
  file,      \* the key at every place of every file written to
  waiting    \* lists queued or being copied to NVM

vars == <<pc, ops, number, current, log, keys, maxSize, size, capacity, used,
          file, waiting>>

\* A uint32_t printed as an int.
Signed(n) == IF n < Word \div 2 THEN n ELSE n - Word

\* The first k digits of n, which is printed with more than k digits.
Leading(n, k) ==
  LET fits(j) == n \div Base ^ j < Base ^ k
  IN  n \div Base ^ (CHOOSE j \in 1 .. Width : fits(j) /\ \A i \in 1 .. j - 1 : ~fits(i))

\* The end of the name of a log file: what "%08d" gives, without its last
\* character or, of a number of nine or ten digits, its last two or three or,
\* behind a sign, up to four.
Name(n) ==
  IF Signed(n) >= 0 THEN <<"", Leading(Signed(n), Width - 1)>>
                    ELSE <<"-", Leading(-Signed(n), Width - 2)>>

Override(f, x, v) == [y \in DOMAIN f \union {x} |-> IF y = x THEN v ELSE f[y]]

\* The number of the list made after one of number n.
NextNumber(n) == (n + 1) % Word

\* SkiplistWriteNVM::Init calls AllocateFile before it sets
\* max_mem_skiplist_size_ to one_log_size.
Init ==
  /\ pc = "log" /\ ops = 0 /\ size = 0 /\ used = 0 /\ waiting = {}
  /\ \E n \in FirstNumbers : number = NextNumber(n)
  /\ current = 1
  /\ log = [g \in {1} |-> Name(number)] /\ keys = [g \in {1} |-> {}]
  /\ maxSize \in LogSizes
  /\ capacity = DefaultSize + Slack
  /\ file = [place \in {} |-> 0]

\* Mutant: the bump pointer is not moved.
WriteLogInPlace ==
  /\ pc = "log" /\ ops < OpsNum
  /\ file' = Override(file, <<log[current], used + 1>>, ops + 1)
  /\ pc' = "insert"
  /\ UNCHANGED <<ops, number, current, log, keys, maxSize, size, capacity, used, waiting>>

\* Allocate and pmem_memcpy_persist.  Neither looks at the size of the mapping:
\* the model goes on behind its end, where the program may crash.
WriteLog ==
  /\ pc = "log" /\ ops < OpsNum
  /\ used' = used + 1
  /\ file' = Override(file, <<log[current], used + 1>>, ops + 1)
  /\ pc' = "insert"
  /\ UNCHANGED <<ops, number, current, log, keys, maxSize, size, capacity, waiting>>

\* skiplist_->Insert, and the size that decides on a Flush.
InsertInList ==
  /\ pc = "insert"
  /\ ops' = ops + 1
  /\ keys' = [keys EXCEPT ![current] = @ \union {ops + 1}]
  /\ size' = size + KeyBytes
  /\ pc' = IF size' >= maxSize THEN "flush" ELSE "log"
  /\ UNCHANGED <<number, current, log, maxSize, capacity, used, file, waiting>>

\* Realloc makes the next list, its number and its file, of so many bytes.
Realloc(bytes) ==
  /\ number' = NextNumber(number) /\ current' = current + 1
  /\ log' = Override(log, current + 1, Name(NextNumber(number)))
  /\ keys' = Override(keys, current + 1, {})
  /\ size' = 0 /\ used' = 0 /\ capacity' = bytes

\* Mutant: the size of the log file is one_log_size without a reserve.
FlushNoSlack ==
  /\ pc = "flush" \/ (pc = "log" /\ ops = OpsNum)
  /\ Cardinality(waiting) < MaxWaiting
  /\ waiting' = waiting \union {current}
  /\ Realloc(maxSize)
  /\ pc' = IF pc = "flush" THEN "log" ELSE "done"
  /\ UNCHANGED <<ops, maxSize, file>>

\* Flush pushes the list, waits while too many are, and calls Realloc, also
\* when write_to_dram calls it after the last key.
Flush ==
  /\ pc = "flush" \/ (pc = "log" /\ ops = OpsNum)
  /\ Cardinality(waiting) < MaxWaiting
  /\ waiting' = waiting \union {current}
  /\ Realloc(maxSize + Slack)
  /\ pc' = IF pc = "flush" THEN "log" ELSE "done"
  /\ UNCHANGED <<ops, maxSize, file>>

\* Run: the list is copied, its log is unmapped.  An empty list ends the
\* process instead (FlushPipeline).
Flushed(g) ==
  /\ g \in waiting /\ keys[g] # {}
  /\ waiting' = waiting \ {g}
  /\ UNCHANGED <<pc, ops, number, current, log, keys, maxSize, size, capacity, used, file>>

Next ==
  \/ WriteLog \/ InsertInList \/ Flush
  \/ \E g \in waiting : Flushed(g)

Spec == Init /\ [][Next]_vars
---------------------------------------------------------------------------
(* Properties.                                                             *)

TypeOK ==
  /\ pc \in {"log", "insert", "flush", "done"}
  /\ ops \in 0 .. OpsNum /\ number \in 0 .. Word - 1 /\ maxSize \in LogSizes
  /\ current \in DOMAIN keys /\ waiting \subseteq DOMAIN keys /\ DOMAIN log = DOMAIN keys
  /\ \A g \in DOMAIN keys : keys[g] \subseteq 1 .. OpsNum
  /\ size \in Nat /\ capacity \in Nat /\ used \in Nat
  /\ \A p \in DOMAIN file : file[p] \in 1 .. OpsNum

InFile(g) == {file[p] : p \in {q \in DOMAIN file : q[1] = log[g]}}

\* A key goes to the list only when it is in the log, and stays there until its
\* list is flushed or a later list takes over the file, which happens whenever
\* the names of the two come out the same.
CoveredUntilReopened ==
  /\ TypeOK
  /\ \A g \in waiting \union {current} :
    (\A h \in DOMAIN keys : h > g => log[h] # log[g]) => keys[g] \subseteq InFile(g)

\* The keys that fill a list: the last begins below one_log_size, and there is
\* one even if that is 0.
FullList ==
  IF maxSize = 0 THEN 1 ELSE (maxSize + KeyBytes - 1) \div KeyBytes

\* A full list needs more than the mapping of its log file has.  The first
\* file is made for DefaultSize whatever one_log_size is.
TooLong ==
  FullList * KeyBytes > (IF current = 1 THEN DefaultSize ELSE maxSize) + Slack

\* The bump pointer passes the end of the mapping of the log file in exactly
\* the lists whose keys need more than AllocateFile made room for: in no other,
\* and always when one of those is filled.  It happens in the first list if
\* one_log_size is beyond the constructor's default and the reserve, and in
\* the later ones only if a key is larger than the reserve.
OverrunsWhenTooLong ==
  /\ used * KeyBytes > capacity => TooLong
  /\ pc = "flush" /\ TooLong => used * KeyBytes > capacity

---------------------------------------------------------------------------
(* The inductive invariant behind them.                                    *)

\* A key in the log and not yet in the list is the last one written.
LoggedLast ==
  pc = "insert" => /\ ops < OpsNum
                   /\ <<log[current], used>> \in DOMAIN file
                   /\ file[<<log[current], used>>] = ops + 1

\* Lists are numbered upwards.
CurrentNewest == current \in Nat \ {0} /\ \A g \in DOMAIN keys : g \in Nat /\ g <= current

\* A list is covered by its file until a later one has the same name.
Covered ==
  \A g \in DOMAIN keys :
    (\A h \in DOMAIN keys : h > g => log[h] # log[g]) => keys[g] \subseteq InFile(g)

\* The keys of the current list lie in places the allocator has made room for.
CurrentPlaced ==
  \A k \in keys[current] : \E n \in 1 .. used :
    <<log[current], n>> \in DOMAIN file /\ file[<<log[current], n>>] = k

\* The file holds the keys of the list and the one that is logged; a list is
\* handed over as soon as it has reached maxSize.
SizeCounted ==
  /\ used * KeyBytes = size + (IF pc = "insert" THEN KeyBytes ELSE 0)
  /\ pc # "flush" => size < maxSize \/ size = 0
  /\ pc = "flush" => used >= 1 /\ size >= maxSize /\ (size - KeyBytes < maxSize \/ used = 1)
  /\ capacity = (IF current = 1 THEN DefaultSize ELSE maxSize) + Slack

IInv ==
  /\ TypeOK /\ LoggedLast /\ CurrentNewest /\ Covered /\ CurrentPlaced
  /\ SizeCounted
============================================================================
