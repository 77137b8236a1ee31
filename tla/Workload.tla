------------------------------ MODULE Workload ------------------------------
(***************************************************************************)
(* motivation1_main.cc with PersistentAllocator and the print-outs that    *)
(* judge the order of the keys: what a command line leads to.  The keys    *)
(* are those of write_to_nvm and write_to_dram, digit by digit, since the  *)
(* lists compare and the print-outs decode their first KEY_SIZE bytes; the *)
(* program has Base = 10 and Digits = 8.  Bytes of NVM are counted, not    *)
(* stored.  FlushPipeline models when the lists of DRAM are handed over;   *)
(* here any keys in DRAM may be a list that reaches NVM, and any may be    *)
(* left in DRAM when the process ends.                                     *)
(***************************************************************************)
EXTENDS Integers, Sequences, SequencesExt

CONSTANTS
  Args,     \* command lines: num, test, value, ops and max, as numbers
  Base,     \* digits are 0 .. Base - 1
  Digits,   \* digits "%08d" gives at least
  NvmSize,  \* NVM_SIZE
  Heights,  \* heights RandomHeight may return
  Extras    \* bytes strlen may find behind the end of a DRAM key

\* The powers of Base, up to the first number with more than Digits digits.
Power[m \in 0 .. Digits] == IF m = 0 THEN 1 ELSE Base * Power[m - 1]
KeyLimit == Power[Digits]

ASSUME WorkloadAssumption ==
  /\ Base \in Nat \ {0, 1} /\ Digits \in Nat \ {0} /\ NvmSize \in Nat
  /\ Heights \subseteq 1 .. 20 /\ Extras \subseteq Nat
  /\ \A a \in Args : {a.num, a.test, a.value, a.ops, a.max} \subseteq Nat
  /\ \A a \in Args : a.test = 1 => a.ops < KeyLimit

VARIABLES
  args,    \* the command line
  phase,   \* where the program is
  i,       \* the counter of the loop
  drawn,   \* the pairs of a number and a counter formatted so far
  dram,    \* keys in DRAM, the queued lists included
  nvm,     \* keys at level 0 of the list in NVM, in its order
  used,    \* cur_index_ - pmemaddr_
  overran, \* some key from DRAM was longer than the one inserted there
  error    \* "not in order" was printed

data == <<i, drawn, dram, nvm, used, overran, error>>
vars == <<args, phase, data>>

KeySize == 16                         \* KEY_SIZE
PointerSize == 8

---------------------------------------------------------------------------
(* Keys.                                                                   *)

\* n without its last m digits.
Rest(n) ==
  LET rest[m \in 0 .. Digits + n] ==
        IF m = 0 THEN n ELSE rest[m - 1] \div Base
  IN  rest

\* "%0*d": at least Digits digits, more if the number has more.
Pad(n) ==
  LET d == CHOOSE m \in Digits .. Digits + n :
             Rest(n)[m] = 0 /\ (m = Digits \/ Rest(n)[m - 1] # 0)
  IN  [j \in 1 .. d |-> Rest(n)[d - j] % Base]

\* Mutant: the counter is not part of the key.
NumberAlone(n, c) == Pad(n) \o Pad(0)

\* The bytes strncmp(.., .., KEY_SIZE) looks at.
Key(n, c) == SubSeq(Pad(n) \o Pad(c), 1, 2 * Digits)

Before(k, l) ==
  \E j \in DOMAIN k : k[j] < l[j] /\ \A m \in 1 .. j - 1 : k[m] = l[m]

\* Key k where Insert finds its place, behind p keys of list s; of equal keys
\* the order does not show.
Inserted(k, s) ==
  LET place == CHOOSE p \in 0 .. Len(s) :
                 /\ \A j \in 1 .. p : Before(s[j], k)
                 /\ p < Len(s) => ~Before(s[p + 1], k)
  IN  InsertAt(s, place + 1, k)

\* The list that Inserts of a set of keys make.
ListOf(keys) == FoldSet(Inserted, <<>>, keys)

\* PrintKey: num and seq_num from the bytes of a key.
Number(digits) == FoldLeft(LAMBDA n, c : c + Base * n, 0, digits)
Decoded(k) == << Number(SubSeq(k, 1, Digits)),
                 Number(SubSeq(k, Digits + 1, 2 * Digits)) >>

\* PrintKey complains unless last < this, from last = (0, 0).
Complains(last, this) ==
  ~(last[1] < this[1] \/ (last[1] = this[1] /\ last[2] < this[2]))
OutOfOrder(s) ==
  \E j \in DOMAIN s :
    Complains(IF j = 1 THEN <<0, 0>> ELSE Decoded(s[j - 1]), Decoded(s[j]))

---------------------------------------------------------------------------
(* Bytes.                                                                  *)

\* sizeof(Node) holds one pointer of next_.
NodeSize(h) == 2 * PointerSize + PointerSize * (h - 1)

\* Mutant: the head has no key.
HeadWithoutKey == NodeSize(20) + PointerSize * 20

\* The head with its key " ", then prev_.
HeadSize == NodeSize(20) + 1 + PointerSize * 20

\* Mutant: prev_ is part of every node.
NodeWithPrev(h, bytes) == NodeSize(20) + PointerSize * h + bytes

NewNode(h, bytes) == NodeSize(h) + bytes

\* The nodes of a list, each with its height and the bytes strlen found too
\* many, and a value.
ListSize(sizes, value) ==
  MapThenSumSet(LAMBDA k : NewNode(sizes[k][1], KeySize + value + sizes[k][2]),
                DOMAIN sizes)

---------------------------------------------------------------------------
(* The program.                                                            *)

Init ==
  /\ args \in Args /\ phase = "parse" /\ i = 1
  /\ drawn = {} /\ dram = {} /\ nvm = <<>> /\ used = 0
  /\ overran = FALSE /\ error = FALSE

Ends == {"usage", "assertion", "divByZero", "done"}

PowerOfTwo(n) == n = 0 \/ \E e \in 0 .. 30 : n = 2 ^ e

Asserted ==
  args.test \in {0, 1} /\ PowerOfTwo(args.value) /\ args.max \in 1 .. 20

ParseInput ==
  /\ phase = "parse"
  /\ phase' = CASE args.num # 8 -> "usage"
                [] args.num = 8 /\ ~Asserted -> "assertion"
                [] OTHER -> "init"
  /\ UNCHANGED <<args, data>>

\* per_1g_num of main divides by VALUE_SIZE; then the mapping and its list.
InitNvm ==
  /\ phase = "init"
  /\ \/ /\ args.value = 0 /\ phase' = "divByZero"
        /\ UNCHANGED used
     \/ /\ args.value # 0 /\ phase' = "loop"
        /\ used' = HeadSize
  /\ UNCHANGED <<args, i, drawn, dram, nvm, overran, error>>

\* Mutant: the loop counts from 0.
CountsFromZero == i - 1

Counter == i

\* Mutant: write_to_dram counts its progress as write_to_nvm does.
Per1gMinusOne == ((1024 * 1024) \div args.value) * 1024 - 1

\* per_1g_num of write_to_dram.  That of write_to_nvm, one less than a
\* multiple of 1024, is never 0.
Per1g == ((1024 * 1000) \div args.value) * 1000

\* i % per_1g_num comes after the Insert.
AfterInsert ==
  IF args.test = 1 /\ Per1g = 0
  THEN phase' = "divByZero" /\ UNCHANGED i
  ELSE UNCHANGED phase /\ i' = i + 1

\* One round of the loop of write_to_nvm: the Insert is into NVM.
WriteToNvm ==
  /\ phase = "loop" /\ args.test = 0 /\ i <= args.ops
  /\ \E number \in 0 .. args.ops - 1, h \in Heights :
       /\ drawn' = drawn \cup {<<number, Counter>>}
       /\ nvm' = Inserted(Key(number, Counter), nvm)
       /\ used' = used + NewNode(h, KeySize + args.value)
  /\ AfterInsert
  /\ UNCHANGED <<args, dram, overran, error>>

\* One round of the loop of write_to_dram.
WriteToDram ==
  /\ phase = "loop" /\ args.test = 1 /\ i <= args.ops
  /\ \E number \in 0 .. args.ops - 1 :
       /\ drawn' = drawn \cup {<<number, Counter>>}
       /\ dram' = dram \cup {Key(number, Counter)}
  /\ AfterInsert
  /\ UNCHANGED <<args, nvm, used, overran, error>>

\* FlushNVM::Run copies a list, in order.  The keys are made from C strings
\* that NewNode of the DRAM list did not terminate.
FlushList ==
  /\ phase \in {"loop", "join"}
  /\ \E list \in (SUBSET dram) \ {{}} : \E sizes \in [list -> Heights \X Extras] :
       /\ dram' = dram \ list
       /\ nvm' = FoldSet(Inserted, nvm, list)
       /\ used' = used + ListSize(sizes, args.value)
       /\ overran' = (overran \/ \E k \in list : sizes[k][2] > 0)
       /\ error' = (error \/ OutOfOrder(ListOf(list)))
  /\ UNCHANGED <<args, phase, i, drawn>>

\* The last Flush of write_to_dram.
LastFlush ==
  /\ phase = "loop" /\ args.test = 1 /\ i > args.ops
  /\ phase' = "join"
  /\ UNCHANGED <<args, data>>

\* The list of the last Flush is empty if there were no keys or the last of
\* them filled a list, which depends on sizes that FlushPipeline has.  Run of
\* an empty list ends in the assertion that a list has a first node.
RunEmptyList ==
  /\ phase = "join" /\ phase' = "assertion"
  /\ UNCHANGED <<args, data>>

\* main deletes the pool and the DRAM side, with what it may still hold.  It
\* does not get so far without a key: the first Flush has a thread run its list.
JoinPool ==
  /\ phase = "join" /\ args.ops # 0 /\ phase' = "done"
  /\ UNCHANGED <<args, data>>

\* Print at the end of write_to_nvm walks the list.
PrintList ==
  /\ phase = "loop" /\ args.test = 0 /\ i > args.ops
  /\ phase' = "done"
  /\ error' = OutOfOrder(nvm)
  /\ UNCHANGED <<args, i, drawn, dram, nvm, used, overran>>

Ended == phase \in Ends /\ UNCHANGED vars

Next ==
  \/ ParseInput \/ InitNvm \/ WriteToNvm \/ WriteToDram \/ FlushList
  \/ LastFlush \/ RunEmptyList \/ JoinPool \/ PrintList \/ Ended

Spec == Init /\ [][Next]_vars

---------------------------------------------------------------------------
KeySet == [1 .. 2 * Digits -> 0 .. Base - 1]

\* The variables have their types; DRAM is used by test_type 1 only.
TypeOK ==
  /\ args \in Args
  /\ phase \in {"parse", "init", "loop", "join"} \cup Ends
  /\ i \in 1 .. args.ops + 1
  /\ drawn \subseteq Nat \X Nat
  /\ dram \subseteq KeySet /\ nvm \in Seq(KeySet)
  /\ dram # {} => args.test = 1
  /\ used \in Nat /\ overran \in BOOLEAN /\ error \in BOOLEAN

\* Until the counter outgrows "%08d", the bytes the lists compare tell every
\* pair of a number and a counter from every other, so that no Insert meets
\* an equal key, which persistent_skip_list.cc:162 calls impossible
\* (motivation1_main.cc:78, 108).
EveryPairHasItsKey ==
  /\ TypeOK
  /\ args.ops < KeyLimit =>
       /\ {Decoded(k) : k \in dram \cup ToSet(nvm)} = drawn
       /\ Cardinality(dram) + Len(nvm) = Cardinality(drawn)

\* Neither print-out finds its list out of order before that: the order of
\* the bytes is the order of the decoded numbers, and even the first key is
\* after (0, 0) (persistent_skip_list.cc:225, flush_nvm.cc:17).
NoOrderError == error => args.ops >= KeyLimit

\* Allocate, which compares nothing, stays inside the mapping if the mapping
\* holds the head, prev_ and ops_num nodes of full height, and no key copied
\* from DRAM was longer than the key inserted there
\* (persistent_skiplist_no_transaction.cc:21, flush_nvm.cc:42).
OverrunsOnlyIfTooSmall ==
  used > NvmSize =>
    \/ overran
    \/ HeadSize + args.ops * (NodeSize(20) + KeySize + args.value) > NvmSize

\* For every VALUE_SIZE of whole words the next node begins one byte behind
\* a multiple of 8, because the head's key has one byte: no pointer of a
\* node is ever aligned, which is why PersistentSkipList lets a power failure
\* tear one (persistent_skip_list.cc:14, 35).
NodesMisaligned ==
  phase = "loop" /\ args.value % PointerSize = 0 /\ ~overran =>
    used % PointerSize = 1

\* A VALUE_SIZE that parse_input accepts divides by zero in two cases, 0 in
\* main before there is a mapping, and more than 1024000 in write_to_dram
\* after the first Insert; no such run gets to its end
\* (motivation1_main.cc:74, 83, 151, 175).
DividesByZero ==
  LET inMain == args.value = 0
      inLoop == args.test = 1 /\ args.value > 1024000
  IN  /\ phase = "divByZero" =>
           \/ inMain /\ used = 0
           \/ inLoop /\ Cardinality(drawn) = 1
      /\ phase = "done" => ~inMain /\ ~inLoop

---------------------------------------------------------------------------
(* What the proofs need besides: an inductive invariant.                   *)

\* Every round of the loop makes a pair with the counter of that round.
CountedPairs ==
  /\ IsFiniteSet(drawn)
  /\ Cardinality(drawn) <= args.ops
  /\ \A d \in drawn : d[1] < args.ops /\ d[2] \in 1 .. Cardinality(drawn)
  /\ phase = "loop" => Cardinality(drawn) = i - 1

\* A list in the order of the bytes, without a key twice.
Sorted(s) == \A a, b \in DOMAIN s : a < b => Before(s[a], s[b])

\* The keys are those of the pairs, each in one place.
KeysPlaced ==
  /\ dram \cup ToSet(nvm) = {Key(d[1], d[2]) : d \in drawn}
  /\ dram \cap ToSet(nvm) = {}
  /\ Cardinality(dram) + Len(nvm) = Cardinality(drawn)
  /\ args.ops < KeyLimit => Sorted(nvm)

\* Without an overrun no node is longer than one of full height.
BytesCounted ==
  /\ ~overran => used <= HeadSize + Len(nvm) * (NodeSize(20) + KeySize + args.value)
  /\ phase \in {"loop", "join"} /\ args.value % PointerSize = 0 /\ ~overran =>
       used % PointerSize = 1

\* How far the program gets with the value size of its command line.
Reached ==
  /\ phase \in {"parse", "init"} => drawn = {} /\ used = 0 /\ i = 1
  /\ phase \in {"loop", "join", "done"} => args.value # 0
  /\ \/ phase = "loop" /\ i > 1
     \/ phase = "join" /\ args.ops # 0
     \/ phase = "done"
     => (args.test = 1 => args.value <= 1024000)

IInv ==
  /\ TypeOK /\ CountedPairs /\ KeysPlaced /\ BytesCounted /\ Reached
  /\ NoOrderError /\ DividesByZero
=============================================================================
