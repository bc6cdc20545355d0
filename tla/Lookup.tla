------------------------------- MODULE Lookup -------------------------------
(***************************************************************************)
(* One call of zynkFindEntry step by step: the loop of zynk_hash_string    *)
(* over the bytes of the name (hash.c), then the endless loop over the     *)
(* slots (zynk_enviroment.c:118-134), which compares names with zynk_len   *)
(* and zynk_strcmp (memory.c).                                             *)
(*                                                                         *)
(* A name is the sequence of its bytes before the terminator, each a       *)
(* signed char other than 0.  An unsigned long, a uint32_t and a char have *)
(* LongSize, IntSize and CharSize values (2^64, 2^32 and 2^8 in the        *)
(* build); an int is kept as the unsigned value of the same bits.          *)
(***************************************************************************)
EXTENDS Integers, Sequences

CONSTANTS
  Names,       \* names of variables, "" (the empty sequence) among them
  Missing,     \* the name of a slot whose name is NULL
  Capacity,    \* slots of the table
  CharSize, IntSize, LongSize,   \* numbers of values of char, int, unsigned long
  XorOf(_, _)  \* the operator ^ of C

Chars == (-(CharSize \div 2) .. CharSize \div 2 - 1) \ {0}
Ints == 0 .. IntSize - 1
Longs == 0 .. LongSize - 1
Slots == 0 .. Capacity - 1

ASSUME WidthAssumption ==
  /\ CharSize \in Nat \ {0, 1} /\ LongSize \in Nat \ {0}
  /\ IntSize = CharSize * CharSize * CharSize * CharSize
  /\ LongSize % IntSize = 0
ASSUME NamesAssumption ==
  Capacity \in Nat \ {0} /\ Missing \notin Names /\ \A n \in Names : n \in Seq(Chars)

VARIABLES
  entries,   \* the table: the name of each slot
  key, niu,  \* the arguments of zynkFindEntry
  pc,        \* the loop that runs: "hash", "probe", or "done"
  read,      \* bytes of the name zynk_hash_string has read
  hash,      \* its hash, an unsigned long
  index, limit,   \* of the second loop
  found      \* the slot returned, as a set of at most one slot

call == <<entries, key, niu>>
vars == <<entries, key, niu, pc, read, hash, index, limit, found>>

-----------------------------------------------------------------------------
(* memory.c *)

End == 0

(* A name as memory holds it.                                                *)
Bytes(name) == Append(name, End)

(* The index of the terminator; NULL has length 0.                           *)
zynk_len(name) ==
  IF name = Missing THEN 0
  ELSE CHOOSE i \in 0 .. Len(name) :
         /\ Bytes(name)[i + 1] = End
         /\ \A j \in 1 .. i : Bytes(name)[j] # End

zynk_strcmp(a, b, len) == \A i \in 1 .. len : Bytes(a)[i] = Bytes(b)[i]

-----------------------------------------------------------------------------
(* hash.c *)

(* c as an int: a negative char keeps its sign.                              *)
AsInt(c) == c % IntSize

Shifted(c, by) == (AsInt(c) * by) % IntSize

(* An int taken for an unsigned long is extended with its sign.              *)
AsLong(x) == IF x < IntSize \div 2 THEN x ELSE x + LongSize - IntSize

MixedInt(c) ==
  XorOf(XorOf(AsInt(c), Shifted(c, CharSize)),
        XorOf(Shifted(c, CharSize * CharSize),
              Shifted(c, CharSize * CharSize * CharSize)))

Mixed(c) == AsLong(MixedInt(c))

(* Faulty variant: the bits shifted out come back in at the other end.       *)
Times33Rotating(h) == (h * 33 + h \div (LongSize \div 32)) % LongSize

Times33(h) == (h * 33) % LongSize

(* The value returned is a uint32_t.                                         *)
Cut(h) == h % IntSize

Seed == 5381 % LongSize

(* Each bit of ^ depends on the same bit of its operands alone.              *)
ASSUME XorAssumption ==
  /\ \A a, b \in Ints : XorOf(a, b) \in Ints
  /\ \A h \in Longs, m \in {Mixed(c) : c \in Chars} :
       /\ XorOf(h, m) \in Longs
       /\ Cut(XorOf(h, m)) = XorOf(Cut(h), Cut(m))

HashChar ==
  /\ pc = "hash" /\ read < Len(key)
  /\ hash' = XorOf(Times33(hash), Mixed(key[read + 1]))
  /\ read' = read + 1
  /\ UNCHANGED <<call, pc, index, limit, found>>

HashEnd ==
  /\ pc = "hash" /\ read = Len(key)
  /\ index' = Cut(hash) % Capacity
  /\ limit' = index'
  /\ pc' = "probe"
  /\ UNCHANGED <<call, read, hash, found>>

-----------------------------------------------------------------------------
(* The loop over the slots *)

(* Faulty variant: a name that starts with the key is taken for the key.     *)
AcceptsPrefix(name) ==
  \/ name = Missing /\ niu
  \/ name # Missing /\ zynk_len(key) <= zynk_len(name)
     /\ zynk_strcmp(name, key, zynk_len(key))
  \/ name = Missing /\ key = <<>>

(* The lengths are compared first: no byte behind a terminator is read, and  *)
(* none at all of a NULL name.                                               *)
Accepts(name) ==
  \/ name = Missing /\ niu
  \/ /\ zynk_len(key) = zynk_len(name)
     /\ name # Missing => zynk_strcmp(name, key, zynk_len(key))

(* Faulty variant: the probe runs off the end of the table.                  *)
FollowingUnwrapped(i) == i + 1

Following(i) == (i + 1) % Capacity

(* Faulty variant: the round is over at the last slot, not where it began.   *)
RoundOverAtEnd(i) == i = Capacity

RoundOver(i) == i = limit

ProbeHit ==
  /\ pc = "probe" /\ Accepts(entries[index].name)
  /\ found' = {index} /\ pc' = "done"
  /\ UNCHANGED <<call, read, hash, index, limit>>

ProbeNext ==
  /\ pc = "probe" /\ ~ Accepts(entries[index].name)
  /\ index' = Following(index)
  /\ pc' = IF RoundOver(index') THEN "done" ELSE "probe"
  /\ UNCHANGED <<call, read, hash, limit, found>>

-----------------------------------------------------------------------------

Entry == [name : Names \union {Missing}]

(* Inserts and deletes of these and other names leave any name in any slot.  *)
Init ==
  /\ entries \in [Slots -> Entry]
  /\ key \in Names /\ niu \in BOOLEAN
  /\ pc = "hash" /\ read = 0 /\ hash = Seed
  /\ index = 0 /\ limit = 0
  /\ found = {}

Next == HashChar \/ HashEnd \/ ProbeHit \/ ProbeNext

(* The only fairness is that the processor runs the program on.              *)
Spec == Init /\ [][Next]_vars /\ WF_vars(Next)

-----------------------------------------------------------------------------
(* Properties *)

(* The types of the variables; the probe stays inside the table and the      *)
(* hash within its width.                                                    *)
TypeOK ==
  /\ entries \in [Slots -> Entry] /\ key \in Names /\ niu \in BOOLEAN
  /\ pc \in {"hash", "probe", "done"}
  /\ read \in 0 .. Len(key)
  /\ hash \in Longs
  /\ index \in Slots /\ limit \in Slots
  /\ found \subseteq Slots

(* The hash of hash.c computed in uint32_t alone, of the first n bytes.      *)
NarrowHash(name, n) ==
  LET h[m \in 0 .. Len(name)] ==
        IF m = 0 THEN Cut(Seed)
        ELSE XorOf((h[m - 1] * 33) % IntSize, MixedInt(name[m]))
  IN  h[n]

NarrowHashes == [name \in Names |-> NarrowHash(name, Len(name))]

(* A name has the same hash, and so the same slot, whatever the width of     *)
(* unsigned long: the bits above 32 that hash.c carries along the loop, the  *)
(* sign of a negative char among them, never reach the ones it returns.      *)
HashPortable == Cut(hash) = NarrowHash(key, read)

(* The search the models of tables use, with the hash of hash.c.             *)
Reference ==
  INSTANCE Probing WITH
    Keys <- Names, EmptyKey <- <<>>, Hash <- NarrowHashes

(* Wherever the round starts, whatever names, repeated names and tombstones  *)
(* lie on its way, the loop answers the slot the models of tables take.      *)
AnswersAsProbing ==
  pc = "done" => found = Reference!zynkFindEntry(entries, key, niu)

(* The turns the two loops have left at most, but for the ones over bytes    *)
(* counted from the end of the name.                                         *)
Remaining ==
  CASE pc = "hash" -> Len(key) - read + Capacity + 1
    [] pc = "probe" -> Capacity - ((index - limit) % Capacity)
    [] pc = "done" -> 0

(* Every turn brings the end closer, wherever the round starts: a search     *)
(* takes at most Capacity turns after the hash, the wrap at the last slot    *)
(* included, and none after it has answered.                                 *)
TurnsRunOut == [][Remaining' < Remaining]_vars

(* for (;;) has no bound of its own: in a table without a free slot and      *)
(* without the name, only the way back to the first slot ends it.            *)
Terminates == <>(pc = "done")
=============================================================================
