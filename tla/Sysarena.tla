------------------------------ MODULE Sysarena ------------------------------
(***************************************************************************)
(* The arena allocator of src/src/runtime/sysarena-fixed.c.                *)
(*                                                                         *)
(* An ArenaManager owns a pool of PoolSize bytes and a fixed table of      *)
(* MaxArenas descriptors.  A descriptor is in use both when it stands for  *)
(* a block handed to a client (used = size) and when it stands for memory  *)
(* still to be handed out (used = 0).  Addresses are offsets into the      *)
(* pool; is_contiguous is written and never read, so it is left out.       *)
(***************************************************************************)
EXTENDS Integers

CONSTANTS
  PoolSize,     \* total_size given to sysarena_init
  MaxArenas,    \* num_arenas given to sysarena_init
  Sizes         \* the request sizes clients make

(***************************************************************************)
(* sysarena_init rejects num_arenas < 1, sysarena_alloc answers NULL to a  *)
(* request of 0 bytes.  A manager over no memory at all never serves       *)
(* anything and is not considered.                                         *)
(***************************************************************************)
ASSUME PoolSizeAssumption == PoolSize \in Nat \ {0}
ASSUME MaxArenasAssumption == MaxArenas \in Nat \ {0}
ASSUME SizesAssumption == Sizes \subseteq Nat \ {0}

VARIABLES
  arenas,   \* manager->arenas
  owned,    \* history: blocks returned to the client and not given back
  brk,      \* history: one past the highest byte ever handed out
  taken     \* history: number of blocks handed out so far

vars == <<arenas, owned, brk, taken>>

Slots == 0 .. MaxArenas - 1

NULL == -1

Arena == [in_use : BOOLEAN, base : Int, size : Int, used : Int]

poor_arena == [in_use |-> FALSE, base |-> NULL, size |-> 0, used |-> 0]

TakenArena(base, n) ==
  [in_use |-> TRUE, base |-> base, size |-> n, used |-> n]

FreeArena(base, n) ==
  [in_use |-> TRUE, base |-> base, size |-> n, used |-> 0]

Block == [base : 0 .. PoolSize, size : Sizes]

Contains(b, p) == b.base <= p /\ p < b.base + b.size

-----------------------------------------------------------------------------
(* sysarena_init *)

sysarena_init ==
  [i \in Slots |-> IF i = 0 THEN FreeArena(0, PoolSize) ELSE poor_arena]

Init ==
  /\ arenas = sysarena_init
  /\ owned = {}
  /\ brk = 0
  /\ taken = 0

-----------------------------------------------------------------------------
(* sysarena_alloc *)

(* A descriptor the search of sysarena_alloc stops at. *)
Fits(t, i, n) == t[i].in_use /\ t[i].size - t[i].used >= n

FirstFit(t, i, n) ==
  /\ Fits(t, i, n)
  /\ \A j \in 0 .. i - 1 : ~ Fits(t, j, n)

(* Faulty variant: the request is not taken off. *)
LeftoverUncut(t, i, n) == t[i].size - t[i].used

Leftover(t, i, n) == t[i].size - t[i].used - n

(* Faulty variant: the leftover keeps the address of the block before it. *)
SplitInPlace(t, i, n) ==
  LET at == t[i].base + t[i].used
  IN  [k \in Slots |->
         CASE k < i     -> t[k]
           [] k = i     -> TakenArena(at, n)
           [] k = i + 1 -> FreeArena(at, Leftover(t, i, n))
           [] k > i + 1 -> t[k - 1]]

(***************************************************************************)
(* The part of the descriptor that is not handed out moves to slot i + 1;  *)
(* the descriptors behind shift up by one and the last one falls off.      *)
(***************************************************************************)
Split(t, i, n) ==
  LET at == t[i].base + t[i].used
  IN  [k \in Slots |->
         CASE k < i     -> t[k]
           [] k = i     -> TakenArena(at, n)
           [] k = i + 1 -> FreeArena(at + n, Leftover(t, i, n))
           [] k > i + 1 -> t[k - 1]]

(* The request takes all the descriptor has left. *)
Fill(t, i, n) == [t EXCEPT ![i] = TakenArena(t[i].base + t[i].used, n)]

(* What sysarena_alloc has to find in the table for a request to succeed. *)
CanAlloc(t, n) ==
  \E i \in Slots :
    /\ FirstFit(t, i, n)
    /\ Leftover(t, i, n) > 0 => i + 1 < MaxArenas

HandOut(b) ==
  /\ owned' = owned \union {b}
  /\ brk' = IF b.base + b.size > brk THEN b.base + b.size ELSE brk
  /\ taken' = taken + 1

AllocSplit(n) ==
  \E i \in Slots :
    /\ FirstFit(arenas, i, n)
    /\ Leftover(arenas, i, n) > 0
    /\ i + 1 < MaxArenas
    /\ arenas' = Split(arenas, i, n)
    /\ HandOut([base |-> arenas'[i].base, size |-> n])

AllocFill(n) ==
  \E i \in Slots :
    /\ FirstFit(arenas, i, n)
    /\ Leftover(arenas, i, n) = 0
    /\ arenas' = Fill(arenas, i, n)
    /\ HandOut([base |-> arenas'[i].base, size |-> n])

(* No descriptor fits, or there is no slot for the leftover: NULL. *)
AllocFails(n) ==
  /\ ~ CanAlloc(arenas, n)
  /\ UNCHANGED vars

sysarena_alloc(n) == AllocSplit(n) \/ AllocFill(n) \/ AllocFails(n)

-----------------------------------------------------------------------------
(* sysarena_defragment *)

Mergeable(t, i) ==
  /\ i + 1 < MaxArenas
  /\ ~ t[i].in_use /\ ~ t[i + 1].in_use
  /\ t[i].size > 0 /\ t[i + 1].size > 0
  /\ t[i].base + t[i].size = t[i + 1].base

MergeAt(t, i) ==
  [k \in Slots |->
     CASE k < i                       -> t[k]
       [] k = i                       -> [t[i] EXCEPT !.size = @ + t[i + 1].size]
       [] k > i /\ k < MaxArenas - 1  -> t[k + 1]
       [] k > i /\ k = MaxArenas - 1  -> poor_arena]

(***************************************************************************)
(* The loop stays at i after a merge and advances otherwise, so it ends    *)
(* within 2 * MaxArenas rounds; it leaves a table with no mergeable pair   *)
(* as it is.                                                               *)
(***************************************************************************)
sysarena_defragment(t) ==
  IF \A i \in Slots : ~ Mergeable(t, i)
  THEN t
  ELSE LET round[r \in 0 .. 2 * MaxArenas] ==
             IF r = 0 THEN [table |-> t, at |-> 0]
             ELSE LET c == round[r - 1]
                  IN  IF c.at \in Slots /\ Mergeable(c.table, c.at)
                      THEN [c EXCEPT !.table = MergeAt(c.table, c.at)]
                      ELSE [c EXCEPT !.at = @ + 1]
       IN  round[2 * MaxArenas].table

-----------------------------------------------------------------------------
(* sysarena_free *)

(* Faulty variant: the byte after a block is taken for a byte of the block. *)
HoldsEnd(a, p) ==
  /\ a.in_use /\ a.base # NULL
  /\ a.base <= p /\ p <= a.base + a.size

(* The test sysarena_free looks for a pointer's descriptor with. *)
Holds(a, p) == a.in_use /\ a.base # NULL /\ Contains(a, p)

FirstHolder(t, i, p) ==
  /\ Holds(t[i], p)
  /\ \A j \in 0 .. i - 1 : ~ Holds(t[j], p)

(* Faulty variant: the descriptor keeps its memory and may serve again. *)
ClearForReuse(t, i) == [t EXCEPT ![i].used = 0]

(* Faulty variant: the descriptor keeps its extent but is not in use. *)
ClearKeepingExtent(t, i) == [t EXCEPT ![i].in_use = FALSE, ![i].used = 0]

Clear(t, i) == [t EXCEPT ![i] = poor_arena]

(***************************************************************************)
(* Clients free what they were once given: p lies below brk.  It may be a  *)
(* block's base, lie inside a block, or belong to a block that was freed   *)
(* before, as the callers in this library and in test-env.c do.            *)
(***************************************************************************)
sysarena_free(p) ==
  \/ \E i \in Slots :
       /\ FirstHolder(arenas, i, p)
       /\ arenas' = sysarena_defragment(Clear(arenas, i))
       /\ owned' = {b \in owned : ~ Contains(b, p)}
       /\ UNCHANGED <<brk, taken>>
  \/ /\ \A i \in Slots : ~ Holds(arenas[i], p)
     /\ UNCHANGED vars

(* sysarena_defragment is public: test-env.c calls it on its own. *)
CallDefragment ==
  /\ arenas' = sysarena_defragment(arenas)
  /\ UNCHANGED <<owned, brk, taken>>

-----------------------------------------------------------------------------
(* sysarena_is_fully_merged *)

(* Faulty variant: the size of the first descriptor is not compared.         *)
FirstAtBase(t) == t[0].base = 0

FirstIsPool(t) == t[0].size = PoolSize /\ t[0].base = 0

sysarena_is_fully_merged(t) ==
  /\ \E i \in Slots : {j \in Slots : t[j].in_use} = {i}
  /\ FirstIsPool(t)

-----------------------------------------------------------------------------

Next ==
  \/ \E n \in Sizes : sysarena_alloc(n)
  \/ \E p \in 0 .. brk - 1 : sysarena_free(p)
  \/ CallDefragment

Spec == Init /\ [][Next]_vars

-----------------------------------------------------------------------------
(* Properties *)

Bytes(t, i) == t[i].base .. t[i].base + t[i].size - 1

LiveBlocks(t) ==
  {[base |-> t[i].base, size |-> t[i].size] :
     i \in {j \in Slots : t[j].in_use /\ t[j].used > 0}}

(* The types of the variables: the table never counts more bytes used than  *)
(* a descriptor has, so size - used (sysarena-fixed.c:57) never wraps.      *)
TypeOK ==
  /\ arenas \in [Slots -> Arena]
  /\ \A i \in Slots : 0 <= arenas[i].used /\ arenas[i].used <= arenas[i].size
  /\ owned \subseteq Block
  /\ brk \in 0 .. PoolSize
  /\ taken \in Nat

(* The table is ordered by address: the first taken descriptors stand for    *)
(* blocks in use or are empty, the next one is all memory never handed out,  *)
(* the rest are empty.  The search of sysarena_alloc and the split both rely *)
(* on this order, which every shift of the table has to keep.                *)
InUseBelow(a, top) ==
  /\ a.in_use /\ a.used = a.size
  /\ a.size \in Sizes
  /\ 0 <= a.base /\ a.base + a.size <= top

Layout ==
  /\ taken <= MaxArenas
  /\ brk < PoolSize =>
       /\ taken < MaxArenas
       /\ arenas[taken] = FreeArena(brk, PoolSize - brk)
  /\ \A i \in Slots :
       IF i < taken
       THEN arenas[i] = poor_arena \/ InUseBelow(arenas[i], brk)
       ELSE (i = taken /\ brk < PoolSize) \/ arenas[i] = poor_arena
  /\ \A i, j \in Slots :
       i < j /\ j < taken /\ arenas[i].in_use /\ arenas[j].in_use
         => arenas[i].base + arenas[i].size <= arenas[j].base

(* The table knows exactly the blocks the clients still own, each through    *)
(* one descriptor only: whatever was allocated, split and shifted, a later   *)
(* sysarena_free of that block finds it and finds nothing else.              *)
Tracked ==
  /\ LiveBlocks(arenas) = owned
  /\ \A i, j \in Slots :
       i # j /\ arenas[i].in_use /\ arenas[j].in_use
         => Bytes(arenas, i) \intersect Bytes(arenas, j) = {}

(* No sequence of calls gives sysarena_defragment two descriptors to merge,  *)
(* called by itself or from the free of any block: sysarena_free empties a   *)
(* descriptor first, so the merge of sysarena-fixed.c:122-130 never happens. *)
NothingToMerge ==
  \A i \in Slots :
    /\ ~ Mergeable(arenas, i)
    /\ \A j \in Slots : ~ Mergeable(Clear(arenas, j), i)

(* Every request ever served has used up one descriptor, frees              *)
(* notwithstanding: after MaxArenas of them no request is served any more.   *)
DescriptorBudget ==
  /\ taken <= MaxArenas
  /\ taken = MaxArenas => \A n \in Sizes : ~ CanAlloc(arenas, n)

(* sysarena_is_fully_merged is true only of a pool never used or served as   *)
(* one block: no number of frees and defragmentations merges a pool that was *)
(* split once, and no client who gave everything back ever sees it again.    *)
MergedOnlyWhole ==
  sysarena_is_fully_merged(arenas)
    => brk = 0 \/ owned = {[base |-> 0, size |-> PoolSize]}

(* A request size that is refused once is refused for ever: no free and no   *)
(* defragmentation helps.                                                    *)
ExhaustionIsPermanent ==
  [][\A n \in Sizes : CanAlloc(arenas', n) => CanAlloc(arenas, n)]_vars

(* A free that releases nothing a client owns (a block freed before, as in   *)
(* test-env.c:167) and a defragmentation by itself leave the table alone.    *)
StaleFreeInert == [][owned' = owned => arenas' = arenas]_vars

(* Seen from outside through its table, the manager hands out only memory    *)
(* that overlaps no block in use and takes back one block at a time.         *)
Abstract == INSTANCE Allocator WITH live <- LiveBlocks(arenas)

ImplementsAllocator == Abstract!Spec

(* The table implements a break that only moves up: memory handed out once   *)
(* is never handed out again, even after it was freed.                       *)
Bump == INSTANCE BumpArena WITH live <- LiveBlocks(arenas)

ImplementsBumpArena == Bump!Spec

(* README.md:88 of freeing: it "is responsible for returning this memory to  *)
(* the arena".  When every block was given back, any request that fits the   *)
(* pool could then be served again.                                          *)
FreedMemoryReturns ==
  owned = {} => \A n \in Sizes : n <= PoolSize => CanAlloc(arenas, n)

=============================================================================
