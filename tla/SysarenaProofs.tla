--------------------------- MODULE SysarenaProofs ---------------------------
(***************************************************************************)
(* Proofs about the arena allocator, for every pool, every table and every *)
(* set of request sizes.  The inductive invariant is the layout of the     *)
(* descriptor table (Layout): blocks in use in address order, then all     *)
(* memory never handed out, then empty descriptors.                        *)
(***************************************************************************)
EXTENDS Sysarena, TLAPS

Agreement == owned = LiveBlocks(arenas)

IInv == TypeOK /\ Layout /\ Agreement

-----------------------------------------------------------------------------
(* What the search of sysarena_alloc can find *)

(* The only descriptor the search can stop at is the memory never handed out. *)
LEMMA OnlyRemainderFits ==
  ASSUME IInv, NEW i \in Slots, NEW n \in Sizes, Fits(arenas, i, n)
  PROVE  /\ i = taken /\ brk < PoolSize
         /\ arenas[i] = FreeArena(brk, PoolSize - brk)
         /\ brk + n <= PoolSize
<1>1. n \in Nat /\ n > 0
  BY SizesAssumption
<1>2. i = taken /\ brk < PoolSize
  <2>1. arenas[i] # poor_arena
    BY DEF Fits, poor_arena
  <2>2. ~ InUseBelow(arenas[i], brk)
    BY <1>1, SizesAssumption DEF Fits, InUseBelow, IInv, TypeOK, Arena
  <2>3. QED
    BY <2>1, <2>2 DEF IInv, Layout
<1>3. QED
  BY <1>1, <1>2, PoolSizeAssumption
     DEF IInv, Layout, Fits, FreeArena, TypeOK

(* A request finds room in the table exactly when it finds room above brk. *)
LEMMA CanAllocIsBump ==
  ASSUME IInv, NEW n \in Sizes
  PROVE  CanAlloc(arenas, n) <=> Bump!CanAlloc(n)
<1>1. n \in Nat /\ n > 0
  BY SizesAssumption
<1>2. brk \in 0 .. PoolSize /\ taken \in Nat /\ PoolSize \in Nat /\ MaxArenas \in Nat
  BY PoolSizeAssumption, MaxArenasAssumption DEF IInv, TypeOK
<1>3. ASSUME CanAlloc(arenas, n)
      PROVE  Bump!CanAlloc(n)
  <2>1. PICK i \in Slots :
          FirstFit(arenas, i, n) /\ (Leftover(arenas, i, n) > 0 => i + 1 < MaxArenas)
    BY <1>3 DEF CanAlloc
  <2>2. i = taken /\ arenas[i] = FreeArena(brk, PoolSize - brk) /\ brk + n <= PoolSize
    BY <2>1, OnlyRemainderFits DEF FirstFit
  <2>3. QED
    BY <1>1, <1>2, <2>1, <2>2 DEF Leftover, FreeArena, Bump!CanAlloc
<1>4. ASSUME Bump!CanAlloc(n)
      PROVE  CanAlloc(arenas, n)
  <2>1. brk < PoolSize /\ brk + n <= PoolSize
    BY <1>1, <1>2, <1>4 DEF Bump!CanAlloc
  <2>2. taken \in Slots /\ arenas[taken] = FreeArena(brk, PoolSize - brk)
    BY <1>2, <2>1 DEF IInv, Layout, Slots
  <2>3. Fits(arenas, taken, n)
    BY <1>1, <1>2, <2>1, <2>2 DEF Fits, FreeArena
  <2>4. \A j \in 0 .. taken - 1 : ~ Fits(arenas, j, n)
    <3> SUFFICES ASSUME NEW j \in 0 .. taken - 1, Fits(arenas, j, n)
                 PROVE  FALSE
      OBVIOUS
    <3>1. j \in Slots /\ j # taken
      BY <1>2, <2>2 DEF Slots
    <3>2. QED
      BY <3>1, OnlyRemainderFits
  <2>5. Leftover(arenas, taken, n) > 0 => taken + 1 < MaxArenas
    BY <1>1, <1>2, <1>4, <2>2 DEF Leftover, FreeArena, Bump!CanAlloc
  <2>6. QED
    BY <2>2, <2>3, <2>4, <2>5 DEF CanAlloc, FirstFit
<1>5. QED
  BY <1>3, <1>4

-----------------------------------------------------------------------------
(* What each operation does to the table *)

(* A request that is served cuts n bytes off the bottom of the remainder. *)
LEMMA SplitStep ==
  ASSUME IInv, NEW n \in Sizes, AllocSplit(n)
  PROVE  /\ brk + n < PoolSize /\ taken + 1 < MaxArenas
         /\ arenas[taken] = FreeArena(brk, PoolSize - brk)
         /\ arenas' = [k \in Slots |->
                         IF k < taken THEN arenas[k]
                         ELSE IF k = taken THEN TakenArena(brk, n)
                         ELSE IF k = taken + 1
                              THEN FreeArena(brk + n, PoolSize - (brk + n))
                         ELSE poor_arena]
         /\ owned' = owned \union {[base |-> brk, size |-> n]}
         /\ brk' = brk + n
         /\ taken' = taken + 1
<1>1. n \in Nat /\ n > 0
  BY SizesAssumption
<1>2. /\ brk \in 0 .. PoolSize /\ taken \in Nat
      /\ PoolSize \in Nat /\ MaxArenas \in Nat
  BY PoolSizeAssumption, MaxArenasAssumption DEF IInv, TypeOK
<1>3. PICK i \in Slots :
        /\ FirstFit(arenas, i, n)
        /\ Leftover(arenas, i, n) > 0
        /\ i + 1 < MaxArenas
        /\ arenas' = Split(arenas, i, n)
        /\ HandOut([base |-> arenas'[i].base, size |-> n])
  BY DEF AllocSplit
<1>4. /\ i = taken /\ brk < PoolSize
      /\ arenas[i] = FreeArena(brk, PoolSize - brk)
      /\ brk + n <= PoolSize
  BY <1>3, OnlyRemainderFits DEF FirstFit
<1>5. Leftover(arenas, i, n) = PoolSize - (brk + n)
  BY <1>1, <1>2, <1>4 DEF Leftover, FreeArena
<1>6. arenas[i].base + arenas[i].used = brk
  BY <1>2, <1>4 DEF FreeArena
<1>7. \A k \in Slots : k > i + 1 => arenas[k - 1] = poor_arena
  BY <1>2, <1>4 DEF IInv, Layout, Slots
<1>8. arenas' = [k \in Slots |->
                   IF k < taken THEN arenas[k]
                   ELSE IF k = taken THEN TakenArena(brk, n)
                   ELSE IF k = taken + 1
                        THEN FreeArena(brk + n, PoolSize - (brk + n))
                   ELSE poor_arena]
  BY <1>2, <1>3, <1>4, <1>5, <1>6, <1>7 DEF Split, Slots
<1>9. arenas'[i].base = brk
  BY <1>3, <1>4, <1>8, <1>2 DEF TakenArena
<1>10. QED
  BY <1>1, <1>2, <1>3, <1>4, <1>5, <1>8, <1>9 DEF HandOut

(* A request for all that is left turns the remainder into a block. *)
LEMMA FillStep ==
  ASSUME IInv, NEW n \in Sizes, AllocFill(n)
  PROVE  /\ brk + n = PoolSize /\ taken < MaxArenas
         /\ arenas[taken] = FreeArena(brk, PoolSize - brk)
         /\ arenas' = [arenas EXCEPT ![taken] = TakenArena(brk, n)]
         /\ owned' = owned \union {[base |-> brk, size |-> n]}
         /\ brk' = brk + n
         /\ taken' = taken + 1
<1>1. n \in Nat /\ n > 0
  BY SizesAssumption
<1>2. /\ brk \in 0 .. PoolSize /\ taken \in Nat
      /\ PoolSize \in Nat /\ MaxArenas \in Nat
      /\ arenas \in [Slots -> Arena]
  BY PoolSizeAssumption, MaxArenasAssumption DEF IInv, TypeOK
<1>3. PICK i \in Slots :
        /\ FirstFit(arenas, i, n)
        /\ Leftover(arenas, i, n) = 0
        /\ arenas' = Fill(arenas, i, n)
        /\ HandOut([base |-> arenas'[i].base, size |-> n])
  BY DEF AllocFill
<1>4. /\ i = taken /\ brk < PoolSize
      /\ arenas[i] = FreeArena(brk, PoolSize - brk)
  BY <1>3, OnlyRemainderFits DEF FirstFit
<1>5. brk + n = PoolSize
  BY <1>1, <1>2, <1>3, <1>4 DEF Leftover, FreeArena
<1>6. arenas[i].base + arenas[i].used = brk
  BY <1>2, <1>4 DEF FreeArena
<1>7. arenas' = [arenas EXCEPT ![taken] = TakenArena(brk, n)]
  BY <1>3, <1>4, <1>6 DEF Fill
<1>8. arenas'[i].base = brk
  BY <1>2, <1>3, <1>4, <1>7 DEF TakenArena
<1>9. QED
  BY <1>1, <1>2, <1>3, <1>4, <1>5, <1>7, <1>8 DEF HandOut, Slots

(* A pointer below brk is held by a block in use, and by no other one. *)
LEMMA HolderIsBlock ==
  ASSUME IInv, NEW i \in Slots, NEW p \in 0 .. brk - 1, Holds(arenas[i], p)
  PROVE  i < taken /\ InUseBelow(arenas[i], brk)
<1>1. brk \in 0 .. PoolSize /\ taken \in Nat /\ PoolSize \in Nat
  BY PoolSizeAssumption DEF IInv, TypeOK
<1>2. arenas[i] # poor_arena
  BY DEF Holds, poor_arena
<1>3. ~ (i = taken /\ brk < PoolSize)
  BY <1>1 DEF IInv, Layout, Holds, Contains, FreeArena
<1>4. QED
  BY <1>2, <1>3 DEF IInv, Layout

(* A descriptor that is not in use has no extent left, so nothing merges.    *)
LEMMA NoPairMerges ==
  ASSUME IInv
  PROVE  NothingToMerge
<1>1. \A i \in Slots : ~ arenas[i].in_use => arenas[i].size = 0
  BY DEF IInv, Layout, InUseBelow, poor_arena, FreeArena
<1>2. \A i \in Slots : ~ Mergeable(arenas, i)
  BY <1>1 DEF Mergeable, Slots
<1>3. ASSUME NEW i \in Slots, NEW j \in Slots, NEW k \in Slots
      PROVE  ~ Clear(arenas, j)[k].in_use => Clear(arenas, j)[k].size = 0
  BY <1>1 DEF Clear, poor_arena, IInv, TypeOK
<1>4. \A i, j \in Slots : ~ Mergeable(Clear(arenas, j), i)
  BY <1>3 DEF Mergeable, Slots
<1>5. QED
  BY <1>2, <1>4 DEF NothingToMerge

LEMMA DefragmentIdle ==
  ASSUME IInv
  PROVE  /\ sysarena_defragment(arenas) = arenas
         /\ \A j \in Slots :
              sysarena_defragment(Clear(arenas, j)) = Clear(arenas, j)
BY NoPairMerges DEF NothingToMerge, sysarena_defragment

(* Two blocks in use share no byte: they are in address order.               *)
LEMMA BlocksApart ==
  ASSUME IInv, NEW i \in Slots, NEW j \in Slots, i < j,
         arenas[i].in_use, arenas[j].in_use
  PROVE  arenas[i].base + arenas[i].size <= arenas[j].base
<1>1. /\ brk \in 0 .. PoolSize /\ taken \in Nat /\ PoolSize \in Nat
      /\ i \in Nat /\ j \in Nat
  BY PoolSizeAssumption DEF IInv, TypeOK, Slots
<1>2. CASE j < taken
  BY <1>2 DEF IInv, Layout
<1>3. CASE j >= taken
  <2>1. j = taken /\ brk < PoolSize
    BY <1>1, <1>3 DEF IInv, Layout, poor_arena
  <2>2. arenas[j].base = brk
    BY <2>1 DEF IInv, Layout, FreeArena
  <2>3. InUseBelow(arenas[i], brk)
    BY <1>1, <2>1 DEF IInv, Layout, poor_arena
  <2>4. QED
    BY <2>2, <2>3 DEF InUseBelow
<1>4. QED
  BY <1>1, <1>2, <1>3

(* A free clears one descriptor and takes exactly its block from the clients. *)
LEMMA FreeStep ==
  ASSUME IInv, NEW p \in 0 .. brk - 1, NEW i \in Slots,
         FirstHolder(arenas, i, p),
         arenas' = sysarena_defragment(Clear(arenas, i)),
         owned' = {b \in owned : ~ Contains(b, p)}
  PROVE  /\ i < taken /\ InUseBelow(arenas[i], brk)
         /\ arenas' = [arenas EXCEPT ![i] = poor_arena]
         /\ LiveBlocks(arenas') = owned'
         /\ owned' = owned \ {[base |-> arenas[i].base, size |-> arenas[i].size]}
         /\ [base |-> arenas[i].base, size |-> arenas[i].size] \in owned
<1> DEFINE BlockAt(j) == [base |-> arenas[j].base, size |-> arenas[j].size]
<1>1. /\ brk \in 0 .. PoolSize /\ PoolSize \in Nat /\ taken \in Nat
      /\ arenas \in [Slots -> Arena]
      /\ p \in Nat
  BY PoolSizeAssumption DEF IInv, TypeOK
<1>2. i < taken /\ InUseBelow(arenas[i], brk) /\ Holds(arenas[i], p)
  BY HolderIsBlock DEF FirstHolder
<1>3. arenas' = [arenas EXCEPT ![i] = poor_arena]
  BY DefragmentIdle DEF Clear
<1>4. arenas[i].size > 0 /\ arenas[i].used > 0
  <2>1. arenas[i].size \in Nat \ {0}
    BY <1>2, SizesAssumption DEF InUseBelow
  <2>2. arenas[i].used = arenas[i].size
    BY <1>2 DEF InUseBelow
  <2>3. QED
    BY <2>1, <2>2
<1>5. BlockAt(i) \in owned
  BY <1>2, <1>4 DEF IInv, Agreement, LiveBlocks, InUseBelow
<1>6. Contains(BlockAt(i), p)
  BY <1>2 DEF Holds, Contains
<1>7. ASSUME NEW j \in Slots, arenas[j].in_use, arenas[j].used > 0, j # i
      PROVE  ~ Contains(BlockAt(j), p)
  <2>1. \/ arenas[i].base + arenas[i].size <= arenas[j].base
        \/ arenas[j].base + arenas[j].size <= arenas[i].base
    BY <1>2, <1>7, BlocksApart DEF InUseBelow, Slots
  <2>2. /\ arenas[i].base \in Int /\ arenas[i].size \in Int
        /\ arenas[j].base \in Int /\ arenas[j].size \in Int
    BY <1>1 DEF Arena
  <2>3. QED
    BY <1>1, <1>2, <2>1, <2>2 DEF Contains, Holds
<1>8. owned' = owned \ {BlockAt(i)}
  <2>1. owned = {BlockAt(j) : j \in {k \in Slots : arenas[k].in_use /\ arenas[k].used > 0}}
    BY DEF IInv, Agreement, LiveBlocks
  <2>2. ASSUME NEW b \in owned, b # BlockAt(i)
        PROVE  ~ Contains(b, p)
    BY <1>7, <2>1, <2>2
  <2>3. QED
    BY <1>6, <2>2
<1>9. LiveBlocks(arenas') = owned'
  <2>1. {k \in Slots : arenas'[k].in_use /\ arenas'[k].used > 0}
          = {k \in Slots : arenas[k].in_use /\ arenas[k].used > 0} \ {i}
    BY <1>1, <1>3 DEF poor_arena
  <2>2. \A k \in Slots : k # i => arenas'[k] = arenas[k]
    BY <1>1, <1>3
  <2>3. LiveBlocks(arenas')
          = {BlockAt(j) : j \in {k \in Slots : arenas[k].in_use /\ arenas[k].used > 0} \ {i}}
    BY <2>1, <2>2 DEF LiveBlocks
  <2>4. ASSUME NEW j \in {k \in Slots : arenas[k].in_use /\ arenas[k].used > 0} \ {i}
        PROVE  BlockAt(j) # BlockAt(i)
    BY <1>6, <1>7
  <2>5. owned = {BlockAt(j) : j \in {k \in Slots : arenas[k].in_use /\ arenas[k].used > 0}}
    BY DEF IInv, Agreement, LiveBlocks
  <2>6. QED
    BY <1>8, <2>3, <2>4, <2>5
<1>10. QED
  BY <1>2, <1>3, <1>5, <1>8, <1>9

-----------------------------------------------------------------------------
(* The invariant is inductive *)

LEMMA InitIInv ==
  ASSUME Init
  PROVE  IInv
<1>1. /\ 0 \in Slots
      /\ PoolSize \in Nat /\ PoolSize > 0
      /\ MaxArenas \in Nat /\ MaxArenas > 0
  BY PoolSizeAssumption, MaxArenasAssumption DEF Slots
<1>2. /\ arenas[0] = FreeArena(0, PoolSize)
      /\ \A k \in Slots : k # 0 => arenas[k] = poor_arena
      /\ owned = {} /\ brk = 0 /\ taken = 0
  BY <1>1 DEF Init, sysarena_init
<1>3. TypeOK
  BY <1>1 DEF Init, sysarena_init, TypeOK, Arena, FreeArena, poor_arena, NULL
<1>4. Layout
  <2>1. \A k \in Slots : ~ (k < 0) /\ (k = 0 \/ k # 0)
    BY DEF Slots
  <2>2. PoolSize - brk = PoolSize
    BY <1>1, <1>2
  <2>3. /\ taken <= MaxArenas
        /\ brk < PoolSize =>
             /\ taken < MaxArenas
             /\ arenas[taken] = FreeArena(brk, PoolSize - brk)
    BY <1>1, <1>2, <2>2
  <2>4. \A k \in Slots :
          IF k < taken
          THEN arenas[k] = poor_arena \/ InUseBelow(arenas[k], brk)
          ELSE (k = taken /\ brk < PoolSize) \/ arenas[k] = poor_arena
    BY <1>1, <1>2, <2>1
  <2>5. QED
    BY <1>2, <2>1, <2>3, <2>4 DEF Layout
<1>5. \A k \in Slots : ~ (arenas[k].used > 0)
  BY <1>2 DEF FreeArena, poor_arena
<1>6. Agreement
  BY <1>2, <1>5 DEF Agreement, LiveBlocks
<1>7. QED
  BY <1>3, <1>4, <1>6 DEF IInv

LEMMA SplitIInv ==
  ASSUME IInv, NEW n \in Sizes, AllocSplit(n)
  PROVE  IInv'
<1> DEFINE new == [base |-> brk, size |-> n]
<1>1. n \in Nat /\ n > 0
  BY SizesAssumption
<1>2. /\ brk \in 0 .. PoolSize /\ taken \in Nat
      /\ PoolSize \in Nat /\ MaxArenas \in Nat
      /\ arenas \in [Slots -> Arena]
  BY PoolSizeAssumption, MaxArenasAssumption DEF IInv, TypeOK
<1>3. /\ brk + n < PoolSize /\ taken + 1 < MaxArenas
      /\ arenas[taken] = FreeArena(brk, PoolSize - brk)
      /\ arenas' = [k \in Slots |->
                      IF k < taken THEN arenas[k]
                      ELSE IF k = taken THEN TakenArena(brk, n)
                      ELSE IF k = taken + 1
                           THEN FreeArena(brk + n, PoolSize - (brk + n))
                      ELSE poor_arena]
      /\ owned' = owned \union {new}
      /\ brk' = brk + n
      /\ taken' = taken + 1
  BY SplitStep
<1>4. taken \in Slots /\ taken + 1 \in Slots
  BY <1>2, <1>3 DEF Slots
<1>5. /\ \A k \in Slots : k < taken => arenas'[k] = arenas[k]
      /\ arenas'[taken] = TakenArena(brk, n)
      /\ arenas'[taken + 1] = FreeArena(brk + n, PoolSize - (brk + n))
      /\ \A k \in Slots : k > taken + 1 => arenas'[k] = poor_arena
  BY <1>2, <1>3, <1>4 DEF Slots
<1>6. \A k \in Slots : \/ k < taken
                       \/ k = taken
                       \/ k = taken + 1
                       \/ k > taken + 1
  BY <1>2 DEF Slots
<1>7. TypeOK'
  <2>1. \A k \in Slots : /\ arenas'[k] \in Arena
                         /\ 0 <= arenas'[k].used
                         /\ arenas'[k].used <= arenas'[k].size
    BY <1>1, <1>2, <1>3, <1>5, <1>6
       DEF IInv, TypeOK, Arena, TakenArena, FreeArena, poor_arena, NULL
  <2>2. arenas' \in [Slots -> Arena]
    BY <1>3, <2>1
  <2>3. owned' \subseteq Block
    BY <1>2, <1>3 DEF IInv, TypeOK, Block
  <2>4. QED
    BY <1>1, <1>2, <1>3, <2>1, <2>2, <2>3 DEF TypeOK
<1>8. Layout'
  <2>1. taken' <= MaxArenas
    BY <1>2, <1>3
  <2>2. brk' < PoolSize =>
          /\ taken' < MaxArenas
          /\ arenas'[taken'] = FreeArena(brk', PoolSize - brk')
    BY <1>3, <1>5
  <2>3. \A k \in Slots :
          k < taken => arenas[k] = poor_arena \/ InUseBelow(arenas[k], brk + n)
    BY <1>1, <1>2, SizesAssumption DEF IInv, Layout, InUseBelow, TypeOK, Arena
  <2>4. InUseBelow(TakenArena(brk, n), brk + n)
    BY <1>1, <1>2 DEF InUseBelow, TakenArena
  <2>5. \A k \in Slots :
          IF k < taken'
          THEN arenas'[k] = poor_arena \/ InUseBelow(arenas'[k], brk')
          ELSE (k = taken' /\ brk' < PoolSize) \/ arenas'[k] = poor_arena
    <3> SUFFICES ASSUME NEW k \in Slots
                 PROVE  IF k < taken + 1
                        THEN \/ arenas'[k] = poor_arena
                             \/ InUseBelow(arenas'[k], brk + n)
                        ELSE \/ k = taken + 1 /\ brk + n < PoolSize
                             \/ arenas'[k] = poor_arena
      BY <1>3
    <3>1. CASE k < taken
      BY <1>2, <1>5, <2>3, <3>1 DEF Slots
    <3>2. CASE k = taken
      BY <1>2, <1>5, <2>4, <3>2
    <3>3. CASE k >= taken + 1
      BY <1>2, <1>3, <1>5, <3>3 DEF Slots
    <3>4. QED
      BY <1>2, <3>1, <3>2, <3>3 DEF Slots
  <2>6. ASSUME NEW k \in Slots, k < taken, arenas[k].in_use
        PROVE  arenas[k].base + arenas[k].size <= brk
    BY <2>6 DEF IInv, Layout, InUseBelow, poor_arena
  <2>7. ASSUME NEW i \in Slots, NEW j \in Slots,
               i < j, j < taken', arenas'[i].in_use, arenas'[j].in_use
        PROVE  arenas'[i].base + arenas'[i].size <= arenas'[j].base
    <3>1. CASE j < taken
      BY <1>2, <1>5, <2>7, <3>1 DEF IInv, Layout, Slots
    <3>2. CASE j = taken
      BY <1>2, <1>5, <2>6, <2>7, <3>2 DEF TakenArena
    <3>3. QED
      BY <1>2, <1>3, <2>7, <3>1, <3>2 DEF Slots
  <2>8. QED
    BY <2>1, <2>2, <2>5, <2>7 DEF Layout
<1>9. LiveBlocks(arenas') = LiveBlocks(arenas) \union {new}
  <2>1. \A k \in Slots :
          (arenas'[k].in_use /\ arenas'[k].used > 0)
            <=> (k = taken \/ (arenas[k].in_use /\ arenas[k].used > 0))
    <3>1. \A k \in Slots : k > taken => ~ arenas[k].in_use
      BY <1>2 DEF IInv, Layout, poor_arena, Slots
    <3>2. QED
      BY <1>1, <1>2, <1>3, <1>5, <1>6, <3>1
         DEF TakenArena, FreeArena, poor_arena, Slots
  <2>2. \A k \in Slots :
          arenas[k].in_use /\ arenas[k].used > 0 => arenas'[k] = arenas[k]
    BY <1>2, <1>3, <1>5, <1>6 DEF IInv, Layout, poor_arena, FreeArena, Slots
  <2>3. new = [base |-> arenas'[taken].base, size |-> arenas'[taken].size]
    BY <1>5 DEF TakenArena
  <2>4. QED
    BY <1>4, <2>1, <2>2, <2>3 DEF LiveBlocks
<1>10. Agreement'
  BY <1>3, <1>9 DEF IInv, Agreement
<1>11. QED
  BY <1>7, <1>8, <1>10 DEF IInv

LEMMA FillIInv ==
  ASSUME IInv, NEW n \in Sizes, AllocFill(n)
  PROVE  IInv'
<1> DEFINE new == [base |-> brk, size |-> n]
<1>1. n \in Nat /\ n > 0
  BY SizesAssumption
<1>2. /\ brk \in 0 .. PoolSize /\ taken \in Nat
      /\ PoolSize \in Nat /\ MaxArenas \in Nat
      /\ arenas \in [Slots -> Arena]
  BY PoolSizeAssumption, MaxArenasAssumption DEF IInv, TypeOK
<1>3. /\ brk + n = PoolSize /\ taken < MaxArenas
      /\ arenas[taken] = FreeArena(brk, PoolSize - brk)
      /\ arenas' = [arenas EXCEPT ![taken] = TakenArena(brk, n)]
      /\ owned' = owned \union {new}
      /\ brk' = brk + n
      /\ taken' = taken + 1
  BY FillStep
<1>4. taken \in Slots
  BY <1>2, <1>3 DEF Slots
<1>5. /\ \A k \in Slots : k # taken => arenas'[k] = arenas[k]
      /\ arenas'[taken] = TakenArena(brk, n)
  BY <1>2, <1>3, <1>4
<1>6. \A k \in Slots : k > taken => arenas[k] = poor_arena
  BY <1>2 DEF IInv, Layout, Slots
<1>7. TypeOK'
  <2>1. \A k \in Slots : /\ arenas'[k] \in Arena
                         /\ 0 <= arenas'[k].used
                         /\ arenas'[k].used <= arenas'[k].size
    <3>1. \A k \in Slots : k # taken =>
            /\ arenas'[k] \in Arena
            /\ 0 <= arenas'[k].used /\ arenas'[k].used <= arenas'[k].size
      BY <1>5 DEF IInv, TypeOK
    <3>2. /\ arenas'[taken] \in Arena
          /\ 0 <= arenas'[taken].used
          /\ arenas'[taken].used <= arenas'[taken].size
      BY <1>1, <1>2, <1>5 DEF Arena, TakenArena
    <3>3. QED
      BY <3>1, <3>2
  <2>2. arenas' \in [Slots -> Arena]
    BY <1>2, <1>3, <2>1
  <2>3. owned' \subseteq Block
    BY <1>2, <1>3 DEF IInv, TypeOK, Block
  <2>4. QED
    BY <1>1, <1>2, <1>3, <2>1, <2>2, <2>3 DEF TypeOK
<1>8. Layout'
  <2>1. taken' <= MaxArenas /\ ~ (brk' < PoolSize)
    BY <1>2, <1>3
  <2>2. \A k \in Slots :
          k < taken => arenas[k] = poor_arena \/ InUseBelow(arenas[k], brk + n)
    BY <1>1, <1>2, SizesAssumption DEF IInv, Layout, InUseBelow, TypeOK, Arena
  <2>3. InUseBelow(TakenArena(brk, n), brk + n)
    BY <1>1, <1>2 DEF InUseBelow, TakenArena
  <2>4. \A k \in Slots :
          IF k < taken'
          THEN arenas'[k] = poor_arena \/ InUseBelow(arenas'[k], brk')
          ELSE (k = taken' /\ brk' < PoolSize) \/ arenas'[k] = poor_arena
    <3> SUFFICES ASSUME NEW k \in Slots
                 PROVE  IF k < taken + 1
                        THEN \/ arenas'[k] = poor_arena
                             \/ InUseBelow(arenas'[k], brk + n)
                        ELSE arenas'[k] = poor_arena
      BY <1>3
    <3>1. CASE k < taken
      BY <1>2, <1>5, <2>2, <3>1 DEF Slots
    <3>2. CASE k = taken
      BY <1>2, <1>5, <2>3, <3>2
    <3>3. CASE k > taken
      BY <1>2, <1>5, <1>6, <3>3 DEF Slots
    <3>4. QED
      BY <1>2, <3>1, <3>2, <3>3 DEF Slots
  <2>5. ASSUME NEW k \in Slots, k < taken, arenas[k].in_use
        PROVE  arenas[k].base + arenas[k].size <= brk
    BY <2>5 DEF IInv, Layout, InUseBelow, poor_arena
  <2>6. ASSUME NEW i \in Slots, NEW j \in Slots,
               i < j, j < taken', arenas'[i].in_use, arenas'[j].in_use
        PROVE  arenas'[i].base + arenas'[i].size <= arenas'[j].base
    <3>1. CASE j < taken
      BY <1>2, <1>5, <2>6, <3>1 DEF IInv, Layout, Slots
    <3>2. CASE j = taken
      BY <1>2, <1>5, <2>5, <2>6, <3>2 DEF TakenArena
    <3>3. QED
      BY <1>2, <1>3, <2>6, <3>1, <3>2 DEF Slots
  <2>7. QED
    BY <2>1, <2>4, <2>6 DEF Layout
<1>9. LiveBlocks(arenas') = LiveBlocks(arenas) \union {new}
  <2>1. \A k \in Slots :
          (arenas'[k].in_use /\ arenas'[k].used > 0)
            <=> (k = taken \/ (arenas[k].in_use /\ arenas[k].used > 0))
    BY <1>1, <1>5 DEF TakenArena
  <2>2. \A k \in Slots :
          arenas[k].in_use /\ arenas[k].used > 0 => arenas'[k] = arenas[k]
    BY <1>3, <1>5 DEF FreeArena
  <2>3. new = [base |-> arenas'[taken].base, size |-> arenas'[taken].size]
    BY <1>5 DEF TakenArena
  <2>4. QED
    BY <1>4, <2>1, <2>2, <2>3 DEF LiveBlocks
<1>10. Agreement'
  BY <1>3, <1>9 DEF IInv, Agreement
<1>11. QED
  BY <1>7, <1>8, <1>10 DEF IInv

LEMMA FreeIInv ==
  ASSUME IInv, NEW p \in 0 .. brk - 1, NEW i \in Slots,
         FirstHolder(arenas, i, p),
         arenas' = sysarena_defragment(Clear(arenas, i)),
         owned' = {b \in owned : ~ Contains(b, p)},
         UNCHANGED <<brk, taken>>
  PROVE  IInv'
<1>1. /\ brk \in 0 .. PoolSize /\ taken \in Nat
      /\ PoolSize \in Nat /\ arenas \in [Slots -> Arena]
  BY PoolSizeAssumption DEF IInv, TypeOK
<1>2. /\ i < taken
      /\ arenas' = [arenas EXCEPT ![i] = poor_arena]
      /\ LiveBlocks(arenas') = owned'
  BY FreeStep
<1>3. /\ \A k \in Slots : k # i => arenas'[k] = arenas[k]
      /\ arenas'[i] = poor_arena
  BY <1>1, <1>2
<1>4. TypeOK'
  <2>1. poor_arena \in Arena /\ poor_arena.used = 0 /\ poor_arena.size = 0
    BY DEF poor_arena, Arena, NULL
  <2>2. arenas' \in [Slots -> Arena]
    BY <1>1, <1>2, <2>1
  <2>3. \A k \in Slots : 0 <= arenas'[k].used /\ arenas'[k].used <= arenas'[k].size
    BY <1>3, <2>1 DEF IInv, TypeOK
  <2>4. QED
    BY <2>2, <2>3 DEF IInv, TypeOK, Block
<1>5. Layout'
  <2>1. brk < PoolSize => taken \in Slots /\ taken # i
    BY <1>1, <1>2, MaxArenasAssumption DEF IInv, Layout, Slots
  <2>2. brk < PoolSize =>
          taken < MaxArenas /\ arenas'[taken] = FreeArena(brk, PoolSize - brk)
    BY <1>3, <2>1 DEF IInv, Layout
  <2>3. \A k \in Slots :
          IF k < taken
          THEN arenas'[k] = poor_arena \/ InUseBelow(arenas'[k], brk)
          ELSE (k = taken /\ brk < PoolSize) \/ arenas'[k] = poor_arena
    BY <1>3 DEF IInv, Layout
  <2>4. \A k \in Slots : arenas'[k].in_use => arenas'[k] = arenas[k]
    BY <1>3 DEF poor_arena
  <2>5. \A k, j \in Slots :
          k < j /\ j < taken /\ arenas'[k].in_use /\ arenas'[j].in_use
            => arenas'[k].base + arenas'[k].size <= arenas'[j].base
    BY <2>4 DEF IInv, Layout
  <2>6. QED
    BY <2>2, <2>3, <2>5 DEF IInv, Layout
<1>6. QED
  BY <1>2, <1>4, <1>5 DEF IInv, Agreement

LEMMA NextIInv ==
  ASSUME IInv, [Next]_vars
  PROVE  IInv'
<1>1. ASSUME NEW n \in Sizes, AllocSplit(n)
      PROVE  IInv'
  BY <1>1, SplitIInv
<1>2. ASSUME NEW n \in Sizes, AllocFill(n)
      PROVE  IInv'
  BY <1>2, FillIInv
<1>3. ASSUME UNCHANGED vars
      PROVE  IInv'
  BY <1>3 DEF vars, IInv, TypeOK, Layout, Agreement, InUseBelow, LiveBlocks
<1>4. ASSUME NEW p \in 0 .. brk - 1, sysarena_free(p)
      PROVE  IInv'
  BY <1>3, <1>4, FreeIInv DEF sysarena_free
<1>5. ASSUME CallDefragment
      PROVE  IInv'
  BY <1>3, <1>5, DefragmentIdle DEF CallDefragment, vars
<1>6. QED
  BY <1>1, <1>2, <1>3, <1>4, <1>5 DEF Next, sysarena_alloc, AllocFails

(* The table keeps its layout whatever is allocated, freed and defragmented. *)
THEOREM InductiveInvariant == Spec => []IInv
BY InitIInv, NextIInv, PTL DEF Spec

-----------------------------------------------------------------------------
(* The properties the runs check *)

(* The variables keep their types, and no descriptor counts more bytes used  *)
(* than it has: size - used (sysarena-fixed.c:57) never wraps.               *)
THEOREM TypeCorrect == Spec => []TypeOK
BY InductiveInvariant, PTL DEF IInv

(* Descriptors stay in address order: blocks, then the remainder, then none. *)
THEOREM LayoutKept == Spec => []Layout
BY InductiveInvariant, PTL DEF IInv

LEMMA IInvTracked ==
  ASSUME IInv
  PROVE  Tracked
<1>1. arenas \in [Slots -> Arena]
  BY DEF IInv, TypeOK
<1>2. ASSUME NEW i \in Slots, NEW j \in Slots, i < j,
             arenas[i].in_use, arenas[j].in_use
      PROVE  Bytes(arenas, i) \intersect Bytes(arenas, j) = {}
  <2>1. arenas[i].base + arenas[i].size <= arenas[j].base
    BY <1>2, BlocksApart
  <2>2. /\ arenas[i].base \in Int /\ arenas[i].size \in Int
        /\ arenas[j].base \in Int /\ arenas[j].size \in Int
    BY <1>1 DEF Arena
  <2>3. QED
    BY <2>1, <2>2 DEF Bytes
<1>3. \A i, j \in Slots : i # j => i < j \/ j < i
  BY MaxArenasAssumption DEF Slots
<1>4. QED
  BY <1>2, <1>3 DEF Tracked, IInv, Agreement

(* Each block a client owns stays found through one descriptor, its own, and *)
(* no two descriptors share a byte.                                          *)
THEOREM EveryBlockTracked == Spec => []Tracked
BY InductiveInvariant, IInvTracked, PTL

(* The merge of sysarena_defragment is unreachable through the allocator.    *)
THEOREM MergeNeverHappens == Spec => []NothingToMerge
BY InductiveInvariant, NoPairMerges, PTL

LEMMA IInvDescriptorBudget ==
  ASSUME IInv
  PROVE  DescriptorBudget
<1>1. taken = MaxArenas => brk = PoolSize
  BY PoolSizeAssumption DEF IInv, Layout, TypeOK
<1>2. ASSUME taken = MaxArenas, NEW n \in Sizes
      PROVE  ~ Bump!CanAlloc(n)
  BY <1>1, <1>2, SizesAssumption, PoolSizeAssumption DEF Bump!CanAlloc
<1>3. QED
  BY <1>2, CanAllocIsBump DEF DescriptorBudget, IInv, Layout

(* A table of MaxArenas descriptors serves MaxArenas requests in its life.   *)
THEOREM DescriptorsBoundRequests == Spec => []DescriptorBudget
BY InductiveInvariant, IInvDescriptorBudget, PTL

LEMMA IInvMergedOnlyWhole == IInv => MergedOnlyWhole
<1> SUFFICES ASSUME IInv, sysarena_is_fully_merged(arenas)
             PROVE  brk = 0 \/ owned = {[base |-> 0, size |-> PoolSize]}
  BY DEF MergedOnlyWhole
<1>1. PICK i \in Slots : {j \in Slots : arenas[j].in_use} = {i}
  BY DEF sysarena_is_fully_merged
<1>2. arenas[0].size = PoolSize /\ arenas[0].base = 0 /\ 0 \in Slots
  BY MaxArenasAssumption DEF sysarena_is_fully_merged, FirstIsPool, Slots
<1>3. arenas[0] # poor_arena
  BY <1>2, PoolSizeAssumption DEF poor_arena
<1>4. CASE taken = 0
  BY <1>2, <1>3, <1>4, PoolSizeAssumption
     DEF IInv, TypeOK, Layout, FreeArena
<1>5. CASE taken # 0
  <2>1. InUseBelow(arenas[0], brk)
    BY <1>2, <1>3, <1>5 DEF IInv, TypeOK, Layout
  <2>2. arenas[0].used = PoolSize /\ arenas[0].in_use /\ PoolSize > 0
    BY <1>2, <2>1, PoolSizeAssumption DEF InUseBelow
  <2>3. \A j \in Slots : arenas[j].in_use => j = 0
    BY <1>1, <1>2, <2>2
  <2>4. LiveBlocks(arenas) = {[base |-> 0, size |-> PoolSize]}
    BY <1>2, <2>2, <2>3 DEF LiveBlocks
  <2> QED
    BY <2>4 DEF IInv, Agreement
<1> QED
  BY <1>4, <1>5

(* sysarena_is_fully_merged is true only before the first request, or while  *)
(* the whole pool is one block in use.                                       *)
THEOREM MergedPoolIsWhole == Spec => []MergedOnlyWhole
BY InductiveInvariant, IInvMergedOnlyWhole, PTL

-----------------------------------------------------------------------------
(* What a step may do, and what it implements *)

(* A block in use ends below brk, so a new one is none of them.              *)
LEMMA NewBlockIsNew ==
  ASSUME IInv, NEW b \in LiveBlocks(arenas)
  PROVE  b.base + b.size <= brk /\ b \in Block /\ b.size > 0
<1>1. PICK i \in Slots : /\ arenas[i].in_use /\ arenas[i].used > 0
                         /\ b = [base |-> arenas[i].base, size |-> arenas[i].size]
  BY DEF LiveBlocks
<1>2. InUseBelow(arenas[i], brk)
  BY <1>1 DEF IInv, Layout, poor_arena, FreeArena
<1>3. b \in Block
  BY DEF IInv, Agreement, TypeOK
<1>4. QED
  BY <1>1, <1>2, <1>3, SizesAssumption DEF InUseBelow, Block

AllocEffect(n) ==
  /\ Bump!CanAlloc(n)
  /\ owned' = owned \union {[base |-> brk, size |-> n]}
  /\ brk' = brk + n
  /\ taken' = taken + 1

FreeEffect(b) ==
  /\ b \in owned
  /\ owned' = owned \ {b}
  /\ UNCHANGED <<brk, taken>>

(* Every step cuts a block off the break, takes one block back, or does      *)
(* nothing at all.                                                           *)
LEMMA StepEffect ==
  ASSUME IInv, [Next]_vars
  PROVE  \/ \E n \in Sizes : AllocEffect(n)
         \/ \E b \in Block : FreeEffect(b)
         \/ UNCHANGED vars
<1>1. ASSUME NEW n \in Sizes, AllocSplit(n)
      PROVE  AllocEffect(n)
  BY <1>1, SplitStep DEF AllocEffect, Bump!CanAlloc
<1>2. ASSUME NEW n \in Sizes, AllocFill(n)
      PROVE  AllocEffect(n)
  BY <1>2, FillStep DEF AllocEffect, Bump!CanAlloc
<1>3. ASSUME NEW p \in 0 .. brk - 1, sysarena_free(p), ~ UNCHANGED vars
      PROVE  \E b \in Block : FreeEffect(b)
  <2>1. PICK i \in Slots :
          /\ FirstHolder(arenas, i, p)
          /\ arenas' = sysarena_defragment(Clear(arenas, i))
          /\ owned' = {b \in owned : ~ Contains(b, p)}
          /\ UNCHANGED <<brk, taken>>
    BY <1>3 DEF sysarena_free
  <2>2. FreeEffect([base |-> arenas[i].base, size |-> arenas[i].size])
    BY <2>1, FreeStep DEF FreeEffect
  <2>3. [base |-> arenas[i].base, size |-> arenas[i].size] \in Block
    BY <2>2 DEF FreeEffect, IInv, TypeOK
  <2>4. QED
    BY <2>2, <2>3
<1>4. ASSUME CallDefragment
      PROVE  UNCHANGED vars
  BY <1>4, DefragmentIdle DEF CallDefragment, vars
<1>5. QED
  BY <1>1, <1>2, <1>3, <1>4 DEF Next, sysarena_alloc, AllocFails

RoomAgrees == \A n \in Sizes : CanAlloc(arenas, n) <=> Bump!CanAlloc(n)

LEMMA RefusalStays ==
  ASSUME IInv, RoomAgrees', [Next]_vars, NEW n \in Sizes, CanAlloc(arenas', n)
  PROVE  CanAlloc(arenas, n)
<1>1. /\ brk \in Nat /\ taken \in Nat
      /\ PoolSize \in Nat /\ MaxArenas \in Nat /\ n \in Nat /\ n > 0
  BY PoolSizeAssumption, MaxArenasAssumption, SizesAssumption DEF IInv, TypeOK
<1>2. \/ brk' + n < PoolSize /\ taken' + 1 < MaxArenas
      \/ brk' + n = PoolSize
  BY DEF RoomAgrees, Bump!CanAlloc
<1>3. Bump!CanAlloc(n)
  <2>1. ASSUME NEW m \in Sizes, AllocEffect(m)
        PROVE  Bump!CanAlloc(n)
    BY <1>1, <1>2, <2>1, SizesAssumption DEF AllocEffect, Bump!CanAlloc
  <2>2. ASSUME UNCHANGED <<brk, taken>>
        PROVE  Bump!CanAlloc(n)
    BY <1>2, <2>2 DEF Bump!CanAlloc
  <2>3. QED
    BY <2>1, <2>2, StepEffect DEF FreeEffect, vars
<1>4. QED
  BY <1>3, CanAllocIsBump

(* A request size refused once is refused for ever, whatever is freed.       *)
THEOREM RefusalsArePermanent == Spec => ExhaustionIsPermanent
<1>1. IInv => RoomAgrees
  BY CanAllocIsBump DEF RoomAgrees
<1>2. IInv /\ RoomAgrees' /\ [Next]_vars
        => [\A n \in Sizes : CanAlloc(arenas', n) => CanAlloc(arenas, n)]_vars
  BY RefusalStays
<1>3. QED
  BY <1>1, <1>2, InductiveInvariant, PTL DEF Spec, ExhaustionIsPermanent

LEMMA SameBlocksSameTable ==
  ASSUME IInv, [Next]_vars, owned' = owned
  PROVE  arenas' = arenas
<1>1. \A n \in Sizes : ~ AllocEffect(n)
  <2> SUFFICES ASSUME NEW n \in Sizes, AllocEffect(n)
               PROVE  FALSE
    OBVIOUS
  <2>1. [base |-> brk, size |-> n] \in LiveBlocks(arenas)
    BY DEF AllocEffect, IInv, Agreement
  <2>2. brk + n <= brk /\ n > 0
    BY <2>1, NewBlockIsNew
  <2>3. QED
    BY <2>2, SizesAssumption DEF IInv, TypeOK
<1>2. \A b \in Block : ~ FreeEffect(b)
  BY DEF FreeEffect
<1>3. QED
  BY <1>1, <1>2, StepEffect DEF vars

(* A free of nothing owned, and a defragmentation, leave the table alone.    *)
THEOREM StaleFreeDoesNothing == Spec => StaleFreeInert
<1>1. IInv /\ [Next]_vars => [owned' = owned => arenas' = arenas]_vars
  BY SameBlocksSameTable
<1>2. QED
  BY <1>1, InductiveInvariant, PTL DEF Spec, StaleFreeInert

(* The table of descriptors implements a break that only moves up.           *)
THEOREM RefinesBumpArena == Spec => ImplementsBumpArena
<1>1. Init => Bump!Init
  BY InitIInv DEF Init, Bump!Init, IInv, Agreement
<1>2. IInv /\ IInv' /\ [Next]_vars => [Bump!Next]_(Bump!vars)
  <2> SUFFICES ASSUME IInv, IInv', [Next]_vars
               PROVE  [Bump!Next]_(Bump!vars)
    OBVIOUS
  <2>1. owned = LiveBlocks(arenas) /\ owned' = LiveBlocks(arenas')
    BY DEF IInv, Agreement
  <2>2. ASSUME NEW n \in Sizes, AllocEffect(n)
        PROVE  Bump!Alloc(n)
    BY <2>1, <2>2 DEF AllocEffect, Bump!Alloc
  <2>3. ASSUME NEW b \in Block, FreeEffect(b)
        PROVE  Bump!Free(b)
    BY <2>1, <2>3 DEF FreeEffect, Bump!Free
  <2>4. ASSUME UNCHANGED vars
        PROVE  UNCHANGED Bump!vars
    BY <2>1, <2>4 DEF vars, Bump!vars
  <2>5. QED
    BY <2>2, <2>3, <2>4, StepEffect DEF Bump!Next, Bump!Block, Block
<1>3. QED
  BY <1>1, <1>2, InductiveInvariant, PTL DEF Spec, ImplementsBumpArena, Bump!Spec

(* Blocks handed out never overlap a block in use, and a free takes back one. *)
THEOREM RefinesAllocator == Spec => ImplementsAllocator
<1>1. Init => Abstract!Init
  BY InitIInv DEF Init, Abstract!Init, IInv, Agreement
<1>2. IInv /\ IInv' /\ [Next]_vars => [Abstract!Next]_(LiveBlocks(arenas))
  <2> SUFFICES ASSUME IInv, IInv', [Next]_vars
               PROVE  [Abstract!Next]_(LiveBlocks(arenas))
    OBVIOUS
  <2>1. owned = LiveBlocks(arenas) /\ owned' = LiveBlocks(arenas')
    BY DEF IInv, Agreement
  <2>2. ASSUME NEW n \in Sizes, AllocEffect(n)
        PROVE  \E b \in Block : Abstract!Malloc(b)
    <3> DEFINE new == [base |-> brk, size |-> n]
    <3>1. new \in Block
      BY DEF IInv, TypeOK, Block
    <3>2. brk + n <= PoolSize
      BY <2>2, PoolSizeAssumption, SizesAssumption
         DEF AllocEffect, Bump!CanAlloc, IInv, TypeOK
    <3>3. \A c \in LiveBlocks(arenas) : c.base + c.size <= brk
      BY NewBlockIsNew
    <3>4. Abstract!Malloc(new)
      BY <2>1, <2>2, <3>2, <3>3
         DEF AllocEffect, Abstract!Malloc, Abstract!Within, Abstract!Disjoint
    <3>5. QED
      BY <3>1, <3>4
  <2>3. ASSUME NEW b \in Block, FreeEffect(b)
        PROVE  Abstract!Free(b)
    BY <2>1, <2>3 DEF FreeEffect, Abstract!Free
  <2>4. ASSUME UNCHANGED vars
        PROVE  UNCHANGED LiveBlocks(arenas)
    BY <2>1, <2>4 DEF vars
  <2>5. QED
    BY <2>2, <2>3, <2>4, StepEffect DEF Abstract!Next, Abstract!Block, Block
<1>3. QED
  BY <1>1, <1>2, InductiveInvariant, PTL
     DEF Spec, ImplementsAllocator, Abstract!Spec
=============================================================================
