----------------------------- MODULE BumpArena -----------------------------
(***************************************************************************)
(* What sysarena amounts to once its descriptor table is forgotten: a      *)
(* break that only moves up, and a count of the descriptors used up.  No   *)
(* free gives back a byte or a descriptor.  The modules above the          *)
(* allocator rely on this description of it.                               *)
(***************************************************************************)
EXTENDS Integers

CONSTANTS
  PoolSize,     \* bytes in the pool
  MaxArenas,    \* descriptors in the table
  Sizes         \* the request sizes clients make

VARIABLES
  live,         \* the blocks owned by the client
  brk,          \* every byte below brk has been handed out at some time
  taken         \* blocks handed out so far, each has cost a descriptor

vars == <<live, brk, taken>>

Block == [base : 0 .. PoolSize, size : Sizes]

Init == live = {} /\ brk = 0 /\ taken = 0

(***************************************************************************)
(* A request that leaves memory over needs a second descriptor for the     *)
(* rest; one that takes the rest exactly does not.                         *)
(***************************************************************************)
CanAlloc(n) ==
  \/ brk + n < PoolSize /\ taken + 1 < MaxArenas
  \/ brk + n = PoolSize

Alloc(n) ==
  /\ CanAlloc(n)
  /\ live' = live \union {[base |-> brk, size |-> n]}
  /\ brk' = brk + n
  /\ taken' = taken + 1

Free(b) ==
  /\ b \in live
  /\ live' = live \ {b}
  /\ UNCHANGED <<brk, taken>>

Next ==
  \/ \E n \in Sizes : Alloc(n)
  \/ \E b \in Block : Free(b)

Spec == Init /\ [][Next]_vars
=============================================================================
