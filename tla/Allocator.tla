----------------------------- MODULE Allocator -----------------------------
(***************************************************************************)
(* What the runtime expects of a memory manager, with nothing said about   *)
(* how memory is found: a request is answered with a block of the pool     *)
(* that overlaps no block still owned, or not at all; returning a block    *)
(* takes exactly that block out.  Addresses are offsets into the pool.     *)
(***************************************************************************)
EXTENDS Integers

CONSTANTS
  PoolSize,   \* bytes in the pool the manager was given
  Sizes       \* the request sizes clients make

VARIABLE live   \* the blocks owned by the client

Block == [base : 0 .. PoolSize, size : Sizes]

Within(b) == b.base + b.size <= PoolSize

Disjoint(b, c) == b.base + b.size <= c.base \/ c.base + c.size <= b.base

TypeOK == live \subseteq Block

Init == live = {}

Malloc(b) ==
  /\ Within(b)
  /\ \A c \in live : Disjoint(b, c)
  /\ live' = live \union {b}

Free(b) ==
  /\ b \in live
  /\ live' = live \ {b}

Next == \E b \in Block : Malloc(b) \/ Free(b)

Spec == Init /\ [][Next]_live
=============================================================================
