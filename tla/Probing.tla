------------------------------ MODULE Probing ------------------------------
(***************************************************************************)
(* The search of zynkFindEntry, as what it answers: the slot a linear      *)
(* probe from the hash of a name ends at.  Lookup models the loop itself   *)
(* and is checked and proved against it.                                   *)
(***************************************************************************)
EXTENDS Integers

CONSTANTS
  Keys,         \* the names clients use
  EmptyKey,     \* the name ""
  Hash,         \* zynk_hash_string
  Capacity,     \* slots of a table
  Missing       \* the name of a slot whose name is NULL

ASSUME CapacityAssumption == Capacity \in Nat \ {0}
ASSUME HashAssumption == Hash \in [Keys -> Nat]
ASSUME MissingAssumption == Missing \notin Keys

Slots == 0 .. Capacity - 1

Probe(k, j) == (Hash[k] + j) % Capacity

(* zynk_len of a NULL name is 0, so "" also matches a slot with no name.     *)
Matches(name, k) == name = k \/ (k = EmptyKey /\ name = Missing)

Stops(t, k, niu, i) == (niu /\ t[i].name = Missing) \/ Matches(t[i].name, k)

(* Faulty variant: the probe leaves out the last slot of the round.          *)
ProbesShort == 0 .. Capacity - 2

Probes == 0 .. Capacity - 1

(* Faulty variant: a search for a variable gives up at the first tombstone.  *)
FindBeforeTombstone(t, k, niu) ==
  LET hits == {j \in Probes : t[Probe(k, j)].name \in {k, Missing}}
  IN  {Probe(k, j) : j \in {x \in hits :
         /\ \A m \in hits : x <= m
         /\ niu \/ t[Probe(k, x)].name = k}}

(* The slot the probe ends at, if any.  The lookup in env->enclosing behind  *)
(* the loop (lines 135-138) is never reached: the loop only ever returns.    *)
zynkFindEntry(t, k, niu) ==
  LET hits == {j \in Probes : Stops(t, k, niu, Probe(k, j))}
  IN  {Probe(k, j) : j \in {x \in hits : \A m \in hits : x <= m}}
=============================================================================
