--------------------------- MODULE EnvTableProofs ---------------------------
(***************************************************************************)
(* Proofs about the variable tables, for every number of slots, every hash *)
(* function, every finite set of environments and every set of names and   *)
(* objects.  The inductive invariant adds to the properties what links     *)
(* them: the blocks a table owns cover what freeing it gives back, and no  *)
(* count of references ever reaches the width of ref_count.                *)
(***************************************************************************)
EXTENDS EnvTable, LeastNumbers, FiniteSetTheorems, TLAPS

-----------------------------------------------------------------------------
(* The search *)

LEMMA SlotsAreNumbers == Slots \in SUBSET Nat /\ Probes = Slots
BY CapacityAssumption DEF Slots, Probes

(* Every remainder is reached by adding less than the divisor. *)
LEMMA RemainderReached ==
  ASSUME NEW C \in Nat \ {0}, NEW h \in Nat, NEW i \in 0 .. C - 1
  PROVE  \E j \in 0 .. C - 1 : (h + j) % C = i
<1>1. (h % C) \in 0 .. C - 1 /\ h = C * (h \div C) + (h % C) /\ h \div C \in Int
  OBVIOUS
<1> DEFINE d == IF i >= h % C THEN i - (h % C) ELSE i - (h % C) + C
           q == IF i >= h % C THEN h \div C ELSE (h \div C) + 1
<1>2. d \in 0 .. C - 1 /\ q \in Int
  BY <1>1
<1>3. h + d = C * q + i
  BY <1>1
<1> HIDE DEF d, q
<1>4. (C * q + i) % C = i
  BY <1>2
<1>5. QED
  BY <1>2, <1>3, <1>4

(* One round of the probe visits every slot, wherever it starts. *)
LEMMA ProbeReaches ==
  ASSUME NEW k \in Keys, NEW i \in Slots
  PROVE  \E j \in Probes : Probe(k, j) = i
<1>1. Capacity \in Nat \ {0} /\ Hash[k] \in Nat /\ i \in 0 .. Capacity - 1
  BY CapacityAssumption, HashAssumption DEF Slots
<1>2. PICK j \in 0 .. Capacity - 1 : (Hash[k] + j) % Capacity = i
  BY <1>1, RemainderReached
<1>3. QED
  BY <1>2 DEF Probe, Probes

LEMMA ProbeIsSlot ==
  ASSUME NEW k \in Keys, NEW j \in Probes
  PROVE  Probe(k, j) \in Slots
<1>1. Capacity \in Nat /\ Capacity > 0 /\ Hash[k] + j \in Nat
  BY CapacityAssumption, HashAssumption DEF Probes
<1>2. ((Hash[k] + j) % Capacity) \in 0 .. Capacity - 1
  BY <1>1
<1>3. QED
  BY <1>2 DEF Probe, Slots

(* A search ends exactly when some slot of the table stops it. *)
LEMMA FindEnds ==
  ASSUME NEW t, NEW k \in Keys, NEW niu \in BOOLEAN, NEW i \in Slots, Stops(t, k, niu, i)
  PROVE  zynkFindEntry(t, k, niu) # {}
<1> DEFINE hits == {j \in Probes : Stops(t, k, niu, Probe(k, j))}
<1>1. hits # {}
  BY ProbeReaches
<1>2. hits \in SUBSET Nat
  BY SlotsAreNumbers
<1>3. PICK j \in hits : \A m \in hits : j <= m
  BY <1>1, <1>2, LeastNumber
<1>4. QED
  BY <1>3 DEF zynkFindEntry

LEMMA FindStops ==
  ASSUME NEW t, NEW k \in Keys, NEW niu \in BOOLEAN, NEW i \in zynkFindEntry(t, k, niu)
  PROVE  i \in Slots /\ Stops(t, k, niu, i)
BY ProbeIsSlot DEF zynkFindEntry

LEMMA FindIsOne ==
  ASSUME NEW t, NEW k \in Keys, NEW niu \in BOOLEAN,
         NEW i \in zynkFindEntry(t, k, niu), NEW j \in zynkFindEntry(t, k, niu)
  PROVE  i = j
<1> DEFINE hits == {x \in Probes : Stops(t, k, niu, Probe(k, x))}
<1>1. PICK x \in hits : i = Probe(k, x) /\ \A m \in hits : x <= m
  BY DEF zynkFindEntry
<1>2. PICK y \in hits : j = Probe(k, y) /\ \A m \in hits : y <= m
  BY DEF zynkFindEntry
<1>3. x \in Nat /\ y \in Nat
  BY SlotsAreNumbers
<1>4. x <= y /\ y <= x
  BY <1>1, <1>2
<1>5. QED
  BY <1>1, <1>2, <1>3, <1>4

-----------------------------------------------------------------------------
(* Counting slots *)

LEMMA SlotsFinite ==
  /\ IsFiniteSet(Slots) /\ Cardinality(Slots) = Capacity
  /\ IsFiniteSet(Envs \X Slots)
<1>1. IsFiniteSet(Slots) /\ Cardinality(Slots) = Capacity
  BY CapacityAssumption, FS_Interval DEF Slots
<1>2. QED
  BY <1>1, EnvsAssumption, FS_Product

LEMMA NamedSize ==
  ASSUME NEW t
  PROVE  /\ IsFiniteSet(Named(t))
         /\ Cardinality(Named(t)) \in 0 .. Capacity
         /\ Cardinality(Named(t)) < Capacity => \E i \in Slots : t[i].name = Missing
<1>1. Named(t) \in SUBSET Slots
  BY DEF Named
<1>2. IsFiniteSet(Named(t)) /\ Cardinality(Named(t)) <= Capacity
  BY <1>1, SlotsFinite, FS_Subset
<1>3. Cardinality(Named(t)) \in Nat
  BY <1>2, FS_CardinalityType
<1>4. (\A i \in Slots : t[i].name # Missing) => Named(t) = Slots
  BY DEF Named
<1>5. QED
  BY <1>2, <1>3, <1>4, SlotsFinite, CapacityAssumption

(* A slot given a name is one more, a slot that loses it one less. *)
LEMMA NamedChanges ==
  ASSUME NEW t \in [Slots -> Entry], NEW i \in Slots, NEW x \in Entry
  PROVE  LET u == [t EXCEPT ![i] = x]
         IN  /\ t[i].name = Missing /\ x.name # Missing
                  => Cardinality(Named(u)) = Cardinality(Named(t)) + 1
             /\ t[i].name # Missing /\ x.name = Missing
                  => Cardinality(Named(u)) = Cardinality(Named(t)) - 1
             /\ (t[i].name = Missing <=> x.name = Missing)
                  => Cardinality(Named(u)) = Cardinality(Named(t))
<1> DEFINE u == [t EXCEPT ![i] = x]
<1>1. ASSUME x.name # Missing
      PROVE  Named(u) = Named(t) \union {i}
  BY <1>1 DEF Named
<1>2. ASSUME x.name = Missing
      PROVE  Named(u) = Named(t) \ {i}
  BY <1>2 DEF Named
<1>3. i \in Named(t) <=> t[i].name # Missing
  BY DEF Named
<1>4. IsFiniteSet(Named(t))
  BY NamedSize
<1> HIDE DEF u
<1>5. /\ Cardinality(Named(t) \union {i})
           = IF i \in Named(t) THEN Cardinality(Named(t)) ELSE Cardinality(Named(t)) + 1
      /\ Cardinality(Named(t) \ {i})
           = IF i \in Named(t) THEN Cardinality(Named(t)) - 1 ELSE Cardinality(Named(t))
  BY <1>4, FS_AddElement, FS_RemoveElement
<1>6. QED
  BY <1>1, <1>2, <1>3, <1>5 DEF u

LEMMA NamedNone == Named(NoEntries) = {} /\ Cardinality(Named(NoEntries)) = 0
<1>1. Named(NoEntries) = {}
  BY DEF Named, NoEntries, NoEntry
<1>2. QED
  BY <1>1, FS_EmptySet

-----------------------------------------------------------------------------
(* Counting references *)

(* The slots of all tables that hold an object. *)
Places(E, o) == {p \in Envs \X Slots : E[p[1]][p[2]].value = o}

LEMMA PlacesFinite ==
  ASSUME NEW E, NEW o
  PROVE  IsFiniteSet(Places(E, o)) /\ Cardinality(Places(E, o)) \in Nat
<1>1. Places(E, o) \in SUBSET (Envs \X Slots)
  BY DEF Places
<1>2. QED
  BY <1>1, SlotsFinite, FS_Subset, FS_CardinalityType

(* A slot that is written gives up the old value and refers to the new one.  *)
LEMMA SlotWritten ==
  ASSUME NEW E \in [Envs -> [Slots -> Entry]], NEW e \in Envs, NEW i \in Slots,
         NEW x \in Entry, NEW o \in Objs
  PROVE  Cardinality(Places([E EXCEPT ![e][i] = x], o)) + One(E[e][i].value)[o]
           = Cardinality(Places(E, o)) + One(x.value)[o]
<1> DEFINE F == [E EXCEPT ![e][i] = x]
           p == <<e, i>>
<1>1. ASSUME x.value = o
      PROVE  Places(F, o) = Places(E, o) \union {p}
  BY <1>1 DEF Places
<1>2. ASSUME x.value # o
      PROVE  Places(F, o) = Places(E, o) \ {p}
  BY <1>2 DEF Places
<1>3. p \in Places(E, o) <=> E[e][i].value = o
  BY DEF Places
<1>4. IsFiniteSet(Places(E, o)) /\ Cardinality(Places(E, o)) \in Nat
  BY PlacesFinite
<1>5. /\ One(E[e][i].value)[o] = IF p \in Places(E, o) THEN 1 ELSE 0
      /\ One(x.value)[o] = IF x.value = o THEN 1 ELSE 0
  BY <1>3 DEF One
<1> HIDE DEF F, p
<1>6. /\ Cardinality(Places(E, o) \union {p})
           = IF p \in Places(E, o) THEN Cardinality(Places(E, o))
             ELSE Cardinality(Places(E, o)) + 1
      /\ Cardinality(Places(E, o) \ {p})
           = IF p \in Places(E, o) THEN Cardinality(Places(E, o)) - 1
             ELSE Cardinality(Places(E, o))
  BY <1>4, FS_AddElement, FS_RemoveElement
<1> DEFINE before == Cardinality(Places(E, o))
           after == Cardinality(Places(F, o))
           old == One(E[e][i].value)[o]
           new == One(x.value)[o]
<1>7. after + old = before + new
  <2>1. before \in Nat /\ old \in {0, 1} /\ new \in {0, 1}
    BY <1>4, <1>5
  <2>2. CASE x.value = o
    <3>1. new = 1
      BY <1>5, <2>2
    <3>2. Places(F, o) = Places(E, o) \union {p}
      BY <1>1, <2>2
    <3>3. after = IF p \in Places(E, o) THEN before ELSE before + 1
      BY <1>6, <3>2
    <3>4. old = IF p \in Places(E, o) THEN 1 ELSE 0
      BY <1>5
    <3> HIDE DEF before, after, old, new
    <3>5. QED
      BY <2>1, <3>1, <3>3, <3>4
  <2>3. CASE x.value # o
    <3>1. new = 0
      BY <1>5, <2>3
    <3>2. Places(F, o) = Places(E, o) \ {p}
      BY <1>2, <2>3
    <3>3. after = IF p \in Places(E, o) THEN before - 1 ELSE before
      BY <1>6, <3>2
    <3>4. old = IF p \in Places(E, o) THEN 1 ELSE 0
      BY <1>5
    <3> HIDE DEF before, after, old, new
    <3>5. QED
      BY <2>1, <3>1, <3>3, <3>4
  <2>4. QED
    BY <2>2, <2>3
<1>8. QED
  BY <1>7 DEF F

(* A table that is emptied forgets as many references as its slots held.     *)
LEMMA TableEmptied ==
  ASSUME NEW E \in [Envs -> [Slots -> Entry]], NEW e \in Envs, NEW o \in Objs
  PROVE  /\ All(E[e])[o] \in Nat
         /\ Cardinality(Places([E EXCEPT ![e] = NoEntries], o)) + All(E[e])[o]
              = Cardinality(Places(E, o))
<1> DEFINE F == [E EXCEPT ![e] = NoEntries]
           H == SlotsHolding(E[e], o)
<1>1. Places(E, o) = Places(F, o) \union ({e} \X H)
  BY NamesAssumption DEF Places, NoEntries, NoEntry, SlotsHolding
<1>2. Places(F, o) \cap ({e} \X H) = {}
  BY NamesAssumption DEF Places, NoEntries, NoEntry, SlotsHolding
<1>3. IsFiniteSet(H) /\ Cardinality(H) \in Nat /\ All(E[e])[o] = Cardinality(H)
  <2>1. H \in SUBSET Slots
    BY DEF SlotsHolding
  <2>2. QED
    BY <2>1, SlotsFinite, FS_Subset, FS_CardinalityType DEF All
<1> HIDE DEF F, H
<1>4. IsFiniteSet({e} \X H) /\ Cardinality({e} \X H) = Cardinality(H)
  <2>1. IsFiniteSet({e}) /\ Cardinality({e}) = 1
    BY FS_Singleton
  <2>2. QED
    BY <1>3, <2>1, FS_Product
<1>5. IsFiniteSet(Places(F, o)) /\ Cardinality(Places(F, o)) \in Nat
  BY PlacesFinite
<1>6. Cardinality(Places(E, o)) = Cardinality(Places(F, o)) + Cardinality(H) - 0
  BY <1>1, <1>2, <1>4, <1>5, FS_Union, FS_EmptySet
<1>7. QED
  BY <1>3, <1>5, <1>6 DEF F

LEMMA StoredIsPlaces == \A o \in Objs : Stored(o) = Cardinality(Places(entries, o))
BY DEF Stored, Places

(* A retain that does not wrap counts one more of its object only. *)
LEMMA RetainCounts ==
  ASSUME NEW r \in [Objs -> 0 .. RefMax], NEW v \in Values, v \in Objs => r[v] < RefMax
  PROVE  /\ zynk_retain(r, v) \in [Objs -> 0 .. RefMax]
         /\ \A o \in Objs : zynk_retain(r, v)[o] = r[o] + One(v)[o]
<1>1. RefMax \in Nat
  BY RefsAssumption
<1>2. CASE v \in Objs
  <2>1. zynk_retain(r, v) = [r EXCEPT ![v] = r[v] + 1]
    <3>1. r[v] # RefMax
      BY <1>1, <1>2
    <3>2. QED
      BY <1>2, <3>1 DEF zynk_retain
  <2>2. QED
    BY <1>1, <1>2, <2>1 DEF One
<1>3. CASE v \notin Objs
  BY <1>3 DEF zynk_retain, One
<1>4. QED
  BY <1>2, <1>3

(* A release of a counted reference counts one less. *)
LEMMA ReleaseCounts ==
  ASSUME NEW r \in [Objs -> 0 .. RefMax], NEW v \in Values, v \in Objs => r[v] > 0
  PROVE  /\ zynk_release(r, v) \in [Objs -> 0 .. RefMax]
         /\ \A o \in Objs : zynk_release(r, v)[o] = r[o] - One(v)[o]
<1>1. RefMax \in Nat
  BY RefsAssumption
<1>2. CASE v \in Objs
  <2>1. zynk_release(r, v) = [r EXCEPT ![v] = r[v] - 1]
    <3>1. r[v] # 0
      BY <1>2
    <3>2. QED
      BY <1>2, <3>1 DEF zynk_release
  <2>2. QED
    BY <1>1, <1>2, <2>1 DEF One
<1>3. CASE v \notin Objs
  BY <1>3 DEF zynk_release, One
<1>4. QED
  BY <1>2, <1>3

-----------------------------------------------------------------------------
(* The inductive invariant *)

(* The blocks a table owns are its entry structs and the names it lists, so  *)
(* freeing it never gives back more than it got.                             *)
Sized ==
  \A e \in Envs :
    /\ count[e] \in 0 .. Capacity
    /\ status[e] = "ready" =>
         /\ Cardinality(Named(entries[e])) <= count[e]
         /\ Capacity + Cardinality(Named(entries[e])) <= blocks[e]

Exact ==
  \A o \in Objs : rc[o] = held[o] + Stored(o) + lost[o] /\ rc[o] <= MaxRefs

FreedExactly == ~ SelfAssign => \A o \in Objs : o \in freed <=> rc[o] = 0

IInv == TypeOK /\ Sized /\ Exact /\ FreedExactly

LEMMA StoredIsNat == \A o \in Objs : Stored(o) \in Nat
BY StoredIsPlaces, PlacesFinite

(* What a slot holds is counted. *)
LEMMA HeldByASlot ==
  ASSUME IInv, NEW e \in Envs, NEW i \in Slots, entries[e][i].value \in Objs
  PROVE  rc[entries[e][i].value] > 0
<1> DEFINE o == entries[e][i].value
<1>1. <<e, i>> \in Places(entries, o)
  BY DEF Places
<1>2. Cardinality(Places(entries, o)) \in Nat /\ Cardinality(Places(entries, o)) # 0
  BY <1>1, PlacesFinite, FS_EmptySet
<1>3. Stored(o) = Cardinality(Places(entries, o))
  BY StoredIsPlaces
<1>4. held[o] \in Nat /\ lost[o] \in Nat /\ rc[o] = held[o] + Stored(o) + lost[o]
  BY DEF IInv, TypeOK, Exact
<1>5. QED
  BY <1>2, <1>3, <1>4

(* What clients use is counted. *)
LEMMA UsableIsCounted ==
  ASSUME IInv, NEW v \in Objs, Usable(v)
  PROVE  rc[v] > 0
<1>1. CASE held[v] > 0
  <2>1. held[v] \in Nat /\ lost[v] \in Nat /\ Stored(v) \in Nat
    BY StoredIsNat DEF IInv, TypeOK
  <2>2. QED
    BY <1>1, <2>1 DEF IInv, Exact
<1>2. CASE Borrowed(v)
  <2>1. PICK e \in Envs, k \in Keys : zynkTableGet(e, k) = v
    BY <1>2 DEF Borrowed
  <2>2. \E i \in zynkFindEntry(entries[e], k, FALSE) : entries[e][i].value = v
    BY <2>1, NamesAssumption DEF zynkTableGet
  <2>3. \E i \in Slots : entries[e][i].value = v
    BY <2>2, FindStops
  <2>4. QED
    BY <2>3, HeldByASlot
<1>3. QED
  BY <1>1, <1>2, NamesAssumption DEF Usable

LEMMA InitIInv == Init => IInv
<1> SUFFICES ASSUME Init
             PROVE  IInv
  OBVIOUS
<1> USE DEF Init
<1>1. NoEntries \in [Slots -> Entry]
  BY DEF NoEntries, NoEntry, Entry, Values
<1>2. TypeOK
  BY <1>1, RefsAssumption DEF TypeOK
<1>3. Sized
  BY CapacityAssumption DEF Sized
<1>4. \A o \in Objs : Stored(o) = 0
  <2> SUFFICES ASSUME NEW o \in Objs
               PROVE  Stored(o) = 0
    OBVIOUS
  <2>1. Places(entries, o) = {}
    BY NamesAssumption DEF Places, NoEntries, NoEntry
  <2>2. QED
    BY <2>1, StoredIsPlaces, FS_EmptySet
<1>5. Exact
  BY <1>4, RefsAssumption DEF Exact
<1>6. FreedExactly
  BY DEF FreedExactly
<1>7. QED
  BY <1>2, <1>3, <1>5, <1>6 DEF IInv

-----------------------------------------------------------------------------
(* The clients' own references *)

LEMMA RetainIInv ==
  ASSUME IInv, NEW o \in Objs, Retain(o)
  PROVE  IInv'
<1> USE DEF Retain, tables
<1>1. rc \in [Objs -> 0 .. RefMax] /\ held \in [Objs -> Nat] /\ lost \in [Objs -> Nat]
  BY DEF IInv, TypeOK
<1>2. o \in Values /\ rc[o] < MaxRefs /\ rc[o] < RefMax /\ MaxRefs \in Nat
  BY <1>1, RefsAssumption DEF Values, Bounded
<1>3. /\ rc' \in [Objs -> 0 .. RefMax]
      /\ \A x \in Objs : rc'[x] = rc[x] + One(o)[x]
  BY <1>1, <1>2, RetainCounts
<1>4. /\ held' \in [Objs -> Nat]
      /\ \A x \in Objs : held'[x] = held[x] + One(o)[x]
  BY <1>1 DEF One
<1>5. \A x \in Objs : One(o)[x] = IF x = o THEN 1 ELSE 0
  BY DEF One
<1>6. \A x \in Objs : Stored(x)' = Stored(x)
  BY DEF Stored
<1>7. TypeOK'
  BY <1>3, <1>4 DEF IInv, TypeOK
<1>8. Sized'
  BY DEF IInv, Sized
<1>9. Exact'
  BY <1>1, <1>2, <1>3, <1>4, <1>5, <1>6, StoredIsNat DEF IInv, Exact
<1>10. FreedExactly'
  BY <1>1, <1>3, <1>5, UsableIsCounted DEF IInv, FreedExactly
<1>11. QED
  BY <1>7, <1>8, <1>9, <1>10 DEF IInv

LEMMA ReleaseIInv ==
  ASSUME IInv, NEW o \in Objs, Release(o)
  PROVE  IInv'
<1> USE DEF Release, tables
<1>1. rc \in [Objs -> 0 .. RefMax] /\ held \in [Objs -> Nat] /\ lost \in [Objs -> Nat]
  BY DEF IInv, TypeOK
<1>2. o \in Values /\ rc[o] > 0
  BY UsableIsCounted DEF Values, Usable
<1>3. /\ rc' \in [Objs -> 0 .. RefMax]
      /\ \A x \in Objs : rc'[x] = rc[x] - One(o)[x]
  BY <1>1, <1>2, ReleaseCounts
<1>4. /\ held' \in [Objs -> Nat]
      /\ \A x \in Objs : held'[x] = held[x] - One(o)[x]
  BY <1>1 DEF One
<1>5. \A x \in Objs : One(o)[x] = IF x = o THEN 1 ELSE 0
  BY DEF One
<1>6. \A x \in Objs : Stored(x)' = Stored(x)
  BY DEF Stored
<1>7. TypeOK'
  BY <1>3, <1>4 DEF IInv, TypeOK, Ends
<1>8. Sized'
  BY DEF IInv, Sized
<1>9. Exact'
  BY <1>1, <1>2, <1>3, <1>4, <1>5, <1>6, StoredIsNat, RefsAssumption DEF IInv, Exact
<1>10. FreedExactly'
  BY <1>1, <1>2, <1>3, <1>5 DEF IInv, FreedExactly, Ends
<1>11. QED
  BY <1>7, <1>8, <1>9, <1>10 DEF IInv

-----------------------------------------------------------------------------
(* Tables that are initialised or freed *)

LEMMA StoredNext == \A o \in Objs : Stored(o)' = Cardinality(Places(entries', o))
BY DEF Stored, Places

(* The references a table held are forgotten, not lost to the count. *)
LEMMA EmptiedIsCounted ==
  ASSUME IInv, NEW e \in Envs,
         entries' = [entries EXCEPT ![e] = NoEntries],
         lost' = Drop(lost, All(entries[e])),
         UNCHANGED <<rc, held>>
  PROVE  /\ entries' \in [Envs -> [Slots -> Entry]]
         /\ lost' \in [Objs -> Nat]
         /\ Exact'
<1>1. NoEntries \in [Slots -> Entry]
  BY DEF NoEntries, NoEntry, Entry, Values
<1>2. entries \in [Envs -> [Slots -> Entry]] /\ lost \in [Objs -> Nat]
  BY DEF IInv, TypeOK
<1>3. \A o \in Objs : /\ All(entries[e])[o] \in Nat
                      /\ Stored(o)' + All(entries[e])[o] = Stored(o)
  BY <1>2, TableEmptied, StoredIsPlaces, StoredNext
<1>4. \A o \in Objs : lost'[o] = lost[o] + All(entries[e])[o]
  BY DEF Drop
<1>5. lost' \in [Objs -> Nat]
  <2>1. DOMAIN lost' = Objs /\ lost' = [o \in Objs |-> lost'[o]]
    BY DEF Drop
  <2>2. QED
    BY <1>2, <1>3, <1>4, <2>1
<1>6. \A o \in Objs : Stored(o)' \in Nat
  BY StoredNext, PlacesFinite
<1>7. Exact'
  <2> SUFFICES ASSUME NEW o \in Objs
               PROVE  /\ rc[o] = held[o] + Stored(o)' + lost'[o]
                      /\ rc[o] <= MaxRefs
    BY DEF Exact
  <2>1. /\ rc[o] = held[o] + Stored(o) + lost[o]
        /\ rc[o] <= MaxRefs
    BY DEF IInv, Exact
  <2>2. held[o] \in Nat /\ lost[o] \in Nat
    BY DEF IInv, TypeOK
  <2>3. QED
    BY <1>3, <1>4, <1>6, <2>1, <2>2
<1>8. QED
  BY <1>1, <1>2, <1>5, <1>7

LEMMA EnvInitIInv ==
  ASSUME IInv, NEW e \in Envs, zynkEnvInit(e)
  PROVE  IInv'
<1> USE DEF objects
<1>1. Capacity \in Nat /\ room \in 0 .. Room /\ Room \in Nat /\ blocks \in [Envs -> Nat]
  BY CapacityAssumption, RoomAssumption DEF IInv, TypeOK
<1>2. ASSUME InitTable(e), room' \in 0 .. Room,
             \/ status[e] = "ready" /\ blocks' = blocks
             \/ blocks' = [blocks EXCEPT ![e] = @ + Capacity]
      PROVE  IInv'
  <2>1. /\ entries' \in [Envs -> [Slots -> Entry]] /\ lost' \in [Objs -> Nat]
        /\ Exact'
    BY <1>2, EmptiedIsCounted DEF InitTable
  <2>2. TypeOK'
    BY <1>1, <1>2, <2>1 DEF InitTable, IInv, TypeOK
  <2>3. Sized'
    <3> SUFFICES ASSUME NEW f \in Envs
                 PROVE  /\ count[f] \in 0 .. Capacity
                        /\ status'[f] = "ready" =>
                             /\ Cardinality(Named(entries'[f])) <= count[f]
                             /\ Capacity + Cardinality(Named(entries'[f])) <= blocks'[f]
      BY <1>2 DEF InitTable, Sized
    <3>1. count[f] \in 0 .. Capacity
      BY DEF IInv, Sized
    <3>2. CASE f = e
      <4>1. Cardinality(Named(entries'[f])) = 0
        BY <1>2, <3>2, NamedNone DEF InitTable, IInv, TypeOK
      <4>2. Capacity <= blocks'[e]
        <5>1. CASE status[e] = "ready" /\ blocks' = blocks
          <6>1. Cardinality(Named(entries[e])) \in Nat
            BY NamedSize
          <6>2. QED
            BY <1>1, <5>1, <6>1 DEF IInv, Sized
        <5>2. CASE blocks' = [blocks EXCEPT ![e] = @ + Capacity]
          BY <1>1, <5>2
        <5>3. QED
          BY <1>2, <5>1, <5>2
      <4>3. QED
        BY <1>1, <3>1, <3>2, <4>1, <4>2
    <3>3. CASE f # e
      <4>1. status'[f] = status[f] /\ entries'[f] = entries[f] /\ blocks'[f] = blocks[f]
        BY <1>2, <3>3 DEF InitTable, IInv, TypeOK
      <4>2. QED
        BY <3>1, <4>1 DEF IInv, Sized
    <3>4. QED
      BY <3>2, <3>3
  <2>4. FreedExactly'
    BY <1>2 DEF InitTable, IInv, FreedExactly
  <2>5. QED
    BY <2>1, <2>2, <2>3, <2>4 DEF IInv
<1>3. CASE /\ status[e] = "raw" /\ room >= Capacity
           /\ InitTable(e)
           /\ room' = room - Capacity
           /\ blocks' = [blocks EXCEPT ![e] = @ + Capacity]
  BY <1>1, <1>2, <1>3
<1>4. CASE status[e] = "ready" /\ InitTable(e) /\ UNCHANGED <<room, blocks>>
  BY <1>1, <1>2, <1>4
<1>5. CASE /\ status[e] = "raw" /\ room < Capacity
           /\ status' = [status EXCEPT ![e] = "crashed"]
           /\ room' = 0
           /\ blocks' = [blocks EXCEPT ![e] = @ + room]
           /\ UNCHANGED <<entries, count, objects, held>>
  <2>1. TypeOK'
    BY <1>1, <1>5 DEF IInv, TypeOK
  <2>2. Sized'
    <3>1. \A f \in Envs : /\ status'[f] = "ready" => f # e /\ status[f] = "ready"
                          /\ f # e => blocks'[f] = blocks[f]
      BY <1>1, <1>5 DEF IInv, TypeOK
    <3>2. QED
      BY <1>5, <3>1 DEF IInv, Sized
  <2>3. \A o \in Objs : Stored(o)' = Stored(o)
    BY <1>5 DEF Stored
  <2>4. Exact' /\ FreedExactly'
    BY <1>5, <2>3 DEF IInv, Exact, FreedExactly
  <2>5. QED
    BY <2>1, <2>2, <2>4 DEF IInv
<1>6. QED
  BY <1>3, <1>4, <1>5 DEF zynkEnvInit

LEMMA FreeIInv ==
  ASSUME IInv, NEW e \in Envs, freeZynkTable(e)
  PROVE  IInv'
<1> USE DEF freeZynkTable
<1>1. Capacity \in Nat /\ blocks \in [Envs -> Nat] /\ count[e] \in 0 .. Capacity
  BY CapacityAssumption DEF IInv, TypeOK, Sized
<1>2. Cardinality(Named(entries[e])) \in Nat
  BY NamedSize
<1>3. /\ Cardinality(Named(entries[e])) <= count[e]
      /\ Capacity + Cardinality(Named(entries[e])) <= blocks[e]
  BY DEF IInv, Sized
<1>4. blocks[e] - 2 * Cardinality(Named(entries[e])) \in Nat
  BY <1>1, <1>2, <1>3
<1>5. /\ entries' \in [Envs -> [Slots -> Entry]] /\ lost' \in [Objs -> Nat]
      /\ Exact'
  BY EmptiedIsCounted
<1>6. TypeOK'
  BY <1>1, <1>4, <1>5 DEF IInv, TypeOK
<1>7. Sized'
  <2>1. \A f \in Envs : /\ status'[f] = "ready" => f # e /\ status[f] = "ready"
                        /\ f # e => entries'[f] = entries[f] /\ blocks'[f] = blocks[f]
    BY DEF IInv, TypeOK
  <2>2. QED
    BY <2>1 DEF IInv, Sized
<1>8. FreedExactly'
  BY DEF IInv, FreedExactly
<1>9. QED
  BY <1>5, <1>6, <1>7, <1>8 DEF IInv

-----------------------------------------------------------------------------
(* Tables that are written *)

(* Writing a slot moves the references of its old and its new value.         *)
LEMMA WrittenIsCounted ==
  ASSUME IInv, NEW e \in Envs, NEW i \in Slots, NEW x \in Entry,
         entries' = [entries EXCEPT ![e][i] = x]
  PROVE  /\ entries' \in [Envs -> [Slots -> Entry]]
         /\ \A o \in Objs : /\ Stored(o)' \in Nat
                            /\ Stored(o)' + One(entries[e][i].value)[o]
                                 = Stored(o) + One(x.value)[o]
<1>1. entries \in [Envs -> [Slots -> Entry]]
  BY DEF IInv, TypeOK
<1>2. \A o \in Objs :
        Cardinality(Places(entries', o)) + One(entries[e][i].value)[o]
          = Cardinality(Places(entries, o)) + One(x.value)[o]
  BY <1>1, SlotWritten
<1>3. \A o \in Objs : Stored(o)' \in Nat
  BY StoredNext, PlacesFinite
<1>4. QED
  BY <1>1, <1>2, <1>3, StoredNext, StoredIsPlaces

LEMMA OneValues ==
  ASSUME NEW v, NEW o \in Objs
  PROVE  One(v)[o] \in Nat /\ One(v)[o] = IF o = v THEN 1 ELSE 0
BY DEF One

(* What a slot that is written does to the sizes of its table. *)
LEMMA WrittenIsSized ==
  ASSUME IInv, NEW e \in Envs, NEW i \in Slots, NEW x \in Entry, NEW n \in Int, NEW b \in Int,
         status[e] = "ready",
         entries' = [entries EXCEPT ![e][i] = x],
         status' = status,
         count' = [count EXCEPT ![e] = n],
         blocks' = [blocks EXCEPT ![e] = b],
         n \in 0 .. Capacity,
         Cardinality(Named([entries[e] EXCEPT ![i] = x])) <= n,
         Capacity + Cardinality(Named([entries[e] EXCEPT ![i] = x])) <= b
  PROVE  /\ Sized'
         /\ count' \in [Envs -> Int] /\ blocks' \in [Envs -> Nat]
<1>1. /\ entries \in [Envs -> [Slots -> Entry]]
      /\ count \in [Envs -> Int] /\ blocks \in [Envs -> Nat]
  BY DEF IInv, TypeOK
<1>2. entries'[e] = [entries[e] EXCEPT ![i] = x]
  BY <1>1
<1>3. \A f \in Envs : f # e => /\ entries'[f] = entries[f]
                               /\ count'[f] = count[f] /\ blocks'[f] = blocks[f]
  BY <1>1
<1>4. count'[e] = n /\ blocks'[e] = b
  BY <1>1
<1>5. Sized'
  <2> SUFFICES ASSUME NEW f \in Envs
               PROVE  /\ count'[f] \in 0 .. Capacity
                      /\ status[f] = "ready" =>
                           /\ Cardinality(Named(entries'[f])) <= count'[f]
                           /\ Capacity + Cardinality(Named(entries'[f])) <= blocks'[f]
    BY DEF Sized
  <2>1. CASE f = e
    BY <1>2, <1>4, <2>1
  <2>2. CASE f # e
    BY <1>3, <2>2 DEF IInv, Sized
  <2>3. QED
    BY <2>1, <2>2
<1>6. b \in Nat
  <2>1. Cardinality(Named(entries'[e])) \in Nat /\ Capacity \in Nat
    BY NamedSize, CapacityAssumption
  <2>2. QED
    BY <1>2, <2>1
<1>7. QED
  BY <1>1, <1>5, <1>6

LEMMA TableNewIInv ==
  ASSUME IInv, NEW e \in Envs, NEW k \in Keys, NEW v \in Values, zynkTableNew(e, k, v)
  PROVE  IInv'
<1>1. PICK i \in Slots :
        /\ entries[e][i].name = Missing
        /\ Store(e, i, k, v)
        /\ blocks' = [blocks EXCEPT ![e] = IF room > 0 THEN @ + 1 ELSE @]
        /\ room' = IF room > 0 THEN room - 1 ELSE room
  BY FindStops DEF zynkTableNew
<1>0. /\ status[e] = "ready" /\ Usable(v) /\ Bounded(v) /\ ~ Full(e)
      /\ count' = [count EXCEPT ![e] = @ + 1]
      /\ UNCHANGED <<status, freed, held>>
  BY DEF zynkTableNew
<1> DEFINE x == NewEntry(k, v)
           old == entries[e][i].value
<1>2. /\ entries \in [Envs -> [Slots -> Entry]]
      /\ rc \in [Objs -> 0 .. RefMax] /\ held \in [Objs -> Nat] /\ lost \in [Objs -> Nat]
      /\ count \in [Envs -> Int] /\ blocks \in [Envs -> Nat]
      /\ room \in 0 .. Room /\ Room \in Nat /\ Capacity \in Nat
  BY RoomAssumption, CapacityAssumption DEF IInv, TypeOK
<1>3. /\ x \in Entry /\ x.value = v
      /\ x.name = Missing <=> ~ (room > 0)
  BY MissingAssumption DEF NewEntry, Entry
<1>4. entries' = [entries EXCEPT ![e][i] = x] /\ status[e] = "ready"
  BY <1>1, <1>0 DEF Store
<1>5. /\ entries' \in [Envs -> [Slots -> Entry]]
      /\ \A o \in Objs : Stored(o)' \in Nat
                         /\ Stored(o)' + One(old)[o] = Stored(o) + One(v)[o]
  <2> HIDE DEF x
  <2>1. /\ entries' \in [Envs -> [Slots -> Entry]]
        /\ \A o \in Objs : Stored(o)' \in Nat
                           /\ Stored(o)' + One(old)[o] = Stored(o) + One(x.value)[o]
    BY <1>3, <1>4, WrittenIsCounted
  <2>2. QED
    BY <1>3, <2>1
<1>6. /\ lost' \in [Objs -> Nat]
      /\ \A o \in Objs : lost'[o] = lost[o] + One(old)[o]
  BY <1>1, <1>2 DEF Store, Drop, One
<1>7. v \in Objs => rc[v] > 0 /\ rc[v] < MaxRefs /\ rc[v] < RefMax
  BY <1>2, <1>0, UsableIsCounted, RefsAssumption DEF Bounded
<1>8. /\ rc' \in [Objs -> 0 .. RefMax]
      /\ \A o \in Objs : rc'[o] = rc[o] + One(v)[o]
  BY <1>1, <1>2, <1>7, RetainCounts DEF Store
<1>9. Sized' /\ count' \in [Envs -> Int] /\ blocks' \in [Envs -> Nat]
  <2> DEFINE named == Cardinality(Named(entries[e]))
             after == Cardinality(Named([entries[e] EXCEPT ![i] = x]))
             n == count[e] + 1
             b == IF room > 0 THEN blocks[e] + 1 ELSE blocks[e]
  <2>1. after = IF room > 0 THEN named + 1 ELSE named
    BY <1>1, <1>2, <1>3, NamedChanges
  <2>2. named \in Nat /\ named <= count[e] /\ Capacity + named <= blocks[e]
    BY <1>4, NamedSize DEF IInv, Sized
  <2>3. count[e] \in Nat /\ count[e] < Capacity
    <3>1. count[e] \in 0 .. Capacity
      BY DEF IInv, Sized
    <3>2. count[e] # Capacity
      BY <1>0 DEF Full
    <3>3. \A m, c \in Nat : m <= c /\ m # c => m < c
      OBVIOUS
    <3>4. count[e] \in Nat /\ count[e] <= Capacity
      BY <1>2, <3>1
    <3>5. QED
      BY <1>2, <3>2, <3>3, <3>4
  <2>4. n \in 0 .. Capacity /\ after <= n /\ Capacity + after <= b /\ n \in Int /\ b \in Int
    <3>1. count[e] \in Int /\ blocks[e] \in Nat /\ room \in Nat
      BY <1>2
    <3> HIDE DEF named, after
    <3>2. after \in Nat /\ after <= named + 1 /\ Capacity + after <= b /\ b \in Int
      BY <1>2, <2>1, <2>2, <3>1
    <3>3. n \in 0 .. Capacity /\ named + 1 <= n
      BY <1>2, <2>2, <2>3
    <3>4. QED
      BY <2>2, <3>2, <3>3
  <2> HIDE DEF named, after
  <2>5. count' = [count EXCEPT ![e] = n] /\ blocks' = [blocks EXCEPT ![e] = b]
    BY <1>1, <1>0
  <2>6. status' = status
    BY <1>0
  <2> HIDE DEF n, b, x
  <2>7. QED
    BY <1>3, <1>4, <2>4, <2>5, <2>6, WrittenIsSized DEF after
<1>10. TypeOK'
  BY <1>1, <1>0, <1>2, <1>5, <1>6, <1>8, <1>9 DEF IInv, TypeOK
<1>11. Exact'
  <2> SUFFICES ASSUME NEW o \in Objs
               PROVE  rc'[o] = held[o] + Stored(o)' + lost'[o] /\ rc'[o] <= MaxRefs
    BY <1>0 DEF Exact
  <2>1. rc[o] = held[o] + Stored(o) + lost[o] /\ rc[o] <= MaxRefs
    BY DEF IInv, Exact
  <2>2. /\ held[o] \in Nat /\ lost[o] \in Nat /\ Stored(o) \in Nat /\ rc[o] \in Nat
        /\ One(v)[o] \in Nat /\ One(old)[o] \in Nat
    BY <1>2, StoredIsNat, OneValues
  <2>3. rc[o] + One(v)[o] <= MaxRefs
    BY <1>7, <2>1, <2>2, OneValues, RefsAssumption
  <2> DEFINE before == Stored(o)
             after == Stored(o)'
             given == One(v)[o]
             back == One(old)[o]
             h == held[o]
             l == lost[o]
             r == rc[o]
             p == rc'[o]
  <2>4. /\ after + back = before + given /\ p = r + given
        /\ r = h + before + l /\ r + given <= MaxRefs
        /\ {before, after, given, back, h, l, r, MaxRefs} \subseteq Nat
    BY <1>5, <1>8, <2>1, <2>2, <2>3, RefsAssumption
  <2>5. rc'[o] = held[o] + Stored(o)' + lost'[o] <=> p = h + after + (l + back)
    BY <1>6, <2>2
  <2> HIDE DEF before, after, given, back, h, l, r, p
  <2>6. p = h + after + (l + back) /\ p <= MaxRefs
    BY <2>4
  <2>7. QED
    BY <2>5, <2>6 DEF p
<1>12. FreedExactly'
  BY <1>0, <1>2, <1>7, <1>8, OneValues DEF IInv, FreedExactly
<1>13. QED
  BY <1>9, <1>10, <1>11, <1>12 DEF IInv

(* The old value of a slot is released, and never the one the client stores, *)
(* unless it relies on the slot to keep it.                                  *)
LEMMA TableSetIInv ==
  ASSUME IInv, NEW e \in Envs, NEW k \in Keys, NEW v \in Values, zynkTableSet(e, k, v)
  PROVE  IInv'
<1>1. PICK i \in Slots : /\ v \in Ends(rc, entries[e][i].value) => SelfAssign
                         /\ Replace(e, i, v)
  BY FindStops DEF zynkTableSet
<1>2. /\ status[e] = "ready" /\ Usable(v) /\ Bounded(v)
      /\ UNCHANGED <<count, status, room, held, lost, blocks>>
  BY DEF zynkTableSet
<1> DEFINE old == entries[e][i].value
           x == [entries[e][i] EXCEPT !.value = v]
<1>3. /\ entries \in [Envs -> [Slots -> Entry]]
      /\ rc \in [Objs -> 0 .. RefMax] /\ held \in [Objs -> Nat] /\ lost \in [Objs -> Nat]
      /\ count \in [Envs -> Int] /\ blocks \in [Envs -> Nat] /\ freed \subseteq Objs
  BY DEF IInv, TypeOK
<1>4. x \in Entry /\ x.value = v /\ x.name = entries[e][i].name /\ old \in Values
  <2>1. entries[e][i] \in Entry
    BY <1>3
  <2>2. QED
    BY <2>1 DEF Entry
<1>5. /\ entries' = [entries EXCEPT ![e][i] = x]
      /\ rc' = zynk_retain(zynk_release(rc, old), v)
      /\ freed' = freed \union Ends(rc, old)
  BY <1>1, <1>3 DEF Replace
<1>6. /\ entries' \in [Envs -> [Slots -> Entry]]
      /\ \A o \in Objs : Stored(o)' \in Nat
                         /\ Stored(o)' + One(old)[o] = Stored(o) + One(v)[o]
  <2> HIDE DEF x
  <2>1. /\ entries' \in [Envs -> [Slots -> Entry]]
        /\ \A o \in Objs : Stored(o)' \in Nat
                           /\ Stored(o)' + One(old)[o] = Stored(o) + One(x.value)[o]
    BY <1>4, <1>5, WrittenIsCounted
  <2>2. QED
    BY <1>4, <2>1
<1>7. v \in Objs => rc[v] > 0 /\ rc[v] < MaxRefs /\ rc[v] < RefMax
  BY <1>2, <1>3, UsableIsCounted, RefsAssumption DEF Bounded
<1>8. old \in Objs => rc[old] > 0
  BY HeldByASlot
<1>9. /\ rc' \in [Objs -> 0 .. RefMax]
      /\ \A o \in Objs : rc'[o] = rc[o] - One(old)[o] + One(v)[o]
  <2> DEFINE r == zynk_release(rc, old)
  <2>1. /\ r \in [Objs -> 0 .. RefMax]
        /\ \A o \in Objs : r[o] = rc[o] - One(old)[o]
    BY <1>3, <1>4, <1>8, ReleaseCounts
  <2>2. ASSUME v \in Objs
        PROVE  r[v] < RefMax
    <3>1. r[v] = rc[v] - One(old)[v] /\ One(old)[v] \in Nat
      BY <2>1, <2>2, OneValues
    <3>2. rc[v] \in Nat /\ rc[v] < RefMax /\ RefMax \in Nat
      BY <1>3, <1>7, <2>2, RefsAssumption
    <3> HIDE DEF r, old
    <3>3. QED
      BY <3>1, <3>2
  <2> HIDE DEF r
  <2>3. /\ zynk_retain(r, v) \in [Objs -> 0 .. RefMax]
        /\ \A o \in Objs : zynk_retain(r, v)[o] = r[o] + One(v)[o]
    BY <2>1, <2>2, RetainCounts
  <2>4. rc' = zynk_retain(r, v)
    BY <1>5 DEF r
  <2>5. QED
    BY <2>1, <2>3, <2>4
<1>10. Sized'
  <2>1. Cardinality(Named([entries[e] EXCEPT ![i] = x])) = Cardinality(Named(entries[e]))
    BY <1>3, <1>4, NamedChanges
  <2>2. /\ entries'[e] = [entries[e] EXCEPT ![i] = x]
        /\ \A f \in Envs : f # e => entries'[f] = entries[f]
    BY <1>3, <1>5
  <2>3. \A f \in Envs : Cardinality(Named(entries'[f])) = Cardinality(Named(entries[f]))
    BY <2>1, <2>2
  <2>4. QED
    BY <1>2, <2>3 DEF IInv, Sized
<1>11. TypeOK'
  BY <1>2, <1>3, <1>5, <1>6, <1>9 DEF IInv, TypeOK, Ends
<1>12. Exact'
  <2> SUFFICES ASSUME NEW o \in Objs
               PROVE  rc'[o] = held[o] + Stored(o)' + lost[o] /\ rc'[o] <= MaxRefs
    BY <1>2 DEF Exact
  <2>1. rc[o] = held[o] + Stored(o) + lost[o] /\ rc[o] <= MaxRefs
    BY DEF IInv, Exact
  <2>2. /\ held[o] \in Nat /\ lost[o] \in Nat /\ Stored(o) \in Nat /\ rc[o] \in Nat
        /\ One(v)[o] \in Nat /\ One(old)[o] \in Nat
    BY <1>3, StoredIsNat, OneValues
  <2>3. rc[o] + One(v)[o] <= MaxRefs
    BY <1>7, <2>1, <2>2, OneValues, RefsAssumption
  <2> DEFINE before == Stored(o)
             after == Stored(o)'
             given == One(v)[o]
             back == One(old)[o]
             kept == held[o] + lost[o]
             r == rc[o]
             p == rc'[o]
  <2>4. /\ after + back = before + given /\ p = r - back + given
        /\ r = kept + before /\ r + given <= MaxRefs
        /\ {before, after, given, back, kept, r, MaxRefs} \subseteq Nat
    BY <1>6, <1>9, <2>1, <2>2, <2>3, RefsAssumption
  <2>5. rc'[o] = held[o] + Stored(o)' + lost[o] <=> p = kept + after
    BY <1>6, <2>2
  <2> HIDE DEF before, after, given, back, kept, r, p
  <2>6. p = kept + after /\ p <= MaxRefs
    BY <2>4
  <2>7. QED
    BY <2>5, <2>6 DEF p
<1>13. FreedExactly'
  <2> SUFFICES ASSUME ~ SelfAssign, NEW o \in Objs
               PROVE  o \in freed' <=> rc'[o] = 0
    BY DEF FreedExactly
  <2>1. o \in freed <=> rc[o] = 0
    BY DEF IInv, FreedExactly
  <2>2. o \in Ends(rc, old) <=> o = old /\ rc[o] = 1
    BY DEF Ends
  <2>3. v \notin Ends(rc, old)
    BY <1>1
  <2>4. rc[o] \in Nat /\ rc'[o] = rc[o] - One(old)[o] + One(v)[o]
    BY <1>3, <1>9
  <2>5. /\ One(old)[o] = IF o = old THEN 1 ELSE 0
        /\ One(v)[o] = IF o = v THEN 1 ELSE 0
    BY OneValues
  <2> HIDE DEF old
  <2>6. CASE o = v
    BY <1>5, <1>7, <2>1, <2>2, <2>3, <2>4, <2>5, <2>6
  <2>7. CASE o # v
    BY <1>5, <1>8, <2>1, <2>2, <2>4, <2>5, <2>7 DEF old
  <2>8. QED
    BY <2>6, <2>7
<1>14. QED
  BY <1>10, <1>11, <1>12, <1>13 DEF IInv

LEMMA TableDeleteIInv ==
  ASSUME IInv, NEW e \in Envs, NEW k \in Keys, zynkTableDelete(e, k)
  PROVE  IInv'
<1>1. PICK i \in Slots :
        /\ entries[e][i].name # Missing
        /\ rc' = zynk_release(rc, entries[e][i].value)
        /\ freed' = freed \union Ends(rc, entries[e][i].value)
        /\ entries' = [entries EXCEPT ![e][i] = Tombstone(@)]
  BY FindStops DEF zynkTableDelete, Deletable
<1>2. /\ status[e] = "ready"
      /\ count' = [count EXCEPT ![e] = @ - 1]
      /\ blocks' = [blocks EXCEPT ![e] = @ - 1]
      /\ UNCHANGED <<status, room, held, lost>>
  BY DEF zynkTableDelete
<1> DEFINE old == entries[e][i].value
<1>3. /\ entries \in [Envs -> [Slots -> Entry]]
      /\ rc \in [Objs -> 0 .. RefMax] /\ held \in [Objs -> Nat] /\ lost \in [Objs -> Nat]
      /\ count \in [Envs -> Int] /\ blocks \in [Envs -> Nat] /\ freed \subseteq Objs
      /\ Capacity \in Nat
  BY CapacityAssumption DEF IInv, TypeOK
<1>4. /\ NoEntry \in Entry /\ NoEntry.value = Null /\ NoEntry.name = Missing
      /\ old \in Values
  BY <1>3 DEF NoEntry, Entry, Values
<1>5. entries' = [entries EXCEPT ![e][i] = NoEntry]
  BY <1>1, <1>3 DEF Tombstone
<1>6. /\ entries' \in [Envs -> [Slots -> Entry]]
      /\ \A o \in Objs : Stored(o)' \in Nat /\ Stored(o)' + One(old)[o] = Stored(o)
  <2>1. /\ entries' \in [Envs -> [Slots -> Entry]]
        /\ \A o \in Objs : Stored(o)' \in Nat
                           /\ Stored(o)' + One(old)[o] = Stored(o) + One(NoEntry.value)[o]
    BY <1>4, <1>5, WrittenIsCounted
  <2>2. \A o \in Objs : One(NoEntry.value)[o] = 0
    BY <1>4, NamesAssumption DEF One
  <2>3. QED
    BY <2>1, <2>2, StoredIsNat
<1>7. old \in Objs => rc[old] > 0
  BY HeldByASlot
<1>8. /\ rc' \in [Objs -> 0 .. RefMax]
      /\ \A o \in Objs : rc'[o] = rc[o] - One(old)[o]
  BY <1>1, <1>3, <1>4, <1>7, ReleaseCounts
<1>9. Sized' /\ count' \in [Envs -> Int] /\ blocks' \in [Envs -> Nat]
  <2> DEFINE named == Cardinality(Named(entries[e]))
             after == Cardinality(Named([entries[e] EXCEPT ![i] = NoEntry]))
             n == count[e] - 1
             b == blocks[e] - 1
  <2>1. after = named - 1 /\ after \in Nat
    <3>1. after = named - 1
      BY <1>1, <1>3, <1>4, NamedChanges
    <3>2. after \in Nat
      BY NamedSize
    <3>3. QED
      BY <3>1, <3>2
  <2>2. named \in Nat /\ named <= count[e] /\ Capacity + named <= blocks[e]
    BY <1>2, NamedSize DEF IInv, Sized
  <2>3. count[e] \in 0 .. Capacity /\ blocks[e] \in Nat
    BY <1>3 DEF IInv, Sized
  <2> HIDE DEF named, after
  <2>4. n \in 0 .. Capacity /\ after <= n /\ Capacity + after <= b /\ n \in Int /\ b \in Int
    BY <1>3, <2>1, <2>2, <2>3
  <2>5. count' = [count EXCEPT ![e] = n] /\ blocks' = [blocks EXCEPT ![e] = b]
    BY <1>2
  <2> HIDE DEF n, b
  <2>6. QED
    BY <1>2, <1>4, <1>5, <2>4, <2>5, WrittenIsSized DEF after
<1>10. TypeOK'
  BY <1>1, <1>2, <1>3, <1>6, <1>8, <1>9 DEF IInv, TypeOK, Ends
<1>11. Exact'
  <2> SUFFICES ASSUME NEW o \in Objs
               PROVE  rc'[o] = held[o] + Stored(o)' + lost[o] /\ rc'[o] <= MaxRefs
    BY <1>2 DEF Exact
  <2>1. rc[o] = held[o] + Stored(o) + lost[o] /\ rc[o] <= MaxRefs
    BY DEF IInv, Exact
  <2>2. /\ held[o] \in Nat /\ lost[o] \in Nat /\ Stored(o) \in Nat /\ rc[o] \in Nat
        /\ One(old)[o] \in Nat
    BY <1>3, StoredIsNat, OneValues
  <2> HIDE DEF old
  <2>3. QED
    BY <1>6, <1>8, <2>1, <2>2, RefsAssumption
<1>12. FreedExactly'
  BY <1>1, <1>3, <1>7, <1>8, OneValues DEF IInv, FreedExactly, Ends
<1>13. QED
  BY <1>9, <1>10, <1>11, <1>12 DEF IInv

-----------------------------------------------------------------------------
(* The theorems *)

LEMMA StepIInv ==
  ASSUME IInv, [Next]_state
  PROVE  IInv'
<1>1. ASSUME NEW e \in Envs, zynkEnvInit(e)
      PROVE  IInv'
  BY <1>1, EnvInitIInv
<1>2. ASSUME NEW e \in Envs, freeZynkTable(e)
      PROVE  IInv'
  BY <1>2, FreeIInv
<1>3. ASSUME NEW e \in Envs, NEW k \in Keys, NEW v \in Values, zynkTableNew(e, k, v)
      PROVE  IInv'
  BY <1>3, TableNewIInv
<1>4. ASSUME NEW e \in Envs, NEW k \in Keys, NEW v \in Values, zynkTableSet(e, k, v)
      PROVE  IInv'
  BY <1>4, TableSetIInv
<1>5. ASSUME NEW e \in Envs, NEW k \in Keys, zynkTableDelete(e, k)
      PROVE  IInv'
  BY <1>5, TableDeleteIInv
<1>6. ASSUME NEW o \in Objs, Retain(o)
      PROVE  IInv'
  BY <1>6, RetainIInv
<1>7. ASSUME NEW o \in Objs, Release(o)
      PROVE  IInv'
  BY <1>7, ReleaseIInv
<1>8. CASE UNCHANGED state
  <2>1. \A o \in Objs : Stored(o)' = Stored(o)
    BY <1>8 DEF state, Stored
  <2>2. QED
    BY <1>8, <2>1 DEF state, IInv, TypeOK, Sized, Exact, FreedExactly
<1>9. QED
  BY <1>1, <1>2, <1>3, <1>4, <1>5, <1>6, <1>7, <1>8 DEF Next

THEOREM InductiveInvariant == Spec => []IInv
<1>1. IInv /\ [Next]_state => IInv'
  BY StepIInv
<1>2. QED
  BY InitIInv, <1>1, PTL DEF Spec

(* The variables keep their types; in particular no table gives back more    *)
(* blocks than it owns, in whatever order names are added, deleted and the   *)
(* table initialised again and freed.                                        *)
THEOREM TypeCorrect == Spec => []TypeOK
<1>1. IInv => TypeOK
  BY DEF IInv
<1>2. QED
  BY InductiveInvariant, <1>1, PTL

(* count stays between the variables of a table and its slots, although      *)
(* initZynkTable never sets it: line 75 needs no more than its equality test. *)
THEOREM CountsBounded == Spec => []CountBounds
<1>1. IInv => CountBounds
  BY CapacityAssumption DEF IInv, Sized, CountBounds
<1>2. QED
  BY InductiveInvariant, <1>1, PTL

(* The probe of zynkTableNew ends at a slot whenever count leaves one, for   *)
(* every hash function, number of slots and history of tombstones.           *)
THEOREM NotFullAdmitsNew == Spec => []AdmitsNew
<1>1. ASSUME IInv, NEW e \in Envs, NEW k \in Keys, status[e] = "ready", ~ Full(e)
      PROVE  zynkFindEntry(entries[e], k, TRUE) # {}
  <2>1. /\ Cardinality(Named(entries[e])) \in Nat
        /\ Cardinality(Named(entries[e])) <= count[e]
        /\ count[e] \in Nat /\ count[e] <= Capacity /\ Capacity \in Nat
    BY <1>1, NamedSize, CapacityAssumption DEF IInv, Sized
  <2>2. count[e] # Capacity
    BY <1>1 DEF Full
  <2>3. \A n, m, c \in Nat : n <= m /\ m <= c /\ m # c => n < c
    OBVIOUS
  <2>4. PICK i \in Slots : entries[e][i].name = Missing
    BY <2>1, <2>2, <2>3, NamedSize
  <2>5. Stops(entries[e], k, TRUE, i)
    BY <2>4 DEF Stops
  <2>6. QED
    BY <2>5, FindEnds
<1>2. IInv => AdmitsNew
  BY <1>1 DEF AdmitsNew
<1>3. QED
  BY InductiveInvariant, <1>2, PTL

(* Clients that store no value whose only reference is the slot's find every *)
(* ref_count exact, and an object given back only when nothing refers to it. *)
THEOREM CountsExact ==
  ASSUME ~ SelfAssign
  PROVE  Spec => []ReferencesCounted
<1>1. IInv => ReferencesCounted
  BY DEF IInv, Exact, FreedExactly, ReferencesCounted
<1>2. QED
  BY InductiveInvariant, <1>1, PTL

(* With these clients a value that a table holds is an object that still     *)
(* exists: what zynkTableGet lends is never memory given back.               *)
THEOREM StoredExist ==
  ASSUME ~ SelfAssign
  PROVE  Spec => []StoredValuesExist
<1>1. ASSUME IInv, NEW o \in freed
      PROVE  Stored(o) = 0
  <2>1. o \in Objs /\ held[o] \in Nat /\ lost[o] \in Nat /\ Stored(o) \in Nat
    BY <1>1, StoredIsNat DEF IInv, TypeOK
  <2>2. rc[o] = 0 /\ rc[o] = held[o] + Stored(o) + lost[o]
    BY <1>1, <2>1 DEF IInv, Exact, FreedExactly
  <2>3. QED
    BY <2>1, <2>2
<1>2. IInv => StoredValuesExist
  BY <1>1 DEF StoredValuesExist
<1>3. QED
  BY InductiveInvariant, <1>2, PTL

-----------------------------------------------------------------------------
(* Names declared once *)

Unique(t) ==
  \A i, j \in Slots : t[i].name # Missing /\ t[i].name = t[j].name => i = j

AllUnique == \A e \in Envs : Unique(entries[e])

(* What a step does to the slots of the tables. *)
EmptiesTable(e) == entries' = [entries EXCEPT ![e] = NoEntries]

Declares(e, k, v) ==
  /\ \A j \in Slots : entries[e][j].name # k
  /\ \E i \in Slots, name \in {k, Missing} :
       /\ entries[e][i].name = Missing
       /\ entries' = [entries EXCEPT ![e][i] = [name |-> name, value |-> v]]

Assigns(e, k, v) ==
  \E i \in Slots :
    /\ EmptyKey \notin Keys => entries[e][i].name = k
    /\ entries' = [entries EXCEPT ![e][i] = [name |-> @.name, value |-> v]]

Removes(e, k) ==
  \E i \in Slots :
    /\ entries[e][i].name = k
    /\ entries' = [entries EXCEPT ![e][i] = NoEntry]

LEMMA FoundIsNamed ==
  ASSUME NEW t, NEW k \in Keys, NEW i \in zynkFindEntry(t, k, FALSE)
  PROVE  /\ i \in Slots
         /\ EmptyKey \notin Keys \/ t[i].name # Missing => t[i].name = k
BY FindStops DEF Stops, Matches

(* All that a step can do to the tables of clients who declare names once.   *)
LEMMA StepOnTables ==
  ASSUME ~ Redeclare, TypeOK, [Next]_state
  PROVE  \/ entries' = entries
         \/ \E e \in Envs : EmptiesTable(e)
         \/ \E e \in Envs, k \in Keys :
              \/ \E v \in Values : Declares(e, k, v) \/ Assigns(e, k, v)
              \/ Removes(e, k)
<1> USE DEF TypeOK
<1>1. ASSUME NEW e \in Envs, zynkEnvInit(e)
      PROVE  EmptiesTable(e) \/ entries' = entries
  BY <1>1 DEF zynkEnvInit, InitTable, EmptiesTable
<1>2. ASSUME NEW e \in Envs, freeZynkTable(e)
      PROVE  EmptiesTable(e)
  BY <1>2 DEF freeZynkTable, EmptiesTable
<1>3. ASSUME NEW e \in Envs, NEW k \in Keys, NEW v \in Values, zynkTableNew(e, k, v)
      PROVE  Declares(e, k, v)
  <2>1. PICK i \in zynkFindEntry(entries[e], k, TRUE) :
          /\ entries[e][i].name = Missing
          /\ entries' = [entries EXCEPT ![e][i] = NewEntry(k, v)]
    BY <1>3 DEF zynkTableNew, Store
  <2>2. i \in Slots
    BY <2>1, FindStops
  <2>3. \A j \in Slots : entries[e][j].name # k
    BY <1>3 DEF zynkTableNew
  <2>4. \E name \in {k, Missing} : NewEntry(k, v) = [name |-> name, value |-> v]
    BY DEF NewEntry
  <2>5. QED
    BY <2>1, <2>2, <2>3, <2>4 DEF Declares
<1>4. ASSUME NEW e \in Envs, NEW k \in Keys, NEW v \in Values, zynkTableSet(e, k, v)
      PROVE  Assigns(e, k, v)
  <2>1. PICK i \in zynkFindEntry(entries[e], k, FALSE) :
          entries' = [entries EXCEPT ![e][i].value = v]
    BY <1>4 DEF zynkTableSet, Replace
  <2>2. i \in Slots /\ (EmptyKey \notin Keys => entries[e][i].name = k)
    BY <2>1, FoundIsNamed
  <2>3. entries[e][i] \in Entry
    BY <2>2
  <2>4. [entries[e][i] EXCEPT !.value = v] = [name |-> entries[e][i].name, value |-> v]
    <3> DEFINE x == entries[e][i]
    <3>1. x \in [name : Keys \union {Missing}, value : Values]
      BY <2>3 DEF Entry
    <3> HIDE DEF x
    <3>2. [x EXCEPT !.value = v] = [name |-> x.name, value |-> v]
      BY <3>1
    <3>3. QED
      BY <3>2 DEF x
  <2>5. QED
    BY <2>1, <2>2, <2>4 DEF Assigns
<1>5. ASSUME NEW e \in Envs, NEW k \in Keys, zynkTableDelete(e, k)
      PROVE  Removes(e, k)
  <2>1. PICK i \in zynkFindEntry(entries[e], k, FALSE) :
          /\ entries[e][i].name # Missing
          /\ entries' = [entries EXCEPT ![e][i] = NoEntry]
    BY <1>5 DEF zynkTableDelete, Deletable, Tombstone
  <2>2. QED
    BY <2>1, FoundIsNamed DEF Removes
<1>6. ASSUME NEW o \in Objs, Retain(o) \/ Release(o)
      PROVE  entries' = entries
  BY <1>6 DEF Retain, Release, tables
<1>7. CASE UNCHANGED state
  BY <1>7 DEF state
<1>8. QED
  BY <1>1, <1>2, <1>3, <1>4, <1>5, <1>6, <1>7 DEF Next

LEMMA StepUnique ==
  ASSUME ~ Redeclare, TypeOK, AllUnique, [Next]_state
  PROVE  AllUnique'
<1>1. entries \in [Envs -> [Slots -> Entry]]
  BY DEF TypeOK
<1>2. ASSUME NEW e \in Envs, EmptiesTable(e)
      PROVE  AllUnique'
  BY <1>1, <1>2 DEF EmptiesTable, AllUnique, Unique, NoEntries, NoEntry
<1>3. ASSUME NEW e \in Envs, NEW k \in Keys, NEW v \in Values, Declares(e, k, v)
      PROVE  AllUnique'
  BY <1>1, <1>3 DEF Declares, AllUnique, Unique
<1>4. ASSUME NEW e \in Envs, NEW k \in Keys, NEW v \in Values, Assigns(e, k, v)
      PROVE  AllUnique'
  BY <1>1, <1>4 DEF Assigns, AllUnique, Unique
<1>5. ASSUME NEW e \in Envs, NEW k \in Keys, Removes(e, k)
      PROVE  AllUnique'
  BY <1>1, <1>5 DEF Removes, AllUnique, Unique, NoEntry
<1>6. QED
  BY <1>2, <1>3, <1>4, <1>5, StepOnTables DEF AllUnique

LEMMA UniqueInvariant ==
  ASSUME ~ Redeclare
  PROVE  Spec => []AllUnique
<1>1. Init => AllUnique
  BY DEF Init, AllUnique, Unique, NoEntries, NoEntry
<1>2. TypeOK /\ AllUnique /\ [Next]_state => AllUnique'
  BY StepUnique
<1>3. QED
  BY <1>1, <1>2, TypeCorrect, PTL DEF Spec

(* Clients that declare a name only where it is not declared find no table   *)
(* with two slots of one name, as README.md:80 has it of zynkTableNew.       *)
THEOREM DeclaredOnce ==
  ASSUME ~ Redeclare
  PROVE  Spec => []UniqueNames
<1>1. AllUnique => UniqueNames
  BY DEF AllUnique, Unique, UniqueNames, Named
<1>2. QED
  BY UniqueInvariant, <1>1, PTL

-----------------------------------------------------------------------------
(* The refinement of Scope *)

(* What zynkTableGet reads under a name of a table. *)
Look(t, k) ==
  LET found == zynkFindEntry(t, k, FALSE)
  IN  IF found = {} THEN Missing ELSE t[CHOOSE i \in found : TRUE].value

LEMMA SeenIsLook ==
  /\ Seen = [e \in Envs |-> [k \in Keys |-> Look(entries[e], k)]]
  /\ Seen' = [e \in Envs |-> [k \in Keys |-> Look(entries'[e], k)]]
BY DEF Seen, Look, zynkTableGet

(* In a table without double names it is the value in the slot of the name. *)
LEMMA LookIs ==
  ASSUME EmptyKey \notin Keys, NEW t, Unique(t), NEW k \in Keys
  PROVE  /\ (\A i \in Slots : t[i].name # k) => Look(t, k) = Missing
         /\ \A i \in Slots : t[i].name = k => Look(t, k) = t[i].value
<1> DEFINE found == zynkFindEntry(t, k, FALSE)
<1>1. ASSUME \A i \in Slots : t[i].name # k
      PROVE  found = {}
  BY <1>1, FoundIsNamed
<1>2. ASSUME NEW i \in Slots, t[i].name = k
      PROVE  found = {i}
  <2>1. found # {}
    BY <1>2, FindEnds DEF Stops, Matches
  <2>2. \A j \in found : j = i
    BY <1>2, FoundIsNamed, MissingAssumption DEF Unique
  <2>3. QED
    BY <2>1, <2>2
<1>3. ASSUME NEW i \in Slots, t[i].name = k
      PROVE  Look(t, k) = t[i].value
  <2>1. found = {i}
    BY <1>2, <1>3
  <2>2. (CHOOSE j \in found : TRUE) = i
    BY <2>1
  <2>3. found # {}
    BY <2>1
  <2>4. Look(t, k) = IF found = {} THEN Missing ELSE t[CHOOSE j \in found : TRUE].value
    BY DEF Look
  <2> HIDE DEF found
  <2>5. QED
    BY <2>2, <2>3, <2>4
<1>4. QED
  BY <1>1, <1>3 DEF Look

(* A table in which a name keeps its slots and their values reads the same. *)
LEMMA LookSame ==
  ASSUME EmptyKey \notin Keys, NEW t, NEW u, Unique(t), Unique(u), NEW k \in Keys,
         \A i \in Slots : t[i].name = k <=> u[i].name = k,
         \A i \in Slots : t[i].name = k => t[i].value = u[i].value
  PROVE  Look(t, k) = Look(u, k)
BY LookIs

(* A step that changes what one name of one table reads. *)
LEMMA SeenChanges ==
  ASSUME NEW e \in Envs, NEW k \in Keys, NEW v,
         Look(entries'[e], k) = v,
         \A q \in Keys \ {k} : Look(entries'[e], q) = Look(entries[e], q),
         \A f \in Envs \ {e} : entries'[f] = entries[f]
  PROVE  Seen' = [Seen EXCEPT ![e][k] = v]
<1>1. \A f \in Envs, q \in Keys :
        Look(entries'[f], q) = IF f = e /\ q = k THEN v ELSE Look(entries[f], q)
  OBVIOUS
<1>2. QED
  BY <1>1, SeenIsLook

LEMMA SeenKeeps ==
  ASSUME \A f \in Envs, q \in Keys : Look(entries'[f], q) = Look(entries[f], q)
  PROVE  Seen' = Seen
BY SeenIsLook

LEMMA StepRefines ==
  ASSUME ~ Redeclare, EmptyKey \notin Keys, TypeOK, AllUnique, [Next]_state
  PROVE  [Variables!Next]_Seen
<1>1. entries \in [Envs -> [Slots -> Entry]] /\ AllUnique'
  BY StepUnique DEF TypeOK
<1>2. \A e \in Envs : Unique(entries[e]) /\ Unique(entries'[e])
  BY <1>1 DEF AllUnique
<1>3. ASSUME NEW e \in Envs, EmptiesTable(e)
      PROVE  Variables!Empty(e)
  <2>1. /\ \A f \in Envs \ {e} : entries'[f] = entries[f]
        /\ \A i \in Slots : entries'[e][i].name = Missing
    BY <1>1, <1>3 DEF EmptiesTable, NoEntries, NoEntry
  <2>2. \A k \in Keys : Look(entries'[e], k) = Missing
    BY <1>2, <2>1, LookIs, MissingAssumption
  <2>3. \A f \in Envs, k \in Keys :
          Look(entries'[f], k) = IF f = e THEN Missing ELSE Look(entries[f], k)
    BY <2>1, <2>2
  <2>4. Seen' = [Seen EXCEPT ![e] = [k \in Keys |-> Missing]]
    BY <2>3, SeenIsLook
  <2>5. QED
    BY <2>4 DEF Variables!Empty
<1>4. ASSUME NEW e \in Envs, NEW k \in Keys, NEW v \in Values, Declares(e, k, v)
      PROVE  Variables!Declare(e, k, v) \/ Seen' = Seen
  <2>1. PICK i \in Slots, name \in {k, Missing} :
          /\ entries[e][i].name = Missing
          /\ entries' = [entries EXCEPT ![e][i] = [name |-> name, value |-> v]]
    BY <1>4 DEF Declares
  <2>2. /\ \A f \in Envs \ {e} : entries'[f] = entries[f]
        /\ \A j \in Slots \ {i} : entries'[e][j] = entries[e][j]
        /\ entries'[e][i].name = name /\ entries'[e][i].value = v
    BY <1>1, <2>1
  <2>3. \A q \in Keys \ {name} : Look(entries'[e], q) = Look(entries[e], q)
    <3> SUFFICES ASSUME NEW q \in Keys \ {name}
                 PROVE  Look(entries'[e], q) = Look(entries[e], q)
      OBVIOUS
    <3>1. \A j \in Slots : /\ entries[e][j].name = q <=> entries'[e][j].name = q
                           /\ entries[e][j].name = q
                                => entries[e][j].value = entries'[e][j].value
      BY <2>1, <2>2, MissingAssumption
    <3>2. QED
      BY <1>2, <3>1, LookSame
  <2>4. CASE name = k
    <3>1. Look(entries'[e], k) = v
      BY <1>2, <2>2, <2>4, LookIs
    <3>2. Look(entries[e], k) = Missing
      BY <1>2, <1>4, LookIs DEF Declares
    <3>3. Seen' = [Seen EXCEPT ![e][k] = v]
      BY <2>2, <2>3, <2>4, <3>1, SeenChanges
    <3>4. Seen[e][k] = Missing
      BY <3>2, SeenIsLook
    <3>5. QED
      BY <3>3, <3>4 DEF Variables!Declare
  <2>5. CASE name = Missing
    <3>1. \A q \in Keys : Look(entries'[e], q) = Look(entries[e], q)
      BY <2>3, <2>5, MissingAssumption
    <3>2. QED
      BY <2>2, <3>1, SeenKeeps
  <2>6. QED
    BY <2>4, <2>5
<1>5. ASSUME NEW e \in Envs, NEW k \in Keys, NEW v \in Values, Assigns(e, k, v)
      PROVE  Variables!Assign(e, k, v)
  <2>1. PICK i \in Slots :
          /\ entries[e][i].name = k
          /\ entries' = [entries EXCEPT ![e][i] = [name |-> k, value |-> v]]
    BY <1>5 DEF Assigns
  <2>2. /\ \A f \in Envs \ {e} : entries'[f] = entries[f]
        /\ \A j \in Slots \ {i} : entries'[e][j] = entries[e][j]
        /\ entries'[e][i].name = k /\ entries'[e][i].value = v
    BY <1>1, <2>1
  <2>3. \A q \in Keys \ {k} : Look(entries'[e], q) = Look(entries[e], q)
    <3> SUFFICES ASSUME NEW q \in Keys \ {k}
                 PROVE  Look(entries'[e], q) = Look(entries[e], q)
      OBVIOUS
    <3>1. \A j \in Slots : /\ entries[e][j].name = q <=> entries'[e][j].name = q
                           /\ entries[e][j].name = q
                                => entries[e][j].value = entries'[e][j].value
      BY <2>1, <2>2
    <3>2. QED
      BY <1>2, <3>1, LookSame
  <2>4. Look(entries'[e], k) = v
    BY <1>2, <2>2, LookIs
  <2>5. Seen' = [Seen EXCEPT ![e][k] = v]
    BY <2>2, <2>3, <2>4, SeenChanges
  <2>6. Seen[e][k] # Missing
    <3>1. Seen[e][k] = entries[e][i].value
      BY <1>2, <2>1, LookIs, SeenIsLook
    <3>2. entries[e][i] \in Entry
      BY <1>1
    <3>3. QED
      BY <3>1, <3>2, NamesAssumption DEF Entry, Values
  <2>7. QED
    BY <2>5, <2>6 DEF Variables!Assign
<1>6. ASSUME NEW e \in Envs, NEW k \in Keys, Removes(e, k)
      PROVE  Variables!Remove(e, k)
  <2>1. PICK i \in Slots :
          /\ entries[e][i].name = k
          /\ entries' = [entries EXCEPT ![e][i] = NoEntry]
    BY <1>6 DEF Removes
  <2>2. /\ \A f \in Envs \ {e} : entries'[f] = entries[f]
        /\ \A j \in Slots \ {i} : entries'[e][j] = entries[e][j]
        /\ entries'[e][i].name = Missing
    BY <1>1, <2>1 DEF NoEntry
  <2>3. \A q \in Keys \ {k} : Look(entries'[e], q) = Look(entries[e], q)
    <3> SUFFICES ASSUME NEW q \in Keys \ {k}
                 PROVE  Look(entries'[e], q) = Look(entries[e], q)
      OBVIOUS
    <3>1. \A j \in Slots : /\ entries[e][j].name = q <=> entries'[e][j].name = q
                           /\ entries[e][j].name = q
                                => entries[e][j].value = entries'[e][j].value
      BY <2>1, <2>2, MissingAssumption
    <3>2. QED
      BY <1>2, <3>1, LookSame
  <2>4. Look(entries'[e], k) = Missing
    <3>1. \A j \in Slots : entries'[e][j].name # k
      BY <1>2, <2>1, <2>2, MissingAssumption DEF Unique
    <3>2. QED
      BY <1>2, <3>1, LookIs
  <2>5. Seen' = [Seen EXCEPT ![e][k] = Missing]
    BY <2>2, <2>3, <2>4, SeenChanges
  <2>6. Seen[e][k] # Missing
    <3>1. Seen[e][k] = entries[e][i].value
      BY <1>2, <2>1, LookIs, SeenIsLook
    <3>2. entries[e][i] \in Entry
      BY <1>1
    <3>3. QED
      BY <3>1, <3>2, NamesAssumption DEF Entry, Values
  <2>7. QED
    BY <2>5, <2>6 DEF Variables!Remove
<1>7. CASE entries' = entries
  <2>1. Seen' = Seen
    BY <1>7, SeenKeeps
  <2>2. QED
    BY <2>1
<1>8. QED
  BY <1>3, <1>4, <1>5, <1>6, <1>7, StepOnTables DEF Variables!Next

(* Clients that declare each name once and never use "" see every table as a *)
(* map of its own, past all collisions, tombstones and names the arena could *)
(* not hold: the detailed table implements the scopes of README.md.          *)
THEOREM RefinesScope ==
  ASSUME ~ Redeclare, EmptyKey \notin Keys
  PROVE  Spec => ImplementsScope
<1>1. Init => Variables!Init
  <2> SUFFICES ASSUME Init
               PROVE  Variables!Init
    OBVIOUS
  <2>1. \A e \in Envs : \A i \in Slots : entries[e][i].name = Missing
    BY DEF Init, NoEntries, NoEntry
  <2>2. \A e \in Envs : Unique(entries[e])
    BY <2>1 DEF Unique
  <2>3. \A e \in Envs, k \in Keys : Look(entries[e], k) = Missing
    BY <2>1, <2>2, LookIs, MissingAssumption
  <2>4. QED
    BY <2>3, SeenIsLook DEF Variables!Init
<1>2. TypeOK /\ AllUnique /\ [Next]_state => [Variables!Next]_Seen
  BY StepRefines
<1>3. QED
  BY <1>1, <1>2, TypeCorrect, UniqueInvariant, PTL DEF Spec, ImplementsScope, Variables!Spec

=============================================================================
