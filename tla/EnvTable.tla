------------------------------ MODULE EnvTable ------------------------------
(***************************************************************************)
(* The variable tables of src/src/runtime/zynk_enviroment.c: open          *)
(* addressing with linear probing and tombstones, over entries and names   *)
(* allocated from the arena, holding counted references to objects         *)
(* (src/src/runtime/object_rf.c).                                          *)
(*                                                                         *)
(* The objects stored here are leaves (strings): the last release frees    *)
(* the object and nothing else.  Of the arena only what BumpArena says is  *)
(* kept: each block handed out costs a descriptor that never comes back.   *)
(* Addresses, name bytes and non-object values are abstracted; the hash is *)
(* any function of the name.  Missing stands for no name, no enclosing     *)
(* environment and no variable.                                            *)
(***************************************************************************)
EXTENDS Probing, FiniteSets

CONSTANTS
  Envs,         \* the environments of the program
  Enclosing,    \* the enclosing environment each of them is given
  Objs,         \* objects the clients created
  Null,         \* any value that is not an object
  Room,         \* bound: descriptors the arena has left at the start
  MaxRefs,      \* bound: references clients have out to one object
  RefMax,       \* largest value of ref_count (uint32_t)
  Redeclare,    \* clients call zynkTableNew on names they declared before
  SelfAssign    \* clients store a value whose only reference is the slot's

ASSUME EnvsAssumption == IsFiniteSet(Envs)
ASSUME EnclosingAssumption == Enclosing \in [Envs -> Envs \union {Missing}]
ASSUME RoomAssumption == Room \in Nat
ASSUME RefsAssumption == MaxRefs \in Nat \ {0} /\ RefMax \in Nat /\ MaxRefs < RefMax
ASSUME NamesAssumption ==
  /\ Null \notin Objs
  /\ Missing \notin Objs \union Envs \union {Null}
ASSUME ClientAssumption == Redeclare \in BOOLEAN /\ SelfAssign \in BOOLEAN

VARIABLES
  entries,   \* env->local->entries
  count,     \* env->local->count
  status,    \* entries unallocated ("raw"), "ready", "freed", or a NULL
             \* entry was written ("crashed"), which ends the program
  room,      \* descriptors the arena has left
  rc,        \* ref_count of each object
  freed,     \* objects whose memory went back to the arena
  held,      \* history: references the clients own
  lost,      \* history: references overwritten without a release
  blocks     \* history: entry structs and names a table has not given back

tables == <<entries, count, status, blocks>>
objects == <<rc, freed, lost>>
state == <<entries, count, status, room, rc, freed, held, lost, blocks>>

Values == Objs \union {Null}
NoEntry == [name |-> Missing, value |-> Null]
Entry == [name : Keys \union {Missing}, value : Values]
NoEntries == [i \in Slots |-> NoEntry]

Named(t) == {i \in Slots : t[i].name # Missing}
SlotsHolding(t, o) == {i \in Slots : t[i].value = o}

-----------------------------------------------------------------------------
(* Reference counts *)

(* zynk_retain of v, then zynk_release of w: ref_count is a uint32_t.        *)
zynk_retain(r, v) ==
  IF v \in Objs
  THEN [r EXCEPT ![v] = IF @ = RefMax THEN 0 ELSE @ + 1]
  ELSE r

zynk_release(r, w) ==
  IF w \in Objs
  THEN [r EXCEPT ![w] = IF @ = 0 THEN RefMax ELSE @ - 1]
  ELSE r

(* The object the release of w gives back to the arena.                      *)
Ends(r, w) == {o \in Objs : o = w /\ r[o] = 1}

Drop(l, dropped) == [o \in Objs |-> l[o] + dropped[o]]

One(v) == [o \in Objs |-> IF o = v THEN 1 ELSE 0]

All(t) == [o \in Objs |-> Cardinality(SlotsHolding(t, o))]

(* What a client reads under a name.                                         *)
zynkTableGet(e, k) ==
  LET found == zynkFindEntry(entries[e], k, FALSE)
  IN  IF found = {} THEN Null ELSE entries[e][CHOOSE i \in found : TRUE].value

-----------------------------------------------------------------------------
(* The clients *)

Running == \A e \in Envs : status[e] # "crashed"

Borrowed(v) == \E e \in Envs, k \in Keys : status[e] = "ready" /\ zynkTableGet(e, k) = v

(* A client passes on values it owns a reference to, or has just read.       *)
Usable(v) == v = Null \/ Borrowed(v) \/ (v \in Objs /\ held[v] > 0)

Bounded(v) == v \in Objs => rc[v] < MaxRefs

Retain(o) ==
  /\ Running /\ Usable(o) /\ Bounded(o)
  /\ rc' = zynk_retain(rc, o)
  /\ held' = [held EXCEPT ![o] = @ + 1]
  /\ UNCHANGED <<tables, room, freed, lost>>

Release(o) ==
  /\ Running /\ held[o] > 0
  /\ rc' = zynk_release(rc, o)
  /\ freed' = freed \union Ends(rc, o)
  /\ held' = [held EXCEPT ![o] = @ - 1]
  /\ UNCHANGED <<tables, room, lost>>

-----------------------------------------------------------------------------
(* zynkEnvInit and initZynkTable *)

(* Every slot is emptied; what it named and held before is forgotten.        *)
(* count is not touched.                                                     *)
InitTable(e) ==
  /\ status' = [status EXCEPT ![e] = "ready"]
  /\ entries' = [entries EXCEPT ![e] = NoEntries]
  /\ lost' = Drop(lost, All(entries[e]))
  /\ UNCHANGED <<count, rc, freed, held>>

zynkEnvInit(e) ==
  /\ Running
  /\ \/ /\ status[e] = "raw" /\ room >= Capacity
        /\ InitTable(e)
        /\ room' = room - Capacity
        /\ blocks' = [blocks EXCEPT ![e] = @ + Capacity]
     \/ /\ status[e] = "ready"
        /\ InitTable(e)
        /\ UNCHANGED <<room, blocks>>
     \/ /\ status[e] = "raw" /\ room < Capacity
        /\ status' = [status EXCEPT ![e] = "crashed"]
        /\ room' = 0
        /\ blocks' = [blocks EXCEPT ![e] = @ + room]
        /\ UNCHANGED <<entries, count, objects, held>>

-----------------------------------------------------------------------------
(* zynkTableNew *)

(* An arena that has no descriptor left answers NULL: the entry stays        *)
(* nameless, and zynkTableNew goes on.                                       *)
NewEntry(k, v) == [name |-> IF room > 0 THEN k ELSE Missing, value |-> v]

Store(e, i, k, v) ==
  /\ entries' = [entries EXCEPT ![e][i] = NewEntry(k, v)]
  /\ lost' = Drop(lost, One(entries[e][i].value))
  /\ rc' = zynk_retain(rc, v)

(* Faulty variant: the last free slot is not kept out of reach.              *)
FullIgnored(e) == FALSE

Full(e) == count[e] = Capacity

zynkTableNew(e, k, v) ==
  /\ Running /\ status[e] = "ready"
  /\ Usable(v) /\ Bounded(v)
  /\ Redeclare \/ \A i \in Slots : entries[e][i].name # k
  /\ ~ Full(e)
  /\ \E i \in zynkFindEntry(entries[e], k, TRUE) :
       /\ entries[e][i].name = Missing
       /\ Store(e, i, k, v)
       /\ blocks' = [blocks EXCEPT ![e] = IF room > 0 THEN @ + 1 ELSE @]
       /\ room' = IF room > 0 THEN room - 1 ELSE room
  /\ count' = [count EXCEPT ![e] = @ + 1]
  /\ UNCHANGED <<status, freed, held>>

-----------------------------------------------------------------------------
(* zynkTableSet: the old value is released before the new one is retained *)

(* Faulty variant: the old value keeps its reference.                        *)
ReplaceUnreleased(e, i, v) ==
  /\ entries' = [entries EXCEPT ![e][i].value = v]
  /\ rc' = zynk_retain(rc, v)
  /\ UNCHANGED freed

Replace(e, i, v) ==
  LET old == entries[e][i].value
  IN  /\ entries' = [entries EXCEPT ![e][i].value = v]
      /\ rc' = zynk_retain(zynk_release(rc, old), v)
      /\ freed' = freed \union Ends(rc, old)

zynkTableSet(e, k, v) ==
  /\ Running /\ status[e] = "ready"
  /\ Usable(v) /\ Bounded(v)
  /\ \E i \in zynkFindEntry(entries[e], k, FALSE) :
       /\ v \in Ends(rc, entries[e][i].value) => SelfAssign
       /\ Replace(e, i, v)
  /\ UNCHANGED <<count, status, room, held, lost, blocks>>

-----------------------------------------------------------------------------
(* zynkTableDelete *)

(* Faulty variant: a slot without a name is deleted again.                   *)
DeletableNameless(entry) == TRUE

Deletable(entry) == entry.name # Missing

Tombstone(entry) == NoEntry

zynkTableDelete(e, k) ==
  /\ Running /\ status[e] = "ready"
  /\ \E i \in zynkFindEntry(entries[e], k, FALSE) :
       /\ Deletable(entries[e][i])
       /\ rc' = zynk_release(rc, entries[e][i].value)
       /\ freed' = freed \union Ends(rc, entries[e][i].value)
       /\ entries' = [entries EXCEPT ![e][i] = Tombstone(@)]
  /\ count' = [count EXCEPT ![e] = @ - 1]
  /\ blocks' = [blocks EXCEPT ![e] = @ - 1]
  /\ UNCHANGED <<status, room, held, lost>>

-----------------------------------------------------------------------------
(* freeZynkTable: the names and structs of named entries go back, entries    *)
(* without a name are skipped, and no value is released.                     *)

freeZynkTable(e) ==
  /\ Running /\ status[e] = "ready"
  /\ status' = [status EXCEPT ![e] = "freed"]
  /\ entries' = [entries EXCEPT ![e] = NoEntries]
  /\ lost' = Drop(lost, All(entries[e]))
  /\ blocks' = [blocks EXCEPT ![e] = @ - 2 * Cardinality(Named(entries[e]))]
  /\ UNCHANGED <<count, room, rc, freed, held>>

-----------------------------------------------------------------------------

Init ==
  /\ entries = [e \in Envs |-> NoEntries]
  /\ count = [e \in Envs |-> 0]
  /\ status = [e \in Envs |-> "raw"]
  /\ room \in 0 .. Room
  /\ rc = [o \in Objs |-> 1]
  /\ freed = {}
  /\ held = [o \in Objs |-> 1]
  /\ lost = [o \in Objs |-> 0]
  /\ blocks = [e \in Envs |-> 0]

Next ==
  \/ \E e \in Envs :
       \/ zynkEnvInit(e)
       \/ freeZynkTable(e)
       \/ \E k \in Keys :
            \/ \E v \in Values : zynkTableNew(e, k, v) \/ zynkTableSet(e, k, v)
            \/ zynkTableDelete(e, k)
  \/ \E o \in Objs : Retain(o) \/ Release(o)

Spec == Init /\ [][Next]_state

-----------------------------------------------------------------------------
(* Properties *)

Stored(o) == Cardinality({p \in Envs \X Slots : entries[p[1]][p[2]].value = o})

(* The types of the variables. *)
TypeOK ==
  /\ entries \in [Envs -> [Slots -> Entry]]
  /\ count \in [Envs -> Int]
  /\ status \in [Envs -> {"raw", "ready", "freed", "crashed"}]
  /\ room \in 0 .. Room
  /\ rc \in [Objs -> 0 .. RefMax]
  /\ freed \subseteq Objs
  /\ held \in [Objs -> Nat] /\ lost \in [Objs -> Nat]
  /\ blocks \in [Envs -> Nat]

(* count never runs below the variables it counts nor above the slots: the   *)
(* equality test of zynkTableNew (line 75) is enough, count-- never wraps.   *)
CountBounds ==
  \A e \in Envs :
    /\ count[e] <= Capacity
    /\ status[e] = "ready" => Cardinality(Named(entries[e])) <= count[e]

(* A table that does not count itself full has a slot for any further name,  *)
(* whatever was inserted and deleted before and wherever its probe starts.   *)
AdmitsNew ==
  \A e \in Envs :
    status[e] = "ready" /\ ~ Full(e)
      => \A k \in Keys : zynkFindEntry(entries[e], k, TRUE) # {}

(* ref_count is exact: the clients' references, the slots' and those the     *)
(* tables forgot.  An object goes back to the arena only when nothing refers *)
(* to it any more.                                                           *)
ReferencesCounted ==
  \A o \in Objs :
    /\ rc[o] = held[o] + Stored(o) + lost[o]
    /\ o \in freed <=> rc[o] = 0

(* README.md:80 of zynkTableNew: it "will only succeed if the `str` key does *)
(* not already exist".  A table never holds a name twice.                    *)
UniqueNames ==
  \A e \in Envs : \A i, j \in Named(entries[e]) :
    entries[e][i].name = entries[e][j].name => i = j

(* README.md:73: nested scopes "inherit or override variables from parent    *)
(* scopes".  A variable of the enclosing table that the local one does not   *)
(* declare is read through the local one.                                    *)
Inherits ==
  \A e \in Envs, k \in Keys :
    LET f == Enclosing[e]
    IN  /\ f # Missing
        /\ status[e] = "ready" /\ status[f] = "ready"
        /\ \A i \in Slots : entries[e][i].name # k
        => zynkTableGet(e, k) = zynkTableGet(f, k)

(* object_rf.c:18-25 frees an object when its last reference is given up; a  *)
(* value that a table holds is therefore an object that still exists.        *)
StoredValuesExist == \A o \in freed : Stored(o) = 0

(* What a client reads of the tables, when it declares a name only once.     *)
Seen ==
  [e \in Envs |->
     [k \in Keys |->
        IF zynkFindEntry(entries[e], k, FALSE) = {} THEN Missing
        ELSE zynkTableGet(e, k)]]

Variables == INSTANCE Scope WITH vars <- Seen

(* Through zynkTableGet each table is a map of its own, changed only by the  *)
(* operation called and only at the name given, wherever the probes of other *)
(* names pass and whichever tombstones lie on the way.                       *)
ImplementsScope == Variables!Spec

=============================================================================
