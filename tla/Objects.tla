------------------------------ MODULE Objects ------------------------------
(***************************************************************************)
(* The counted objects of the runtime: creation (object_mng.c), reference  *)
(* counts and the release cascade (object_rf.c), arrays (objects.c) and    *)
(* reallocate (realloc.c).                                                 *)
(*                                                                         *)
(* An object is up to three arena blocks: the ZynkObj itself ("object"),   *)
(* the struct of its kind ("body") and the bytes or values ("data").       *)
(* Native functions have no data.  A value is an object, a number, kept as *)
(* the uint32_t an index is read as, or Null, which stands for any other.  *)
(* The arena is a number of descriptors that only goes down (BumpArena).   *)
(***************************************************************************)
EXTENDS Integers, FiniteSets, SequencesExt

CONSTANTS
  Arrays, Strings, Natives,   \* the objects clients create, by kind
  Numbers,         \* numbers clients store in arrays
  Null,            \* any value that is neither an object nor a number
  Texts,           \* the texts of the strings clients create
  End,             \* the byte '\0'
  Requests,        \* the capacities asked of zynkCreateArray
  MinCapacity,     \* what a request for 0 is given (8 in the code)
  Word,            \* number of values of a uint32_t
  Indexes,         \* the indexes clients use, as a uint32_t
  Room,            \* bound: descriptors the arena has left at the start
  MaxHeld,         \* bound: references clients hold to one object
  SelfAssign       \* clients store a value that only the slot's old value
                   \* keeps alive

ASSUME KindsAssumption ==
  /\ Arrays \intersect Strings = {} /\ Strings \intersect Natives = {}
  /\ Arrays \intersect Natives = {}
  /\ Null \notin Arrays \union Strings \union Natives \union Numbers
  /\ (Arrays \union Strings \union Natives) \intersect Numbers = {}
ASSUME FiniteAssumption == IsFiniteSet(Arrays \union Strings \union Natives)
ASSUME CapacityAssumption ==
  /\ Requests \subseteq Nat /\ IsFiniteSet(Requests)
  /\ MinCapacity \in Nat \ {0}
ASSUME WordAssumption ==
  /\ Word \in Nat \ {0, 1}
  /\ Indexes \subseteq 0 .. Word - 1 /\ Numbers \subseteq 0 .. Word - 1
ASSUME BoundsAssumption == Room \in Nat /\ MaxHeld \in Nat \ {0}
ASSUME ClientAssumption == SelfAssign \in BOOLEAN

VARIABLES
  rc,        \* ref_count
  freed,     \* objects that went back to the arena
  blocks,    \* of each object, the blocks that are allocated
  elems,     \* of each array, its values up to len
  capacity,  \* of each array
  data,      \* of each array, whether array->array is a pointer or NULL
  text,      \* of each string, its bytes, the terminator included
  room,      \* descriptors the arena has left
  crashed,   \* the program has divided by 0 or used a NULL pointer
  held       \* history: references the clients own

heap == <<rc, freed, blocks>>
arrays == <<elems, capacity, data>>
contents == <<elems, capacity, data, text>>
state == <<rc, freed, blocks, elems, capacity, data, text, room, crashed, held>>

Objs == Arrays \union Strings \union Natives
Values == Objs \union Numbers \union {Null}
Parts == {"object", "body", "data"}

PartsOf(o) == IF o \in Natives THEN {"object", "body"} ELSE Parts

Live(o) == "object" \in blocks[o]

MaxCapacity == CHOOSE n \in Requests \union {MinCapacity} :
                 \A m \in Requests \union {MinCapacity} : m <= n

-----------------------------------------------------------------------------
(* zynk_retain and zynk_release *)

zynk_retain(r, v) == IF v \in Objs THEN [r EXCEPT ![v] = (@ + 1) % Word] ELSE r

(* What freeString, freeArray and the sysarena_free behind them give back:   *)
(* not the values of an array and not the body of a native function.         *)
Returned(o) ==
  IF o \in Strings THEN Parts
  ELSE IF o \in Arrays THEN {"object", "body"} ELSE {"object"}

(* Faulty variant: freeArray leaves its elements alone.                      *)
NoElements(o) == <<>>

Elements(o) == IF o \in Arrays THEN elems[o] ELSE <<>>

(***************************************************************************)
(* One call of zynk_release, of the value at the head of todo, which does  *)
(* nothing unless it is an object: the last reference releases the         *)
(* elements next and then frees the object.  An array whose values are     *)
(* gone is read through a NULL pointer.                                    *)
(***************************************************************************)
ReleaseHead(w) ==
  LET o == Head(w.todo)
      last == o \in Objs /\ w.rc[o] = 1
  IN  [todo    |-> IF last THEN Elements(o) \o Tail(w.todo) ELSE Tail(w.todo),
       rc      |-> IF o \in Objs THEN [w.rc EXCEPT ![o] = (@ - 1) % Word] ELSE w.rc,
       freed   |-> IF last THEN w.freed \union {o} ELSE w.freed,
       crashed |-> \/ w.crashed
                   \/ last /\ o \in Arrays /\ ~ data[o] /\ elems[o] # <<>>]

(* zynk_release(v) and all the releases it causes, in the order of the code. *)
(* No array is freed twice, so the calls are at most as many as elements.    *)
Cascade(v) ==
  LET calls == 1 + Cardinality(Arrays) * MaxCapacity
      start == [todo |-> <<v>>, rc |-> rc, freed |-> {}, crashed |-> FALSE]
      run[n \in 0 .. calls] ==
        IF n = 0 THEN start
        ELSE IF run[n - 1].todo = <<>> THEN run[n - 1]
        ELSE ReleaseHead(run[n - 1])
  IN  run[calls]

(* The state after a cascade; r is the count of every object then.           *)
After(c, r) ==
  /\ rc' = r
  /\ freed' = freed \union c.freed
  /\ blocks' = [o \in Objs |-> IF o \in c.freed THEN blocks[o] \ Returned(o)
                               ELSE blocks[o]]
  /\ crashed' = c.crashed

-----------------------------------------------------------------------------
(* The clients *)

Readable(a) == Live(a) /\ data[a]

Borrowed(v) ==
  \E a \in Arrays : held[a] > 0 /\ Readable(a) /\ v \in ToSet(elems[a])

Usable(v) == v \in Objs => held[v] > 0 \/ Borrowed(v)

Own(v) == held' = IF v \in Objs THEN [held EXCEPT ![v] = @ + 1] ELSE held

Bounded(v) == v \in Objs => held[v] < MaxHeld

Retain(o) ==
  /\ ~ crashed /\ Usable(o) /\ Bounded(o)
  /\ rc' = zynk_retain(rc, o)
  /\ Own(o)
  /\ UNCHANGED <<freed, blocks, contents, room, crashed>>

Release(o) ==
  /\ ~ crashed /\ held[o] > 0
  /\ LET c == Cascade(o) IN After(c, c.rc)
  /\ held' = [held EXCEPT ![o] = @ - 1]
  /\ UNCHANGED <<contents, room>>

-----------------------------------------------------------------------------
(* Creation: object, body and data are allocated in this order, one block    *)
(* for each descriptor the arena has left.                                   *)

sysarena_free(got, part) == got \ {part}

(* The error path when the body is refused.                                  *)
NoBody(got) == sysarena_free(got, "object")

(* Faulty variant: when the data is refused the body is not freed.           *)
NoDataButBody(got) == sysarena_free(got, "object")

(* The error path when the data is refused.                                  *)
NoData(got) == sysarena_free(sysarena_free(got, "body"), "object")

(* The blocks a creation leaves allocated, whether it succeeds or not.       *)
Allocated(o) ==
  CASE room = 0 -> {}
    [] room = 1 -> NoBody({"object"})
    [] room = 2 /\ o \notin Natives -> NoData({"object", "body"})
    [] OTHER -> PartsOf(o)

(* What is freed on an error path costs its descriptor all the same.         *)
Create(o) ==
  LET n == Cardinality(PartsOf(o))
  IN  /\ ~ crashed /\ ~ Live(o) /\ o \notin freed
      /\ blocks' = [blocks EXCEPT ![o] = Allocated(o)]
      /\ IF room >= n
         THEN rc' = [rc EXCEPT ![o] = 1] /\ Own(o) /\ room' = room - n
         ELSE room' = 0 /\ UNCHANGED <<rc, held>>
      /\ UNCHANGED <<freed, crashed>>

zynkCreateString(o, str) ==
  /\ o \in Strings /\ Create(o)
  /\ text' = IF room < Cardinality(Parts) THEN text
             ELSE [text EXCEPT ![o] = Append(str, End)]
  /\ UNCHANGED arrays

zynkCreateNativeFunction(o) == o \in Natives /\ Create(o) /\ UNCHANGED contents

zynkCreateArray(o, n) ==
  /\ o \in Arrays /\ Create(o)
  /\ elems' = [elems EXCEPT ![o] = <<>>]
  /\ capacity' = [capacity EXCEPT ![o] = IF n = 0 THEN MinCapacity ELSE n]
  /\ data' = [data EXCEPT ![o] = TRUE]
  /\ UNCHANGED text

-----------------------------------------------------------------------------
(* Arrays *)

Crash ==
  /\ crashed' = TRUE
  /\ UNCHANGED <<heap, contents, room, held>>

(* The slot an index selects; len + index is computed in 32 bits.            *)
Locate(len, index) == (((len + index) % Word) % len) + 1

(* zynkArrayGet has no effect but the division by a length of 0 and the read *)
(* through a NULL pointer.                                                   *)
zynkArrayGet(a) ==
  /\ ~ crashed /\ Live(a) /\ Usable(a)
  /\ elems[a] = <<>> \/ ~ data[a]
  /\ Crash

(* Faulty variant: the new element is not retained.                          *)
Unretained(c, v) == c.rc

Retained(c, v) == zynk_retain(c.rc, v)

SetElement(a, index, v) ==
  IF elems[a] = <<>> \/ ~ data[a] THEN Crash
  ELSE LET i == Locate(Len(elems[a]), index)
           c == Cascade(elems[a][i])
       IN  /\ After(c, Retained(c, v))
           /\ elems' = [elems EXCEPT ![a][i] = v]
           /\ UNCHANGED <<capacity, data, text, room, held>>

(* The release of the old element comes first and can end the new one.       *)
EndsNew(a, index, v) ==
  /\ elems[a] # <<>> /\ data[a]
  /\ v \in Cascade(elems[a][Locate(Len(elems[a]), index)]).freed

zynkArraySet(a, index, v) ==
  /\ ~ crashed /\ Live(a) /\ Usable(a) /\ Usable(v)
  /\ EndsNew(a, index, v) => SelfAssign
  /\ SetElement(a, index, v)

(* Line 8 of realloc.c returns whatever new_cap is: reallocate only ever     *)
(* answers NULL, and gives the old memory back when asked for none.          *)
reallocate(o, n) ==
  [pointer |-> FALSE,
   blocks |-> IF n = 0 THEN [blocks EXCEPT ![o] = @ \ {"data"}] ELSE blocks]

(* zynkArrayGrow asks for one more value than fit, and at least MinCapacity. *)
Grown(a) == IF capacity[a] + 1 < MinCapacity THEN MinCapacity ELSE capacity[a] + 1

zynkArrayGrow(a) == reallocate(a, Grown(a)).pointer

(* Faulty variant: the slot behind the last one is taken for a slot.         *)
FullOffByOne(a) == Len(elems[a]) > capacity[a]

Full(a) == Len(elems[a]) >= capacity[a]

zynkArrayPush(a, v) ==
  /\ ~ crashed /\ Live(a) /\ Usable(a) /\ Usable(v)
  /\ Full(a) => zynkArrayGrow(a)
  /\ IF ~ data[a] THEN Crash
     ELSE /\ elems' = [elems EXCEPT ![a] = Append(@, v)]
          /\ rc' = zynk_retain(rc, v)
          /\ capacity' = [capacity EXCEPT ![a] = IF Full(a) THEN Grown(a) ELSE @]
          /\ UNCHANGED <<freed, blocks, data, text, room, crashed, held>>

(* The last element goes to the client with the array's reference; the array *)
(* keeps no pointer to the others, and their memory is given back only when  *)
(* none is left.                                                             *)
zynkArrayPop(a) ==
  /\ ~ crashed /\ Live(a) /\ Usable(a)
  /\ elems[a] # <<>>
  /\ IF ~ data[a] THEN Crash
     ELSE /\ Bounded(Last(elems[a]))
          /\ elems' = [elems EXCEPT ![a] = Front(@)]
          /\ LET left == reallocate(a, Len(elems[a]) - 1)
             IN  /\ data' = [data EXCEPT ![a] = left.pointer]
                 /\ blocks' = left.blocks
          /\ Own(Last(elems[a]))
          /\ UNCHANGED <<rc, freed, capacity, text, room, crashed>>

-----------------------------------------------------------------------------

Init ==
  /\ rc = [o \in Objs |-> 0]
  /\ freed = {}
  /\ blocks = [o \in Objs |-> {}]
  /\ elems = [a \in Arrays |-> <<>>]
  /\ capacity = [a \in Arrays |-> 0]
  /\ data = [a \in Arrays |-> FALSE]
  /\ text = [o \in Strings |-> <<>>]
  /\ room \in 0 .. Room
  /\ crashed = FALSE
  /\ held = [o \in Objs |-> 0]

Next ==
  \/ \E o \in Objs : \/ \E str \in Texts : zynkCreateString(o, str)
                     \/ zynkCreateNativeFunction(o)
                     \/ \E n \in Requests : zynkCreateArray(o, n)
                     \/ Retain(o) \/ Release(o)
  \/ \E a \in Arrays : \/ zynkArrayGet(a)
                       \/ \E v \in Values : \/ zynkArrayPush(a, v)
                                            \/ \E i \in Indexes : zynkArraySet(a, i, v)
                       \/ zynkArrayPop(a)

Spec == Init /\ [][Next]_state

-----------------------------------------------------------------------------
(* Properties *)

(* The types of the variables; no array is longer than its capacity. *)
TypeOK ==
  /\ rc \in [Objs -> 0 .. Word - 1]
  /\ freed \subseteq Objs
  /\ blocks \in [Objs -> SUBSET Parts]
  /\ elems \in [Arrays -> Seq(Values)]
  /\ capacity \in [Arrays -> Nat]
  /\ \A a \in Arrays : Len(elems[a]) <= capacity[a]
  /\ data \in [Arrays -> BOOLEAN]
  /\ DOMAIN text = Strings
  /\ room \in 0 .. Room
  /\ crashed \in BOOLEAN
  /\ held \in [Objs -> Nat]

LiveArrays == {a \in Arrays : Live(a)}

Places == UNION {{a} \X DOMAIN elems[a] : a \in LiveArrays}

References(o) == held[o] + Cardinality({p \in Places : elems[p[1]][p[2]] = o})

(* ref_count is exact through every push, set, pop and cascade: it is the    *)
(* number of references of clients and live arrays, and what was freed is    *)
(* referred to by nothing.                                                   *)
ReferencesCounted ==
  \A o \in Objs : rc[o] = References(o)

(* What a client that has o reads of it: nothing, once its values are gone.  *)
Contents(o) ==
  IF o \in LiveArrays /\ data[o] THEN ToSet(elems[o]) \intersect Objs ELSE {}

Reach(from) ==
  LET grow[n \in 0 .. Cardinality(Objs)] ==
        IF n = 0 THEN from
        ELSE grow[n - 1] \union UNION {Contents(o) : o \in grow[n - 1]}
  IN  grow[Cardinality(Objs)]

Owned == {o \in Objs : held[o] > 0}

(* Arrays that contain themselves, and the elements zynkArrayPop left where  *)
(* nobody reads them and freeArray cannot release them.                      *)
Cycles == {a \in LiveArrays : a \in Reach(Contents(a))}

Stranded == UNION {ToSet(elems[a]) \intersect Objs : a \in {b \in LiveArrays : ~ data[b]}}

(* The cascade leaves nothing behind that these two do not explain: every    *)
(* object in memory is reached from what clients own, from a cycle or from   *)
(* an element a popped array still counts.                                   *)
NothingElseLeaks ==
  {o \in Objs : Live(o)} \subseteq Reach(Owned \union Cycles \union Stranded)

(* No dangling reference: what a client can reach through arrays from the    *)
(* objects it holds is in memory, so reading it is never a use after free.   *)
ReachableLive == Reach(Owned) \subseteq {o \in Objs : Live(o)}

(* What no release gives back: the values of an array, the struct of a       *)
(* native function.                                                          *)
Forgotten(o) ==
  IF o \in Arrays THEN {"data"} ELSE IF o \in Natives THEN {"body"} ELSE {}

(* The blocks of an object follow its count.  While it is counted it is      *)
(* whole, an array's values included as long as its pointer leads to them.   *)
(* When the count is 0, no more is left than a release forgets, and nothing  *)
(* of a creation that failed at any of its allocations.                      *)
MemoryFollowsCounts ==
  \A o \in Objs :
    IF rc[o] > 0
    THEN /\ blocks[o] \subseteq PartsOf(o)
         /\ PartsOf(o) \subseteq blocks[o] \union {"data"}
         /\ o \in Strings \/ (o \in Arrays /\ data[o]) => "data" \in blocks[o]
    ELSE blocks[o] \subseteq (IF o \in freed THEN Forgotten(o) ELSE {})

(* Whatever a release ends on its way, no array is left with an element      *)
(* whose memory went back to the arena.                                      *)
StoredValuesLive ==
  \A a \in LiveArrays : \A v \in ToSet(elems[a]) \intersect Objs : Live(v)

(* test-ref.c:100 of the last release of an array: it should free the        *)
(* array's strings "también al final".  A release that frees an array has    *)
(* its elements before it to release.                                        *)
ReleasedWithElements ==
  \A a \in Arrays \intersect freed : elems[a] = <<>> \/ data[a]

=============================================================================
