------------------------------ MODULE Natives ------------------------------
(***************************************************************************)
(* The functions of the language that funcs.c defines on arrays and        *)
(* strings, how init_native_funcs puts them into a table, and how          *)
(* zynkCallFunction (calls.c) calls them by name with an array of          *)
(* arguments, on top of Objects.                                           *)
(*                                                                         *)
(* Of the table only which functions a call finds is kept.  Clients make   *)
(* strings and arrays, fill an array with arguments and pass it; a call    *)
(* that answers without touching an object is a step that changes nothing. *)
(* crashed also stands for a write outside the bytes of a string.          *)
(***************************************************************************)
EXTENDS Objects

CONSTANTS
  len, push, pop, get_index, set_index,   \* the functions
  FreeSlots,   \* the numbers of free slots a fresh table may have
  Chars,       \* the bytes of texts
  Passed       \* bound: the values clients pass at each position

Functions == {len, push, pop, get_index, set_index}

(* The elements of the array of arguments a native function may read.        *)
Arity == 3

ASSUME FunctionsAssumption == Natives = Functions /\ Cardinality(Functions) = 5
ASSUME CountAssumption == Word > 2   \* a function has two references
ASSUME TextsAssumption ==
  FreeSlots \subseteq Nat /\ Texts \subseteq Seq(Chars) /\ End \notin Chars
ASSUME PassedAssumption == Passed \in [1 .. Arity -> SUBSET Values]

VARIABLES
  started,     \* init_native_funcs was called
  installed    \* the functions found under their names

natives == <<started, installed>>
vars == <<state, started, installed>>

-----------------------------------------------------------------------------
(* init_native_funcs *)

(* Faulty variant: the entry keeps no reference.                             *)
CountUnretained(w) == 1

FirstCount(w) == IF w.slots > 0 THEN 2 ELSE 1

SlotsLeft(w) == IF w.slots > 0 THEN w.slots - 1 ELSE 0

(* A function made with n descriptors.                                       *)
Made(w, f, n, named) ==
  [room |-> w.room - n, slots |-> SlotsLeft(w),
   rc |-> [w.rc EXCEPT ![f] = FirstCount(w)],
   blocks |-> [w.blocks EXCEPT ![f] = PartsOf(f)], named |-> named]

NotMade(w) ==
  [room |-> 0, slots |-> SlotsLeft(w), rc |-> w.rc, blocks |-> w.blocks, named |-> w.named]

(***************************************************************************)
(* zynkTableNew of a native function just created.  Creation needs two     *)
(* descriptors, the name of the entry one more, and zynkTableNew stores    *)
(* the function whether or not it gets the name.  Nobody releases the      *)
(* reference the creation returned.                                        *)
(***************************************************************************)
Install(w, f) ==
  IF w.room >= 3 /\ w.slots > 0 THEN Made(w, f, 3, w.named \union {f})
  ELSE IF w.room >= 2 THEN Made(w, f, 2, w.named)
  ELSE NotMade(w)

(* The runtime owns the references of the functions: nothing but the program *)
(* itself ever gives them back.                                              *)
init_native_funcs(slots) ==
  /\ ~ started /\ started' = TRUE
  /\ LET start == [room |-> room, slots |-> slots, rc |-> rc, blocks |-> blocks,
                   named |-> {}]
         first == Install(Install(Install(start, len), push), pop)
         done == Install(Install(first, get_index), set_index)
     IN  /\ room' = done.room
         /\ rc' = done.rc
         /\ blocks' = done.blocks
         /\ installed' = done.named
         /\ held' = [o \in Objs |-> IF o \in Natives THEN done.rc[o] ELSE held[o]]
  /\ UNCHANGED <<freed, contents, crashed>>

-----------------------------------------------------------------------------
(* Arguments *)

(* Nothing compares the number of arguments with the ones a function reads:  *)
(* behind them lie the zynkNull()s an array is created with.                 *)
Arg(a, i) == IF i <= Len(elems[a]) THEN elems[a][i] ELSE Null

(* args->array[1].as.number as an index, whatever the type: the pointer to   *)
(* an object is a double below 1, and zynkNull() leaves the number unset.    *)
AsIndex(v) ==
  CASE v \in Numbers -> {v}
    [] v \in Objs -> {0}
    [] OTHER -> Indexes

len_of(s) == Len(text[s]) - 1

-----------------------------------------------------------------------------
(* The functions.  A string is never longer or shorter than it was created:  *)
(* push and pop of a string end where reallocate answers NULL.               *)

libzynk_push(a) ==
  IF Arg(a, 1) \in Arrays THEN zynkArrayPush(Arg(a, 1), Arg(a, 2))
  ELSE UNCHANGED state

libzynk_pop(a) ==
  IF Arg(a, 1) \in Arrays THEN zynkArrayPop(Arg(a, 1)) ELSE UNCHANGED state

(* The test of funcs.c:101 and 124.                                          *)
AcceptsIndex(s, index) == len_of(s) <= index

(* Behind the terminator any byte may follow.                                *)
ByteAt(s, index) ==
  IF index <= len_of(s) THEN {text[s][index + 1]} ELSE Chars \union {End}

TextOf(c) == IF c = End THEN <<>> ELSE <<c>>

libzynk_get_index(a) ==
  LET obj == Arg(a, 1)
  IN  IF obj \in Strings
      THEN \E index \in AsIndex(Arg(a, 2)) :
             IF AcceptsIndex(obj, index)
             THEN \E c \in ByteAt(obj, index), o \in Strings :
                    zynkCreateString(o, TextOf(c))
             ELSE UNCHANGED state
      ELSE IF obj \in Arrays /\ Arg(a, 2) \in Numbers
              /\ (elems[obj] = <<>> \/ ~ data[obj])
      THEN zynkArrayGet(obj)
      ELSE UNCHANGED state

(* Faulty variant: the byte in front of the index is written.                *)
WriteBefore(s, index, c) == [text EXCEPT ![s][index] = c]

WriteByte(s, index, c) == [text EXCEPT ![s][index + 1] = c]

SetByte(s, index, new) ==
  IF new \notin Objs \/ (new \in Strings /\ index > len_of(s)) THEN Crash
  ELSE /\ text' = IF new \in Strings THEN WriteByte(s, index, Head(text[new]))
                  ELSE text
       /\ UNCHANGED <<heap, arrays, room, crashed, held>>

(* The new element of an array needs no reference of the client's: the array *)
(* of arguments has one.                                                     *)
libzynk_set_index(a) ==
  LET obj == Arg(a, 1)
      new == Arg(a, 3)
  IN  IF obj \in Strings
      THEN \E index \in AsIndex(Arg(a, 2)) :
             IF AcceptsIndex(obj, index) THEN SetByte(obj, index, new)
             ELSE UNCHANGED state
      ELSE IF obj \in Arrays /\ Arg(a, 2) \in Numbers
      THEN SetElement(obj, Arg(a, 2), new)
      ELSE UNCHANGED state

(* An array whose values are gone has no arguments to read.  A function the  *)
(* table does not hold is not called, and len changes nothing.  Clients pass *)
(* no array that is an argument of itself.                                   *)
zynkCallFunction(f, a) ==
  /\ ~ crashed /\ f \in installed
  /\ held[a] > 0 /\ capacity[a] >= Arity /\ a \notin ToSet(elems[a])
  /\ IF ~ data[a] THEN Crash
     ELSE \/ f = len /\ UNCHANGED state
          \/ f = push /\ libzynk_push(a)
          \/ f = pop /\ libzynk_pop(a)
          \/ f = get_index /\ libzynk_get_index(a)
          \/ f = set_index /\ libzynk_set_index(a)
  /\ UNCHANGED natives

-----------------------------------------------------------------------------
(* The clients *)

(* An argument is pushed onto an array, or takes the place of another one.   *)
PassArgument(a, v) ==
  /\ v # a
  /\ \/ Len(elems[a]) < Arity /\ v \in Passed[Len(elems[a]) + 1] /\ zynkArrayPush(a, v)
     \/ \E i \in DOMAIN elems[a] :
          i <= Arity /\ v \in Passed[i] /\ v # elems[a][i] /\ zynkArraySet(a, i - 1, v)

Client ==
  \/ \E o \in Strings, str \in Texts : zynkCreateString(o, str)
  \/ \E o \in Arrays, n \in Requests : zynkCreateArray(o, n)
  \/ \E o \in Arrays \union Strings : Retain(o) \/ Release(o)
  \/ \E a \in Arrays, v \in Values : PassArgument(a, v)

NativesInit ==
  /\ Init
  /\ started = FALSE /\ installed = {}

NativesNext ==
  \/ \E slots \in FreeSlots : init_native_funcs(slots)
  \/ started /\ Client /\ UNCHANGED natives
  \/ \E f \in Natives, a \in Arrays : zynkCallFunction(f, a)

NativesSpec == NativesInit /\ [][NativesNext]_vars

-----------------------------------------------------------------------------
(* Properties *)

(* The types of the variables. *)
NativesTypeOK ==
  /\ TypeOK
  /\ text \in [Strings -> Seq(Chars \union {End})]
  /\ started \in BOOLEAN
  /\ installed \subseteq Natives

(* The characters of a string, and their number, are the ones it was created *)
(* with: the inverted test lets set_index write to the terminator and never  *)
(* to a character, and push and pop never get the memory they ask for.       *)
CharactersFixed ==
  [][\A s \in Strings :
       Live(s) /\ Live(s)' => Front(text'[s]) = Front(text[s])]_vars

(* A function found under its name is an object that exists, with the        *)
(* reference of its creation and the one of its table: no client can give    *)
(* back either.                                                              *)
FunctionsStay ==
  \A f \in installed : Live(f) /\ rc[f] >= 2
=============================================================================
