# Formal models of libzynk

libzynk is the runtime of a small dynamic language: an arena allocator, hash
tables of variables, reference-counted objects and native functions, in C and
without threads. One program calls it from one thread, so nothing here is
concurrent. What is hard is elsewhere: **long sequences of legal calls** on
shared memory, **allocations that fail** at any point of an operation,
**ownership** passed between clients, tables and arrays, and **unsigned
arithmetic at its edges**. The models let a client make any call with any
argument it could have at that moment, and let the arena run out anywhere.

## 1. Inventory

| Component | Source (`src/src/…`) | State | Operations | What makes it correct |
|---|---|---|---|---|
| arena allocator | `runtime/sysarena-fixed.c` | a table of `max_arenas` descriptors (base, size, used, in_use) over one pool | init, alloc, free, defragment | blocks in use never overlap; a block is found again by its pointer and only it is taken back; exhaustion is reported |
| variable tables | `runtime/zynk_enviroment.c` | slots (name, value), `count`, enclosing environment | init, find, New, Set, Get, Delete, free table | what is read under a name is what was last stored under it; `count` and the slots agree; references are counted |
| objects | `runtime/object_mng.c`, `object_rf.c`, `objects.c`, `realloc.c` | `ref_count`, strings, native functions, arrays with `len`, `capacity` and a value buffer | create, retain, release, array get / set / push / pop | an object lives exactly as long as something refers to it; a failed creation leaves nothing behind |
| hash and names | `runtime/hash.c`, `memory.c:14-32` | none | hash, length and comparison of names | one hash per name whatever the width of `unsigned long`; no byte behind a terminator is compared |
| values | `runtime/memory.c:34-163`, `assign.c` | none | constructors, equality, order, truth, arithmetic | the operations agree with each other, overflow and NaN included; no division by zero |
| natives and calls | `runtime/funcs.c`, `calls.c`, `natives.h` | a table entry per native function | install, call by name, len, push, pop, get_index, set_index | who owns an argument and a result stays counted; strings keep their characters; functions stay callable |
| tests, examples | `test-env.c`, `tenv.c`, `test-ref.c`, `prueba.c` | | | they show how clients use the library |

How they interact: tables and objects allocate from the arena and never check
more than a NULL. Tables and arrays hold values; a value that is an object is a
counted reference. `zynkTableGet` and `zynkArrayGet` lend (no reference is
taken), `zynkArrayPop` hands its own reference over, `New`, `Set` and `push`
take one more. There are no callbacks except the native functions that
`zynkCallFunction` finds by name. Nothing is persisted and there are no
timeouts, so crash recovery and retries do not arise. What must eventually
happen is that the one unbounded loop, the probe of `zynkFindEntry`, ends.

## 2. Modules

    Allocator   <--refines--  Sysarena  --refines-->  BumpArena
                                                         .  (what is kept of the
    Scope       <--refines--  EnvTable . . . . . . . . . .   arena: descriptors
                                 |                       .   that never come back)
    Lookup  --implements-->   Probing                    .
                                                         .
    Natives  --extends-->     Objects  . . . . . . . . . .

    Values

Each of `Sysarena`, `EnvTable`, `Lookup`, `Objects`, `Natives` and `Values` has its
theorems in a module `...Proofs`; `NativesProofs` extends `ObjectsProofs` as
`Natives` extends `Objects`.

| Module | Models | Notes |
|---|---|---|
| `Sysarena` | the descriptor table and every state-changing function of `sysarena-fixed.c` | one action each for a request that splits a descriptor, that takes the rest of one, and that fails; `sysarena_free` with the defragmentation it ends in; `sysarena_defragment` called alone |
| `Allocator` | abstract: blocks that do not overlap, handed out or refused, taken back one at a time | what the runtime assumes |
| `BumpArena` | abstract: a break that only moves up and a count of descriptors used | what the arena amounts to; `EnvTable` and `Objects` keep its descriptor count (`room`) and take the pool to have bytes enough, as in the tests, where descriptors run out first |
| `EnvTable` | `zynk_enviroment.c`, with `zynk_retain` and `zynk_release` on leaf objects | extends `Probing` |
| `Probing` | `zynkFindEntry` as what it answers | the slot the probe ends at, as a set of at most one slot; the hash is any function of the name |
| `Lookup` | one call of `zynkFindEntry` step by step: the loop of `zynk_hash_string` over bytes, the endless loop over slots, `zynk_len`, `zynk_strcmp` | the operator `^` of C is the constant `XorOf`, of which only `XorAssumption` is known; TLC gives it the `^^` of `Bitwise` and checks the assumption |
| `Scope` | abstract: per environment, a partial map from names to values | what `src/README.md:77-83` promises |
| `Objects` | creation, counts, the release cascade, arrays and `reallocate` | the cascade is a recursive function over the list of releases still to be made, in the order of the recursion in C |
| `Natives` | `init_native_funcs`, `zynkCallFunction` and the functions of `funcs.c`, over the heap of `Objects` | clients fill an array with arguments and pass it; its own `NativesSpec` narrows the clients of `Objects` to that |
| `Values` | the constructors of `assign.c` and the operations of `memory.c:34-163` | a program of three registers that loads literals and computes with the last two values |
| `SysarenaProofs`, `EnvTableProofs`, `LookupProofs`, `ObjectsProofs`, `NativesProofs`, `ValuesProofs` | theorems about the six modules | section 5 |
| `LeastNumbers` | least and greatest numbers, induction and recursion up to a bound | lemmas the proofs about tables, searches and the heap need, from the well-foundedness of `<` |
| `MCSysarena`, `MCEnvTable`, `MCLookup`, `MCObjects`, `MCNatives`, `MCValues` | values of the constants for TLC | |

Correspondence of state.

* `Sysarena.arenas` is `manager->arenas`; addresses are offsets into the pool;
  `is_contiguous` is written and never read. `owned`, `brk`, `taken` are
  history: what clients own, one past the highest byte handed out, requests
  served.
* `EnvTable.entries`, `count` are the fields of `env->local`. `status` tells a
  table whose entry pointers are NULL ("raw") from an initialised one, one
  given to `freeZynkTable`, and a program that wrote to a NULL entry
  ("crashed"). `rc`, `freed` are the objects' counts and whether their memory
  went back; `held`, `lost`, `blocks` are history: references clients own,
  references overwritten without a release, arena blocks not given back. A
  fresh table has count 0: arena memory is never handed out twice, and the
  tests' pools are static, that is zeroed. Calls that return without effect
  (unknown name, full table, name that exists) change no state and are not
  separate actions.
* `Objects.blocks` tells which of an object's three allocations are still
  allocated, also after a creation that failed: each error path frees what was
  allocated before it, block by block (`NoBody`, `NoData`), and a release frees
  what `Returned` says. `elems` is the first `len` values of an array, `data`
  whether `array->array` is a pointer. `crashed` is set by a division by a length of 0
  and by an access through NULL, both of which end the program; so deadlock is
  not checked in the runs of `EnvTable`, `Objects` and `Natives`. `text` is the
  bytes of a string with the terminator, so that a write at `len` can be told
  from one at a character; `len` is one less than its length, for ever.
* `Natives.installed` is the set of functions `zynkTableGet` finds under their
  names. `held` of a function counts the reference of its creation, which
  `init_native_funcs` drops, and the one its table entry took. A missing
  argument is the Null an array is created with; as a string index it may be
  any number, because `zynkNull` leaves the union unset, and an object as a
  string index is 0, its pointer read as a double. The installation is one
  step: `Install` of each function is a function of what the one before left. `push` and `pop` of a string
  change nothing: both end where `reallocate` answers NULL.
* `Lookup.pc` tells which of the two loops runs; `hash`, `index`, `limit` are the
  variables of the code. It stops in "done", so deadlock is not checked.
* `Values.a`, `b`, `c` stand for the values a program has at hand. A double is
  one of evenly spaced numbers, an infinity or NaN. It is written as its number
  of steps, from `-Largest` to `Largest`, and `One` steps make 1, so there are
  numbers below 1 in magnitude: a quotient by one of them grows and may overflow
  to an infinity, a product may underflow to 0. Products and quotients are cut
  towards 0. The sign of zero is left out: the code refuses to divide by
  either zero, and no other operation tells them apart.

Inputs. Clients pass a value they own a reference to, or one they have just
read from a table or array. They call a native function with an array they own
a reference to and that is no argument of itself. `Redeclare` and `SelfAssign` widen or narrow that
discipline and are named in each run. Clients do not use a table after
`freeZynkTable`, and release only references they own.

## 3. Runs

`tlc -config X.cfg M` in this directory; the pairs are in `PROJECT.json`.

| Run | Bounds | What it shows |
|---|---|---|
| `sysarena` | pool of 6 bytes, 5 descriptors, requests of 1 to 4 bytes and of the whole pool | the layout of the table, one descriptor per block, nothing ever to merge, a budget of one descriptor per request, a pool that never looks fully merged again once it was split, refusals that are final, inert stale frees, and the two refinements |
| `env_table` | 3 slots, two colliding names and `""`, 2 objects, up to 6 descriptors, up to 3 references each | `count` in bounds, a slot for every name a table accepts, exact reference counts, with tables initialised again, names declared twice, and no memory for names |
| `env_scope` | 3 slots, three names, two of them colliding, 1 object, up to 7 descriptors; names declared once | what is read through a table is a map of its own, past collisions and tombstones |
| `natives` | two arrays of three values, two strings of one byte, the five functions; 24 descriptors or any fewer, a table with room for 3 or 5 of the functions; any array or string as target, a number or string as index, a string or function as new element (`Passed`), and calls with fewer arguments | counts stay exact when elements are set, pushed and popped through a call; a value set in place of the last other reference to itself survives, since the arguments hold it; functions cannot be freed; characters never change |
| `values` | numbers from -2 to 2 in steps of a half, both infinities and NaN, a byte, Null, booleans, four strings, three arrays, a function | equality is symmetric, transitive and reflexive but for NaN; equal values cannot be told apart by tests or arithmetic; the six comparisons agree with subtraction; NaN never comes from finite operands, and a quotient outgrows its dividend only by a divisor below 1 that is not 0 |
| `lookup` | six names of up to two bytes, positive and negative, 2 bits to a char, 8 to an int, 16 to an `unsigned long`; every table of 3 slots | termination and the number of turns, the bounds of the probe, the hash in 32 bits alone, and the answer of `Probing` |
| `objects` | two arrays of capacity 1 or 2, a string, a native function, up to 11 descriptors, one reference held to each | exact counts through pushes, sets, pops and cascades; nothing leaks but cycles and the elements of popped arrays; nothing reachable is freed; the blocks of an object follow its count, through failed creations too |

Why the bounds are enough. `Sysarena`'s interesting cases are a split with and
without a slot for the rest, an exact fit, a free left, right and inside of
blocks; 5 descriptors and 6 bytes meet them all, and the properties are proved
for all sizes besides. A table needs a collision, a tombstone before a name, and
a full round of the probe: three slots have them. In `EnvTable` an insertion
costs a descriptor, so `Room` also bounds the length of the interesting runs;
it is an upper bound on what the arena has left at the start, and every smaller
amount is an initial state. Two arrays are the least that make cycles, sharing
and nested cascades. `MaxRefs` and `MaxHeld` bound references clients take;
`RefMax` and `Word` are the width of `ref_count` and of indexes (a small number
instead of 2^32, and in `Objects` and `Natives` above all the references clients
and arrays can have, as the hypothesis `Fits` of the theorems asks); `MinCapacity` stands for 8. After the functions are
installed, nine of the 24 descriptors of `natives` are left: three arrays or
strings, which is what a call needs at most (arguments, target, new element or
result). Texts have one byte, so that index 0 is the character, 1 the terminator
and the largest index lies behind it. `Lookup` keeps the proportions of the
widths (four chars to an int, an `unsigned long` wider than an int).

Fairness. Only `Lookup` assumes any: `WF_vars(Next)`, that the processor goes on
running the one thread there is. Each step of it is a turn of a loop of the
code, so `Terminates` says that the loops are finite, not that they are
scheduled. All other properties are safety properties.

Runs that find a disagreement between the code and what its documentation, a
comment or a test says of it (each quoted in `PROJECT.json`, `findings`):

| Run | Counterexample |
|---|---|
| `sysarena_returns` | allocate, free: the request can not be served again, since `sysarena_free` erases the extent of the descriptor |
| `env_unique` | insert `a` behind a colliding `b`, delete `b`, insert `a` again: the tombstone is found first and `a` is in the table twice |
| `env_inherits` | a variable of the enclosing environment reads as null: the lookup there is unreachable |
| `env_self_assign` | the table owns the only reference to a value and it is stored back under its name: it is released, freed, and stored |
| `objects_pop` | two elements are pushed, one is popped, the array is released: its pointer is NULL, and the release does not come to the element left |

`env_self_assign` sets `SelfAssign`, which the passing runs do not; the other four
are found with clients a passing run has too.

## 4. Properties worth a word

* `Layout` is why the search of `sysarena_alloc` is correct: only one descriptor
  can ever satisfy a request, the one behind all blocks.
* `ExhaustionIsPermanent` and `DescriptorBudget` state what the erased extents
  mean for the layers above: the arena serves at most `MaxArenas` requests.
* `AdmitsNew` relates `count`, which is not reset, not exact and compared with
  `==`, to the slots a probe can still find.
* `ReferencesCounted` (in `EnvTable`) balances `ref_count` against the clients,
  the slots and a ledger of the references the code loses: by initialising a
  table again, by overwriting the value of a nameless slot, and by
  `freeZynkTable`. In `Objects` nothing may be lost, elements of a popped array
  are still counted.
* `NothingElseLeaks` says why an object is still in memory: it is reached from
  one a client holds, or from an array that contains itself (`Cycles`), or from
  an element of an array that a pop left without a pointer (`Stranded`). A
  client reaches an element only through a pointer, so `Contents` of a popped
  array is empty. `ReachableLive` is the converse: what a client can still reach
  is in memory.
* `MemoryFollowsCounts` follows each of the up to three blocks of an object. Every
  error path of a creation must free the blocks before it, and every release
  all but the two kinds the code forgets (`Forgotten`: the values of an array, the
  struct of a native function).
* `StoredValuesLive` in `natives` is why `set_index` may release before it
  retains, which `zynkTableSet` may not (`env_self_assign`).
* `CharactersFixed` pins down what the inverted bounds tests of `funcs.c:101,124`
  and the reallocation that always fails amount to: the native functions cannot
  change a string, but for its terminator.
* `EqualsInterchange` compares every operation on two equal values, which may
  have different representations (two strings). Two popped arrays are equal,
  since both hold NULL; nothing but the elements they lost tells them apart.
* `AnswersAsProbing` connects the byte loop and the endless loop with the
  operator the models of tables, and their theorems, rest on.

Every property of a passing run has a mutant in `PROJECT.json`: a definition
marked "Faulty variant" in its module, put in place of the code's.

## 5. Proofs

`tlapm XProofs.tla` checks the theorems about `X`. They hold for all values of
the constants that satisfy the named assumptions of the module; what a theorem
assumes besides stands in its statement and is listed here. Every invariant and
action property of the passing runs, and each refinement, is a theorem; the run
shows it on a small instance and supplies the mutants.

| Module | Theorems | Assumed besides |
|---|---|---|
| `SysarenaProofs` | the six invariants, both action properties and both refinements of the run `sysarena` | |
| `EnvTableProofs` | `TypeOK`, `CountBounds`, `AdmitsNew` | |
| | `ReferencesCounted`, `StoredValuesExist` | `~ SelfAssign` |
| | `UniqueNames` | `~ Redeclare` |
| | `ImplementsScope` | `~ Redeclare`, `""` is not used as a name |
| `LookupProofs` | `TypeOK`, `HashPortable`, `AnswersAsProbing`, `TurnsRunOut` | |
| `ObjectsProofs` | `TypeOK` | |
| | `ReferencesCounted`, `MemoryFollowsCounts`, `StoredValuesLive`, `NothingElseLeaks`, `ReachableLive` | `~ SelfAssign`, `Fits(MaxHeld)` |
| `NativesProofs` | `NativesTypeOK`, `CharactersFixed` | |
| | `ReferencesCounted`, `StoredValuesLive`, `NothingElseLeaks`, `ReachableLive`, `FunctionsStay` | `~ SelfAssign`, `Fits(MaxHeld + 1)` |
| `ValuesProofs` | the five properties of the run `values` | |

The hypotheses name client disciplines, and none is there for the prover's sake:
without `~ SelfAssign` the run `env_self_assign` refutes what they protect (as
`zynkTableSet`, `zynkArraySet` releases the old value before it retains the new one),
without `~ Redeclare` the run `env_unique` does, and `""` finds the free slots of
a table, which no map of names has. `Fits(B)` says that clients
(`B` references to one object at most) and all the slots of arrays together
hold fewer references than `ref_count` has values; beyond that the count wraps,
as it does in the code, and exact counts are impossible. The type theorems hold
even then. The runs satisfy each hypothesis.

**Sysarena.** `Tracked` alone is not inductive: nothing in it stops a split from shifting a
block off the end of the table. The inductive invariant is
`IInv == TypeOK /\ Layout /\ owned = LiveBlocks(arenas)`. With the order of
`Layout`,

1. `OnlyRemainderFits`: the search can only stop at descriptor `taken`, the
   memory never handed out, because blocks are used up and empty descriptors
   are not in use;
2. so a split shifts only empty descriptors (`SplitStep`), an exact fit turns
   the remainder into a block (`FillStep`), and neither disturbs the order;
3. `HolderIsBlock`, `BlocksApart`: a pointer below the break is held by one
   block in use at most, so a free clears exactly one (`FreeStep`);
4. `NoPairMerges`: a descriptor not in use has no extent, so a defragmentation
   leaves the table as it is (`DefragmentIdle`);
5. `StepEffect` sums up a step as moving the break, taking a block back or
   nothing, from which both refinements and both action properties follow.

The recursion of `sysarena_defragment` is never unfolded in a proof; that nothing
is mergeable is what makes it the identity.

**EnvTable.** The properties need each other. `Sized` says that `count` is at
least the number of named slots and that a table owns a block per slot and one per
name: without it neither `count--` nor freeing a table can be shown not to go
below zero. `Exact` says `rc = held + Stored + lost`, slot by slot, and
`FreedExactly` that an object was freed exactly when its count is 0; for the
latter the last reference has to be the one released, which is where
`~ SelfAssign` enters. `IInv` is their conjunction with `TypeOK`.

1. `ProbeReaches`: a probe visits every slot, by arithmetic on remainders, so
   `zynkFindEntry` answers whenever any slot of the table stops it (`FindEnds`);
2. `NamedChanges`, `WrittenIsCounted`: what one written slot does to the number
   of named slots and to the references a table stores; every operation writes
   one slot or all of a table;
3. `AdmitsNew` then counts: fewer named slots than slots leave one without a
   name;
4. `UniqueNames` has an induction of its own, over the four things a step can
   do to a table (`EmptiesTable`, `Declares`, `Assigns`, `Removes`); a tombstone
   in front of a name is harmless while nobody declares the name again;
5. with unique names and no `""`, looking a name up is looking for the slot that
   has it (`Look`), and each operation maps to its step of `Scope` or, like a
   declaration whose name the arena could not hold, to no step.

**Lookup.** `LInv` says how far both loops have come: the hash of the bytes
read, cut to 32 bits, is what 32 bits alone give, and the slots between the
start of the round and `index` do not stop the search. `CutTimes33` and
`CutOfMixed` show that carries and the extended sign stay above the bits that
are returned, `ProbeFollows` that the round returns to its start after exactly
`Capacity` slots, `AcceptsStops` that comparing lengths and then bytes is
comparing names. Of `^` only what `XorAssumption` states is used: it works on each
bit alone, so cutting its operands cuts its result.

**Objects.** `IInv(B)` is the type invariant, exact counts, `Within(B)` (bounds
on what clients hold and on capacities) and `Lifecycle` (an object is in memory
exactly as long as its count is above 0; one that was never created, or whose
creation failed, owns nothing). The hard part is the release cascade, in the
middle of which no count is exact. Its loop invariant is a balance, for each
object:

> its count = the references clients hold + the places of arrays not freed yet
> where it is found + the releases of it still to be made

1. `CascadeRun` unfolds the recursive function to a sequence of calls;
   `RecursionUpTo` says that it exists, `InductionUpTo` proves things about it;
2. a call moves the elements of a freed array from the second term to the third
   and takes one off the first and the last, so the balance stays, cycles
   included; an array is freed at most once, so the bound on the number of
   calls is never reached before the work is done;
3. at the end nothing is left to release and counts are exact again, of what is
   not freed; `HeldSurvive` says that what clients hold is not freed, and
   `CascadeOfElement` adds that the array a client is setting an element of, and
   the new element, survive the release of the old one;
4. `StoredValuesLive` follows, as a place in a live array counts, and
   `ReachableLive`, as the objects in memory are closed under going to elements;
5. `NothingElseLeaks`: an object in memory that is not reached has a count above 0
   and is held by no client, so it lies in a live array. That array still has
   its pointer, or the object would be stranded; so it is not reached either,
   and it reaches strictly more than the object does, or the object would be on
   a cycle. Of the unreached objects one reaches the most (`GreatestNumber`):
   there is none;
6. `MemoryFollowsCounts` is inductive given `IInv` before and after a step
   (`StepKeepsMemory`): an object counted to 0 by a cascade was whole and loses
   what `Returned` says (`ReturnedOrForgotten`), and a creation ends with all
   blocks or, by the frees of its error path, none (`AllocatedAll`).

**Natives.** `StepsAre` maps every step of the runtime and its clients to a
`HeapStep`: an operation of `Objects`, or a write of a string's terminator. The
only operation with weaker guards than in `Objects` is setting an element from
within a call, with a new element that the client may not own. `PassedSurvives`
shows that it can not be freed by the release of the old one: it is an element
of the array of arguments, which the client holds and which is no argument of
itself. `CInv` adds to the heap's invariant that of each installed function two
references are held by the runtime, for ever, so that the counts alone keep it
in memory. `CharactersKept` rests on the arithmetic of the inverted test: an
index that passes it is at least `len`, and a write behind `len` ends the program.

**Values.** For every spacing and largest double of at least 1, every heap and
every set of literals that are values (the two named assumptions of `Values`),
the inductive invariant is the
type invariant: `RoundIsDouble`, `CutIsInteger` and the lemmas after them
show each operation to stay within the doubles, and `QuotientNoLarger` that a
quotient stays within its dividend unless the divisor is below 1. The laws hold of any values, so each theorem is a fact about three values
(`EqualTransitive`, `OnlyNaNDiffersFromItself`, `OrderIsSignOfDifference`, ...)
and `TypeCorrect`. They are theorems about this model of doubles, whose
operations are external to the repository.

**Induction and recursion.** The induction theorems of the library take an
operator as a parameter, which the installed provers cannot instantiate.
`LeastNumbers` states what is needed about sets and functions instead: a set of
naturals has a least member (`LeastNumber`), a set that holds 0 and the successor
of each member below `N` holds `0 .. N` (`InductionUpTo`), and iterating a
function up to a bound gives a function (`RecursionUpTo`).

Only model-checked: `Terminates`, as liveness under fairness is out of the
prover's reach, and the five disagreements of section 3. What is proved of
termination is `TurnsRunOut`: each turn of the two loops decreases `Remaining`, a
natural number that starts at the length of the name plus `Capacity + 1`.

## 6. Not modelled

* Alignment and the sizes of the C structs.
* `arena_merge`, `arena_can_merge`, `arena_is_void`, `copy_arena`: nothing calls
  them. `sysarena_split` and
  `sysarena_displacement` are empty.
* NULL arguments and tables of capacity 0, which every entry point refuses.
* `zynk_cpy`, other than as the copy of a whole name or text; type functions of
  user code (`ObjFunction`), which the library cannot create; values of type
  object with a NULL pointer, which no constructor makes.
* Calls with a function as first argument (`set_index` then returns without a
  value), with the array of arguments among its own arguments (setting an
  element may then free the new one, as in `env_self_assign`), or with one too
  small for the arguments the function reads.
* What a write behind a string's terminator destroys: the step sets `crashed`.
* `initZynkTable` of a table that was used empties it and keeps `count`, although
  `src/README.md:58` calls `count` the number of active entries. `EnvTable` does
  the same and `CountBounds` states what still holds of `count`. `freeZynkTable`
  keeps the structs of nameless entries, although `src/README.md:79` says that it
  deallocates individual structs; so does the model. Likewise
  `Objects.Returned` keeps, as the code does, the struct of a freed native
  function and the values of a freed array.
* The test programs and examples: `test-env.c`, `tenv.c`, `test-ref.c`, `prueba.c`
  are sequences of the calls the clients of the models make in any order.

## 7. Plan

1. Done: the six models with their abstractions, and proofs of all their safety
   properties and refinements.
2. Next: what the code promises across models, that is the tables of `EnvTable`
   over the heap of `Objects` (nested arrays as values), the arena of `EnvTable`
   and `Objects` as an `Allocator` instead of a number of descriptors, and the
   action properties behind the theorems: an object once freed stays freed, a
   failed call changes nothing, no step but a release ends an object.
