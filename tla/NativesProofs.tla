--------------------------- MODULE NativesProofs ---------------------------
(***************************************************************************)
(* Proofs about the native functions and their calls, on top of the proofs *)
(* about the heap: for every set of objects, texts and arguments, every    *)
(* amount of memory and every number of free slots at the start.           *)
(***************************************************************************)
EXTENDS Natives, ObjectsProofs

Bytes == Chars \union {End}

(* A string that a client or an array refers to has at least a terminator.   *)
Referred(s) == held[s] > 0 \/ \E a \in Arrays : s \in ToSet(elems[a])

Terminated == \A s \in Strings : Referred(s) => text[s] # <<>>

TextTyped == text \in [Strings -> Seq(Bytes)]

(* Nothing happens before the functions are installed.                       *)
Fresh == ~ started => Init /\ installed = {}

(* References stay references of what was referred to, and no text changes.  *)
NothingNew ==
  /\ text' = text
  /\ \A s \in Strings : Referred(s)' => Referred(s)

-----------------------------------------------------------------------------
(* References and texts *)

LEMMA UsableIsReferred ==
  ASSUME NEW v \in Strings, Usable(v)
  PROVE  Referred(v)
BY KindsOfValues DEF Usable, Borrowed, Referred

(* An element of a sequence after a change of one place, or one more.        *)
LEMMA ChangedElements ==
  ASSUME TypeOK, NEW a \in Arrays, NEW v \in Values
  PROVE  /\ \A i, b, s : b \in Arrays /\ s \in ToSet([elems EXCEPT ![a][i] = v][b])
                            => s = v \/ s \in ToSet(elems[b])
         /\ \A b, s : b \in Arrays /\ s \in ToSet([elems EXCEPT ![a] = Append(@, v)][b])
                            => s = v \/ s \in ToSet(elems[b])
         /\ \A b, s : b \in Arrays /\ s \in ToSet([elems EXCEPT ![a] = <<>>][b])
                            => s \in ToSet(elems[b])
<1>1. elems[a] \in Seq(Values) /\ elems \in [Arrays -> Seq(Values)]
  BY DEF TypeOK
<1>2. ASSUME NEW i, NEW b \in Arrays, NEW s \in ToSet([elems EXCEPT ![a][i] = v][b])
      PROVE  s = v \/ s \in ToSet(elems[b])
  <2>1. PICK j \in DOMAIN [elems EXCEPT ![a][i] = v][b] :
           s = [elems EXCEPT ![a][i] = v][b][j]
    BY <1>2 DEF ToSet
  <2>2. DOMAIN [elems EXCEPT ![a][i] = v][b] = DOMAIN elems[b]
    BY <1>1
  <2>3. s = v \/ s = elems[b][j]
    BY <1>1, <2>1, <2>2
  <2>4. QED
    BY <2>1, <2>2, <2>3 DEF ToSet
<1>3. ASSUME NEW b \in Arrays, NEW s \in ToSet([elems EXCEPT ![a] = Append(@, v)][b])
      PROVE  s = v \/ s \in ToSet(elems[b])
  <2>1. CASE b = a
    <3>1. [elems EXCEPT ![a] = Append(@, v)][b] = Append(elems[a], v)
      BY <1>1, <2>1
    <3>2. PICK j \in DOMAIN Append(elems[a], v) : s = Append(elems[a], v)[j]
      BY <1>3, <3>1 DEF ToSet
    <3>3. s = v \/ (j \in DOMAIN elems[a] /\ s = elems[a][j])
      BY <1>1, <3>2
    <3>4. QED
      BY <2>1, <3>3 DEF ToSet
  <2>2. CASE b # a
    BY <1>1, <1>3, <2>2
  <2>3. QED
    BY <2>1, <2>2
<1>4. ASSUME NEW b \in Arrays, NEW s \in ToSet([elems EXCEPT ![a] = <<>>][b])
      PROVE  s \in ToSet(elems[b])
  <2>1. CASE b = a
    BY <1>1, <1>4, <2>1 DEF ToSet
  <2>2. CASE b # a
    BY <1>1, <1>4, <2>2
  <2>3. QED
    BY <2>1, <2>2
<1>5. QED
  BY <1>2, <1>3, <1>4

LEMMA PushNothingNew ==
  ASSUME TypeOK, NEW a \in Arrays, NEW v \in Values, zynkArrayPush(a, v)
  PROVE  NothingNew
<1>1. CASE Crash
  BY <1>1 DEF Crash, contents, NothingNew, Referred
<1>2. CASE elems' = [elems EXCEPT ![a] = Append(@, v)] /\ UNCHANGED <<text, held>>
  <2>1. ASSUME NEW s \in Strings, Referred(s)'
        PROVE  Referred(s)
    <3>1. s = v => Referred(s)
      BY UsableIsReferred DEF zynkArrayPush
    <3>2. QED
      BY <1>2, <2>1, <3>1, ChangedElements DEF Referred
  <2>2. QED
    BY <1>2, <2>1 DEF NothingNew
<1>3. QED
  BY <1>1, <1>2 DEF zynkArrayPush

LEMMA SetNothingNew ==
  ASSUME TypeOK, NEW a \in Arrays, NEW index, NEW v \in Values,
         v \in Strings => Referred(v), SetElement(a, index, v)
  PROVE  NothingNew
<1>1. CASE Crash
  BY <1>1 DEF Crash, contents, NothingNew, Referred
<1>2. CASE /\ elems' = [elems EXCEPT ![a][Locate(Len(elems[a]), index)] = v]
           /\ UNCHANGED <<text, held>>
  BY <1>2, ChangedElements DEF Referred, NothingNew
<1>3. QED
  BY <1>1, <1>2 DEF SetElement

LEMMA PopNothingNew ==
  ASSUME TypeOK, NEW a \in Arrays, zynkArrayPop(a)
  PROVE  NothingNew
<1>1. CASE Crash
  BY <1>1 DEF Crash, contents, NothingNew, Referred
<1>2. CASE elems' = [elems EXCEPT ![a] = Front(@)] /\ Own(Last(elems[a])) /\ text' = text
  <2>1. elems[a] \in Seq(Values) /\ elems[a] # <<>> /\ held \in [Objs -> Nat]
    BY DEF TypeOK, zynkArrayPop
  <2>2. Last(elems[a]) \in ToSet(elems[a])
    <3>1. Len(elems[a]) \in Nat \ {0} /\ Last(elems[a]) = elems[a][Len(elems[a])]
      BY <2>1, FrontAndLast
    <3>2. DOMAIN elems[a] = 1 .. Len(elems[a])
      BY <2>1
    <3>3. Len(elems[a]) \in DOMAIN elems[a]
      BY <3>1, <3>2
    <3>4. QED
      BY <3>1, <3>3 DEF ToSet
  <2>3. ToSet(Front(elems[a])) \subseteq ToSet(elems[a])
    <3>1. /\ Front(elems[a]) \in Seq(Values) /\ Len(Front(elems[a])) = Len(elems[a]) - 1
          /\ \A i \in 1 .. Len(elems[a]) - 1 : Front(elems[a])[i] = elems[a][i]
      BY <2>1, FrontAndLast
    <3>2. ASSUME NEW i \in DOMAIN Front(elems[a])
          PROVE  Front(elems[a])[i] \in ToSet(elems[a])
      <4>1. i \in 1 .. Len(elems[a]) - 1 /\ i \in DOMAIN elems[a]
        BY <2>1, <3>1
      <4>2. QED
        BY <3>1, <4>1 DEF ToSet
    <3>3. QED
      BY <3>2 DEF ToSet
  <2>4. ASSUME NEW s \in Strings, Referred(s)'
        PROVE  Referred(s)
    <3>1. CASE held'[s] > 0
      <4>1. held[s] > 0 \/ s = Last(elems[a])
        BY <1>2, <2>1, <3>1, KindsOfValues DEF Own
      <4>2. QED
        BY <2>2, <4>1 DEF Referred
    <3>2. CASE \E b \in Arrays : s \in ToSet(elems'[b])
      BY <1>2, <2>3, <3>2 DEF Referred, TypeOK
    <3>3. QED
      BY <2>4, <3>1, <3>2 DEF Referred
  <2>5. QED
    BY <1>2, <2>4 DEF NothingNew
<1>3. QED
  BY <1>1, <1>2 DEF zynkArrayPop

LEMMA CreateArrayNothingNew ==
  ASSUME TypeOK, NEW o \in Arrays, NEW n, zynkCreateArray(o, n)
  PROVE  NothingNew
<1>1. elems' = [elems EXCEPT ![o] = <<>>] /\ text' = text
  BY DEF zynkCreateArray
<1>2. \A s \in Strings : held'[s] = held[s]
  BY KindsAssumption, KindsOfValues DEF zynkCreateArray, Create, Own, TypeOK
<1>3. QED
  BY <1>1, <1>2, ChangedElements, KindsOfValues DEF NothingNew, Referred

LEMMA ReferenceNothingNew ==
  ASSUME TypeOK, NEW o \in Objs, Retain(o) \/ Release(o)
  PROVE  NothingNew
<1>1. elems' = elems /\ text' = text
  BY DEF Retain, Release, contents
<1>2. ASSUME NEW s \in Strings, held'[s] > 0
      PROVE  Referred(s)
  <2>1. s \in Objs /\ held[s] \in Nat
    BY KindsOfValues DEF TypeOK
  <2>2. CASE Retain(o)
    <3>1. held[s] > 0 \/ s = o
      BY <1>2, <2>1, <2>2 DEF Retain, Own, TypeOK
    <3>2. QED
      BY <2>2, <3>1, UsableIsReferred DEF Retain, Referred
  <2>3. CASE Release(o)
    BY <1>2, <2>1, <2>3 DEF Release, TypeOK, Referred
  <2>4. QED
    BY <2>2, <2>3
<1>3. QED
  BY <1>1, <1>2 DEF NothingNew, Referred

(* A new string has the bytes of its text; a failed creation changes none.   *)
LEMMA CreatedText ==
  ASSUME TypeOK, TextTyped, NEW o \in Strings, NEW str \in Seq(Chars),
         zynkCreateString(o, str)
  PROVE  /\ TextTyped' /\ (Terminated => Terminated')
         /\ \A s \in Strings : s # o => text'[s] = text[s]
<1>1. Append(str, End) \in Seq(Bytes) /\ Append(str, End) # <<>>
  BY DEF Bytes
<1>2. text' = text \/ text' = [text EXCEPT ![o] = Append(str, End)]
  BY DEF zynkCreateString
<1>3. TextTyped'
  BY <1>1, <1>2 DEF TextTyped
<1>4. \A s \in Strings : s # o => text'[s] = text[s]
  BY <1>2 DEF TextTyped
<1>5. \A s \in Strings : Referred(s)' => Referred(s) \/ (s = o /\ text'[o] = Append(str, End))
  <2>1. elems' = elems /\ held \in [Objs -> Nat] /\ o \in Objs /\ Strings \subseteq Objs
    BY KindsOfValues DEF zynkCreateString, arrays, TypeOK
  <2>2. Cardinality(PartsOf(o)) = Cardinality(Parts)
    BY KindsAssumption DEF PartsOf
  <2>3. CASE room >= Cardinality(Parts)
    <3>1. ~ (room < Cardinality(Parts))
      <4>1. Cardinality(Parts) \in Nat
        BY <2>2, PartsOfSubset
      <4>2. room \in Int
        BY BoundsAssumption DEF TypeOK
      <4>3. QED
        BY <2>3, <4>1, <4>2
    <3>2. text'[o] = Append(str, End) /\ held' = [held EXCEPT ![o] = @ + 1]
      BY <2>1, <2>2, <2>3, <3>1 DEF zynkCreateString, Create, Own, TextTyped
    <3>3. QED
      BY <2>1, <3>2 DEF Referred
  <2>4. CASE ~ (room >= Cardinality(Parts))
    <3>1. held' = held
      BY <2>2, <2>4 DEF zynkCreateString, Create
    <3>2. QED
      BY <2>1, <3>1 DEF Referred
  <2>5. QED
    BY <2>3, <2>4
<1>6. \A s \in Strings : text[s] # <<>> => text'[s] # <<>>
  BY <1>1, <1>2 DEF TextTyped
<1>7. QED
  BY <1>1, <1>3, <1>4, <1>5, <1>6 DEF Terminated

-----------------------------------------------------------------------------
(* The steps of the heap: what clients and calls do to it                    *)

(* An element is set by a client, or by a call whose array of arguments is   *)
(* another array and keeps the new element in memory.                        *)
Passes(b, a, v) ==
  /\ b # a /\ held[b] > 0 /\ data[b] /\ a \in ToSet(elems[b])
  /\ v = Null \/ v \in ToSet(elems[b])

Stores(a, index, v) ==
  /\ SetElement(a, index, v)
  /\ \/ Live(a) /\ Usable(a) /\ Usable(v) /\ (EndsNew(a, index, v) => SelfAssign)
     \/ \E b \in Arrays : Passes(b, a, v)

(* set_index writes at most the terminator of a string.                      *)
TerminatorSet ==
  /\ \E s \in Strings, c \in Bytes :
       text[s] # <<>> /\ text' = [text EXCEPT ![s][Len(text[s])] = c]
  /\ UNCHANGED <<heap, arrays, room, crashed, held>>

HeapStep ==
  \/ \E o \in Strings, str \in Seq(Chars) : zynkCreateString(o, str)
  \/ \E o \in Arrays, n \in Requests : zynkCreateArray(o, n)
  \/ \E o \in Arrays \union Strings : Retain(o) \/ Release(o)
  \/ \E a \in Arrays, v \in Values : zynkArrayPush(a, v)
  \/ \E a \in Arrays, index \in Nat, v \in Values : Stores(a, index, v)
  \/ \E a \in Arrays : zynkArrayPop(a)
  \/ TerminatorSet
  \/ Crash
  \/ UNCHANGED state

LEMMA ArgIsElement ==
  ASSUME TypeOK, NEW a \in Arrays, NEW i \in Nat \ {0}
  PROVE  /\ Arg(a, i) = Null \/ Arg(a, i) \in ToSet(elems[a])
         /\ Arg(a, i) \in Values
<1>1. elems[a] \in Seq(Values)
  BY DEF TypeOK
<1>2. CASE i <= Len(elems[a])
  <2>1. i \in DOMAIN elems[a]
    BY <1>1, <1>2
  <2>2. QED
    BY <1>1, <1>2, <2>1 DEF Arg, ToSet
<1>3. CASE ~ (i <= Len(elems[a]))
  BY <1>3 DEF Arg, Values
<1>4. QED
  BY <1>2, <1>3

LEMMA NullIsNoObject == Null \notin Objs /\ Null \notin Numbers /\ Objs \intersect Numbers = {}
BY KindsAssumption DEF Objs

LEMMA AsIndexIsNumber ==
  ASSUME NEW v
  PROVE  AsIndex(v) \subseteq Nat
BY WordAssumption DEF AsIndex

(* The byte get_index reads is the terminator, or lies behind it.            *)
LEMMA ByteAtIsByte ==
  ASSUME TextTyped, NEW s \in Strings, NEW index \in Nat, AcceptsIndex(s, index)
  PROVE  ByteAt(s, index) \subseteq Bytes
<1>1. text[s] \in Seq(Bytes)
  BY DEF TextTyped
<1>2. CASE index <= len_of(s)
  <2>1. index + 1 \in DOMAIN text[s]
    BY <1>1, <1>2 DEF len_of
  <2>2. QED
    BY <1>1, <1>2, <2>1 DEF ByteAt
<1>3. CASE ~ (index <= len_of(s))
  BY <1>3 DEF ByteAt, Bytes
<1>4. QED
  BY <1>2, <1>3

LEMMA TextOfIsText ==
  ASSUME NEW c \in Bytes
  PROVE  TextOf(c) \in Seq(Chars)
BY DEF TextOf, Bytes

LEMMA SetByteIsStep ==
  ASSUME TypeOK, TextTyped, Terminated, NEW s \in Strings, NEW index \in Nat,
         AcceptsIndex(s, index), NEW new, new \in Strings => Referred(new),
         SetByte(s, index, new)
  PROVE  HeapStep
<1>1. text[s] \in Seq(Bytes)
  BY DEF TextTyped
<1>2. CASE Crash
  BY <1>2 DEF HeapStep
<1>3. CASE new \notin Strings /\ text' = text /\ UNCHANGED <<heap, arrays, room, crashed, held>>
  <2>1. UNCHANGED state
    BY <1>3 DEF heap, arrays, state
  <2>2. QED
    BY <2>1 DEF HeapStep
<1>4. CASE /\ new \in Strings /\ ~ (index > len_of(s))
           /\ text' = [text EXCEPT ![s][index + 1] = Head(text[new])]
           /\ UNCHANGED <<heap, arrays, room, crashed, held>>
  <2>1. text[new] \in Seq(Bytes) /\ text[new] # <<>>
    BY <1>4 DEF Terminated, TextTyped
  <2>2. Head(text[new]) \in Bytes
    BY <2>1
  <2>3. index + 1 = Len(text[s]) /\ text[s] # <<>>
    <3>1. Len(text[s]) \in Nat /\ (text[s] = <<>> => Len(text[s]) = 0)
      BY <1>1
    <3>2. index + 1 = Len(text[s])
      BY <1>4, <3>1 DEF AcceptsIndex, len_of
    <3>3. QED
      BY <3>1, <3>2
  <2>4. text' = [text EXCEPT ![s][Len(text[s])] = Head(text[new])]
    BY <1>4, <2>3
  <2>5. TerminatorSet
    BY <1>4, <2>2, <2>3, <2>4 DEF TerminatorSet
  <2>6. QED
    BY <2>5 DEF HeapStep
<1>5. QED
  BY <1>2, <1>3, <1>4 DEF SetByte, WriteByte

LEMMA CallIsStep ==
  ASSUME TypeOK, TextTyped, Terminated, NEW f, NEW a \in Arrays, zynkCallFunction(f, a)
  PROVE  HeapStep
<1> DEFINE obj == Arg(a, 1)
           new == Arg(a, 3)
<1>1. /\ obj = Null \/ obj \in ToSet(elems[a])
      /\ new = Null \/ new \in ToSet(elems[a])
      /\ new \in Values /\ Arg(a, 2) \in Values
  BY ArgIsElement
<1>2. held[a] > 0 /\ a \notin ToSet(elems[a])
  BY DEF zynkCallFunction
<1>3. new \in Strings => Referred(new)
  BY <1>1, NullIsNoObject, KindsOfValues DEF Referred
<1> HIDE DEF obj, new
<1>4. CASE libzynk_push(a)
  BY <1>1, <1>4 DEF libzynk_push, HeapStep, obj
<1>5. CASE libzynk_pop(a)
  BY <1>5 DEF libzynk_pop, HeapStep, obj
<1>6. CASE libzynk_get_index(a)
  <2>1. CASE obj \in Strings
    <3>1. PICK index \in AsIndex(Arg(a, 2)) :
             IF AcceptsIndex(obj, index)
             THEN \E c \in ByteAt(obj, index), o \in Strings :
                    zynkCreateString(o, TextOf(c))
             ELSE UNCHANGED state
      BY <1>6, <2>1 DEF libzynk_get_index, obj
    <3>2. CASE UNCHANGED state
      BY <3>2 DEF HeapStep
    <3>3. ASSUME AcceptsIndex(obj, index), NEW c \in ByteAt(obj, index),
                 NEW o \in Strings, zynkCreateString(o, TextOf(c))
          PROVE  HeapStep
      <4>1. TextOf(c) \in Seq(Chars)
        BY <2>1, <3>1, <3>3, AsIndexIsNumber, ByteAtIsByte, TextOfIsText
      <4>2. QED
        BY <3>3, <4>1 DEF HeapStep
    <3>4. QED
      BY <3>1, <3>2, <3>3
  <2>2. CASE obj \in Arrays /\ zynkArrayGet(obj)
    BY <2>2 DEF zynkArrayGet, HeapStep
  <2>3. CASE UNCHANGED state
    BY <2>3 DEF HeapStep
  <2>4. QED
    BY <1>6, <2>1, <2>2, <2>3 DEF libzynk_get_index, obj
<1>7. CASE data[a] /\ libzynk_set_index(a)
  <2>1. CASE obj \in Strings
    <3>1. PICK index \in AsIndex(Arg(a, 2)) :
             IF AcceptsIndex(obj, index) THEN SetByte(obj, index, new) ELSE UNCHANGED state
      BY <1>7, <2>1 DEF libzynk_set_index, obj, new
    <3>2. CASE UNCHANGED state
      BY <3>2 DEF HeapStep
    <3>3. CASE AcceptsIndex(obj, index) /\ SetByte(obj, index, new)
      BY <1>3, <2>1, <3>1, <3>3, AsIndexIsNumber, SetByteIsStep
    <3>4. QED
      BY <3>1, <3>2, <3>3
  <2>2. CASE obj \in Arrays /\ Arg(a, 2) \in Numbers /\ SetElement(obj, Arg(a, 2), new)
    <3>1. Arg(a, 2) \in Nat
      <4>1. \A v \in Numbers : v \in Nat
        BY WordAssumption
      <4>2. QED
        BY <2>2, <4>1
    <3>2. obj # Null
      BY <2>2, NullIsNoObject, KindsOfValues
    <3>3. Passes(a, obj, new)
      BY <1>1, <1>2, <1>7, <3>2 DEF Passes
    <3>4. Stores(obj, Arg(a, 2), new)
      BY <2>2, <3>3 DEF Stores
    <3>5. QED
      BY <1>1, <2>2, <3>1, <3>4 DEF HeapStep
  <2>3. CASE UNCHANGED state
    BY <2>3 DEF HeapStep
  <2>4. QED
    BY <1>7, <2>1, <2>2, <2>3 DEF libzynk_set_index, obj, new
<1>8. CASE Crash \/ UNCHANGED state
  BY <1>8 DEF HeapStep
<1>9. QED
  BY <1>4, <1>5, <1>6, <1>7, <1>8 DEF zynkCallFunction

LEMMA ClientIsStep ==
  ASSUME TypeOK, Client
  PROVE  HeapStep
<1>1. Texts \subseteq Seq(Chars)
  BY TextsAssumption
<1>2. CASE \E o \in Strings, str \in Texts : zynkCreateString(o, str)
  BY <1>1, <1>2 DEF HeapStep
<1>3. CASE \E o \in Arrays, n \in Requests : zynkCreateArray(o, n)
  BY <1>3 DEF HeapStep
<1>4. CASE \E o \in Arrays \union Strings : Retain(o) \/ Release(o)
  BY <1>4 DEF HeapStep
<1>5. ASSUME NEW a \in Arrays, NEW v \in Values, PassArgument(a, v)
      PROVE  HeapStep
  <2>1. CASE zynkArrayPush(a, v)
    BY <2>1 DEF HeapStep
  <2>2. ASSUME NEW i \in DOMAIN elems[a], zynkArraySet(a, i - 1, v)
        PROVE  HeapStep
    <3>1. elems[a] \in Seq(Values)
      BY DEF TypeOK
    <3>2. i - 1 \in Nat
      BY <3>1
    <3>3. Stores(a, i - 1, v)
      BY <2>2 DEF zynkArraySet, Stores
    <3>4. QED
      BY <3>2, <3>3 DEF HeapStep
  <2>3. QED
    BY <1>5, <2>1, <2>2 DEF PassArgument
<1>6. QED
  BY <1>2, <1>3, <1>4, <1>5 DEF Client

(* A step installs the functions or does to the heap what HeapStep says.     *)
LEMMA StepsAre ==
  ASSUME NativesTypeOK, Terminated, [NativesNext]_vars
  PROVE  \/ \E slots \in FreeSlots : init_native_funcs(slots)
         \/ HeapStep /\ UNCHANGED natives /\ (started \/ installed # {} \/ UNCHANGED vars)
<1>1. TypeOK /\ TextTyped
  BY DEF NativesTypeOK, TextTyped, Bytes
<1>2. CASE started /\ Client /\ UNCHANGED natives
  BY <1>1, <1>2, ClientIsStep
<1>3. ASSUME NEW f \in Natives, NEW a \in Arrays, zynkCallFunction(f, a)
      PROVE  HeapStep /\ UNCHANGED natives /\ installed # {}
  BY <1>1, <1>3, CallIsStep DEF zynkCallFunction
<1>4. CASE UNCHANGED vars
  BY <1>4 DEF vars, natives, HeapStep
<1>5. QED
  BY <1>2, <1>3, <1>4 DEF NativesNext

-----------------------------------------------------------------------------
(* Types *)

LEMMA StepKeepsHeapTypes ==
  ASSUME TypeOK, HeapStep
  PROVE  TypeOK'
<1>1. ASSUME NEW o \in Strings, NEW str, zynkCreateString(o, str)
      PROVE  TypeOK'
  BY <1>1, CreateStringKeepsTypes, KindsOfValues
<1>2. ASSUME NEW o \in Arrays, NEW n \in Requests, zynkCreateArray(o, n)
      PROVE  TypeOK'
  BY <1>2, CreateArrayKeepsTypes, KindsOfValues
<1>3. ASSUME NEW o \in Arrays \union Strings, Retain(o) \/ Release(o)
      PROVE  TypeOK'
  <2>1. o \in Objs
    BY KindsOfValues
  <2>2. QED
    BY <1>3, <2>1, RetainKeepsTypes, ReleaseKeepsTypes
<1>4. ASSUME NEW a \in Arrays, NEW v \in Values, zynkArrayPush(a, v)
      PROVE  TypeOK'
  BY <1>4, PushKeepsTypes
<1>5. ASSUME NEW a \in Arrays, NEW index \in Nat, NEW v \in Values, Stores(a, index, v)
      PROVE  TypeOK'
  BY <1>5, SetElementKeepsTypes DEF Stores
<1>6. ASSUME NEW a \in Arrays, zynkArrayPop(a)
      PROVE  TypeOK'
  BY <1>6, PopKeepsTypes
<1>7. CASE TerminatorSet
  BY <1>7 DEF TerminatorSet, TypeOK, heap, arrays
<1>8. CASE Crash
  BY <1>8, CrashKeepsTypes
<1>9. CASE UNCHANGED state
  BY <1>9 DEF TypeOK, state
<1>10. QED
  BY <1>1, <1>2, <1>3, <1>4, <1>5, <1>6, <1>7, <1>8, <1>9 DEF HeapStep

LEMMA StoredIsReferred ==
  ASSUME NEW a \in Arrays, NEW index \in Nat, NEW v \in Strings, Stores(a, index, v)
  PROVE  Referred(v)
<1>1. v # Null
  BY NullIsNoObject, KindsOfValues
<1>2. QED
  BY <1>1, UsableIsReferred DEF Stores, Passes, Referred

LEMMA StepKeepsTexts ==
  ASSUME TypeOK, TextTyped, Terminated, HeapStep
  PROVE  TextTyped' /\ Terminated'
<1>1. ASSUME NEW o \in Strings, NEW str \in Seq(Chars), zynkCreateString(o, str)
      PROVE  TextTyped' /\ Terminated'
  BY <1>1, CreatedText
<1>2. ASSUME NothingNew
      PROVE  TextTyped' /\ Terminated'
  BY <1>2 DEF NothingNew, TextTyped, Terminated
<1>3. ASSUME NEW a \in Arrays, NEW index \in Nat, NEW v \in Values, Stores(a, index, v)
      PROVE  NothingNew
  BY <1>3, StoredIsReferred, SetNothingNew DEF Stores
<1>4. ASSUME NEW o \in Arrays \union Strings, Retain(o) \/ Release(o)
      PROVE  NothingNew
  <2>1. o \in Objs
    BY KindsOfValues
  <2>2. QED
    BY <1>4, <2>1, ReferenceNothingNew
<1>5. CASE TerminatorSet
  <2>1. PICK s \in Strings, c \in Bytes :
           text[s] # <<>> /\ text' = [text EXCEPT ![s][Len(text[s])] = c]
    BY <1>5 DEF TerminatorSet
  <2>2. \A t \in Strings : text[t] \in Seq(Bytes) /\ text'[t] \in Seq(Bytes)
                           /\ Len(text'[t]) = Len(text[t])
    BY <2>1 DEF TextTyped
  <2>3. TextTyped'
    BY <2>1, <2>2 DEF TextTyped
  <2>4. \A t \in Strings : text[t] # <<>> => text'[t] # <<>>
    BY <2>2
  <2>5. \A t \in Strings : Referred(t)' => Referred(t)
    BY <1>5 DEF TerminatorSet, arrays, Referred
  <2>6. QED
    BY <2>3, <2>4, <2>5 DEF Terminated
<1>6. CASE Crash \/ UNCHANGED state
  <2>1. UNCHANGED <<elems, text, held>>
    BY <1>6 DEF Crash, contents, state
  <2>2. QED
    BY <1>2, <2>1 DEF NothingNew, Referred
<1>7. QED
  BY <1>1, <1>2, <1>3, <1>4, <1>5, <1>6, CreateArrayNothingNew, PushNothingNew,
     PopNothingNew DEF HeapStep

-----------------------------------------------------------------------------
(* init_native_funcs *)

(* The heap while functions are installed: only they are counted, each at    *)
(* most twice, and those found under their names twice.                      *)
Installing(w) ==
  /\ w \in [room : 0 .. Room, slots : Nat, rc : [Objs -> 0 .. 2],
            blocks : [Objs -> SUBSET Parts], named : SUBSET Natives]
  /\ \A o \in Objs : IF w.rc[o] > 0 THEN o \in Natives /\ "object" \in w.blocks[o]
                     ELSE w.blocks[o] = {}
  /\ \A f \in w.named : w.rc[f] = 2

(* The functions are five.                                                   *)
LEMMA FunctionsDiffer ==
  /\ push \notin {len} /\ pop \notin {len, push} /\ get_index \notin {len, push, pop}
  /\ set_index \notin {len, push, pop, get_index}
<1> DEFINE One == {len}
           Two == One \union {push}
           Three == Two \union {pop}
           Four == Three \union {get_index}
           Five == Four \union {set_index}
<1>1. Five = Functions
  BY DEF Functions
<1>2. IsFiniteSet(One) /\ Cardinality(One) = 1
  BY FS_Singleton
<1> HIDE DEF One
<1>3. /\ IsFiniteSet(Two) /\ Cardinality(Two) \in Nat
      /\ Cardinality(Two) = IF push \in One THEN Cardinality(One) ELSE Cardinality(One) + 1
  BY <1>2, FS_AddElement, FS_CardinalityType
<1> HIDE DEF Two
<1>4. /\ IsFiniteSet(Three) /\ Cardinality(Three) \in Nat
      /\ Cardinality(Three) = IF pop \in Two THEN Cardinality(Two) ELSE Cardinality(Two) + 1
  BY <1>3, FS_AddElement, FS_CardinalityType
<1> HIDE DEF Three
<1>5. /\ IsFiniteSet(Four) /\ Cardinality(Four) \in Nat
      /\ Cardinality(Four) = IF get_index \in Three THEN Cardinality(Three)
                             ELSE Cardinality(Three) + 1
  BY <1>4, FS_AddElement, FS_CardinalityType
<1> HIDE DEF Four
<1>6. Cardinality(Five) = IF set_index \in Four THEN Cardinality(Four)
                          ELSE Cardinality(Four) + 1
  BY <1>5, FS_AddElement
<1> HIDE DEF Five
<1>7. Cardinality(Five) = 5
  BY <1>1, FunctionsAssumption
<1>8. push \notin One /\ pop \notin Two /\ get_index \notin Three /\ set_index \notin Four
  BY <1>2, <1>3, <1>4, <1>5, <1>6, <1>7
<1>9. QED
  BY <1>8 DEF One, Two, Three, Four

LEMMA MadeKeeps ==
  ASSUME NEW w, Installing(w), NEW f \in Natives \ w.named, NEW n \in Nat, n <= w.room,
         NEW named, named = w.named \/ (named = w.named \union {f} /\ w.slots > 0)
  PROVE  Installing(Made(w, f, n, named)) /\ Made(w, f, n, named).named = named
<1> DEFINE x == Made(w, f, n, named)
<1>1. /\ x = [room |-> w.room - n, slots |-> SlotsLeft(w), rc |-> x.rc, blocks |-> x.blocks,
              named |-> named]
      /\ x.rc = [w.rc EXCEPT ![f] = FirstCount(w)]
      /\ x.blocks = [w.blocks EXCEPT ![f] = PartsOf(f)]
  BY DEF Made
<1>2. f \in Objs /\ PartsOf(f) = {"object", "body"}
  BY KindsOfValues DEF PartsOf
<1>3. /\ FirstCount(w) \in 1 .. 2 /\ (w.slots > 0 => FirstCount(w) = 2)
      /\ SlotsLeft(w) \in Nat
  BY DEF FirstCount, SlotsLeft, Installing
<1> HIDE DEF x
<1>4. x.rc \in [Objs -> 0 .. 2] /\ x.blocks \in [Objs -> SUBSET Parts]
  BY <1>1, <1>2, <1>3 DEF Installing, Parts
<1>5. named \in SUBSET Natives
  BY DEF Installing
<1>6. x \in [room : 0 .. Room, slots : Nat, rc : [Objs -> 0 .. 2],
            blocks : [Objs -> SUBSET Parts], named : SUBSET Natives]
  <2>1. Room \in Nat /\ w.room \in 0 .. Room
    BY BoundsAssumption DEF Installing
  <2>2. w.room - n \in 0 .. Room
    BY <2>1
  <2>3. QED
    BY <1>1, <1>3, <1>4, <1>5, <2>2
<1>7. ASSUME NEW o \in Objs
      PROVE  IF x.rc[o] > 0 THEN o \in Natives /\ "object" \in x.blocks[o]
             ELSE x.blocks[o] = {}
  <2>1. CASE o = f
    <3>1. x.rc[o] = FirstCount(w) /\ x.blocks[o] = {"object", "body"}
      BY <1>1, <1>2, <2>1 DEF Installing
    <3>2. QED
      BY <1>3, <2>1, <3>1
  <2>2. CASE o # f
    <3>1. x.rc[o] = w.rc[o] /\ x.blocks[o] = w.blocks[o]
      BY <1>1, <2>2 DEF Installing
    <3>2. QED
      BY <3>1 DEF Installing
  <2>3. QED
    BY <2>1, <2>2
<1>8. ASSUME NEW g \in named
      PROVE  x.rc[g] = 2
  <2>1. CASE g = f
    BY <1>1, <1>2, <1>3, <1>8, <2>1 DEF Installing
  <2>2. CASE g # f
    <3>1. g \in w.named /\ g \in Objs
      BY <1>8, <2>2, KindsOfValues DEF Installing
    <3>2. QED
      BY <1>1, <2>2, <3>1 DEF Installing
  <2>3. QED
    BY <2>1, <2>2
<1>9. x.named = named
  BY <1>1
<1>10. QED
  <2>1. Installing(x)
    BY <1>6, <1>7, <1>8, <1>9 DEF Installing
  <2>2. QED
    BY <1>9, <2>1 DEF x

LEMMA NotMadeKeeps ==
  ASSUME NEW w, Installing(w)
  PROVE  Installing(NotMade(w)) /\ NotMade(w).named = w.named
<1>1. Room \in Nat /\ w.slots \in Nat /\ SlotsLeft(w) \in Nat
  BY BoundsAssumption DEF Installing, SlotsLeft
<1>2. w \in [room : 0 .. Room, slots : Nat, rc : [Objs -> 0 .. 2],
            blocks : [Objs -> SUBSET Parts], named : SUBSET Natives]
  BY DEF Installing
<1> DEFINE S == SlotsLeft(w)
           C == w.rc
           K == w.blocks
           N == w.named
<1>3. NotMade(w) = [room |-> 0, slots |-> S, rc |-> C, blocks |-> K, named |-> N]
  BY <1>2 DEF NotMade
<1>4. /\ S \in Nat /\ C \in [Objs -> 0 .. 2] /\ K \in [Objs -> SUBSET Parts]
      /\ N \in SUBSET Natives
  BY <1>1, <1>2
<1> HIDE DEF S, C, K, N
<1>5. /\ NotMade(w) \in [room : 0 .. Room, slots : Nat, rc : [Objs -> 0 .. 2],
                         blocks : [Objs -> SUBSET Parts], named : SUBSET Natives]
      /\ NotMade(w).rc = C /\ NotMade(w).blocks = K /\ NotMade(w).named = N
  BY <1>1, <1>3, <1>4
<1>6. QED
  BY <1>5 DEF Installing, C, K, N

LEMMA InstallKeeps ==
  ASSUME NEW w, Installing(w), NEW f \in Natives \ w.named
  PROVE  /\ Installing(Install(w, f))
         /\ Install(w, f).named \subseteq w.named \union {f}
<1>1. w.room \in Nat
  BY BoundsAssumption DEF Installing
<1>2. CASE Install(w, f) = Made(w, f, 3, w.named \union {f}) /\ w.room >= 3 /\ w.slots > 0
  BY <1>1, <1>2, MadeKeeps
<1>3. CASE Install(w, f) = Made(w, f, 2, w.named) /\ w.room >= 2
  BY <1>1, <1>3, MadeKeeps
<1>4. CASE Install(w, f) = NotMade(w)
  BY <1>4, NotMadeKeeps
<1> DEFINE I == Install(w, f)
           A == Made(w, f, 3, w.named \union {f})
           B == Made(w, f, 2, w.named)
           D == NotMade(w)
           p == w.room >= 3 /\ w.slots > 0
           q == w.room >= 2
<1>5. I = IF p THEN A ELSE IF q THEN B ELSE D
  BY Zenon DEF Install
<1> HIDE DEF I, A, B, D, p, q
<1>6. (I = A /\ p) \/ (I = B /\ q) \/ I = D
  BY Zenon, <1>5
<1>7. QED
  BY <1>2, <1>3, <1>4, <1>6 DEF I, A, B, D, p, q

(* The five functions are counted as the runtime holds them, and nothing     *)
(* else comes into memory.                                                   *)
LEMMA AllInstalled ==
  ASSUME Init, NEW slots \in FreeSlots, init_native_funcs(slots)
  PROVE  \E w : /\ Installing(w) /\ room' = w.room /\ rc' = w.rc /\ blocks' = w.blocks
                /\ installed' = w.named
                /\ held' = [o \in Objs |-> IF o \in Natives THEN w.rc[o] ELSE held[o]]
<1> DEFINE w0 == [room |-> room, slots |-> slots, rc |-> rc, blocks |-> blocks,
                  named |-> {}]
           w1 == Install(w0, len)
           w2 == Install(w1, push)
           w3 == Install(w2, pop)
           w4 == Install(w3, get_index)
           w5 == Install(w4, set_index)
<1>1. /\ room' = w5.room /\ rc' = w5.rc /\ blocks' = w5.blocks /\ installed' = w5.named
      /\ held' = [o \in Objs |-> IF o \in Natives THEN w5.rc[o] ELSE held[o]]
  BY DEF init_native_funcs
<1>2. {len, push, pop, get_index, set_index} = Natives
  BY FunctionsAssumption DEF Functions
<1>3. Installing(w0) /\ w0.named = {}
  <2>1. slots \in Nat /\ room \in 0 .. Room /\ rc \in [Objs -> 0 .. 2]
        /\ blocks \in [Objs -> SUBSET Parts]
        /\ \A o \in Objs : rc[o] = 0 /\ blocks[o] = {}
    BY TextsAssumption DEF Init
  <2>2. QED
    BY <2>1 DEF Installing
<1> HIDE DEF w0
<1>4. Installing(w1) /\ w1.named \subseteq {len}
  BY <1>2, <1>3, InstallKeeps
<1> HIDE DEF w1
<1>5. Installing(w2) /\ w2.named \subseteq {len, push}
  BY <1>2, <1>4, InstallKeeps, FunctionsDiffer
<1> HIDE DEF w2
<1>6. Installing(w3) /\ w3.named \subseteq {len, push, pop}
  BY <1>2, <1>5, InstallKeeps, FunctionsDiffer
<1> HIDE DEF w3
<1>7. Installing(w4) /\ w4.named \subseteq {len, push, pop, get_index}
  BY <1>2, <1>6, InstallKeeps, FunctionsDiffer
<1> HIDE DEF w4
<1>8. Installing(w5)
  BY <1>2, <1>7, InstallKeeps, FunctionsDiffer
<1> HIDE DEF w5
<1>9. QED
  BY <1>1, <1>8

-----------------------------------------------------------------------------
(* Types and texts in every state *)

TInv == NativesTypeOK /\ Terminated /\ Fresh

LEMMA InstallKeepsTypes ==
  ASSUME TInv, NEW slots \in FreeSlots, init_native_funcs(slots)
  PROVE  TInv'
<1>1. Init /\ TypeOK /\ TextTyped
  BY DEF TInv, Fresh, init_native_funcs, NativesTypeOK, TextTyped, Bytes
<1>2. PICK w : /\ Installing(w) /\ room' = w.room /\ rc' = w.rc /\ blocks' = w.blocks
               /\ installed' = w.named
               /\ held' = [o \in Objs |-> IF o \in Natives THEN w.rc[o] ELSE held[o]]
  BY <1>1, AllInstalled
<1>3. started' = TRUE /\ UNCHANGED <<freed, elems, capacity, data, text, crashed>>
  BY DEF init_native_funcs, contents
<1>4. /\ rc' \in [Objs -> 0 .. 2] /\ blocks' \in [Objs -> SUBSET Parts]
      /\ room' \in 0 .. Room /\ installed' \in SUBSET Natives
  BY <1>2 DEF Installing
<1>5. rc' \in [Objs -> 0 .. Word - 1]
  BY <1>4, CountAssumption, WordAssumption
<1>6. held' \in [Objs -> Nat]
  <2> DEFINE counts == w.rc
  <2>1. counts \in [Objs -> 0 .. 2]
    BY <1>2 DEF Installing
  <2>2. held' = [o \in Objs |-> IF o \in Natives THEN counts[o] ELSE held[o]]
    BY <1>2
  <2>3. held \in [Objs -> Nat]
    BY <1>1 DEF TypeOK
  <2> HIDE DEF counts
  <2>4. \A o \in Objs : counts[o] \in Nat /\ held[o] \in Nat
    BY <2>1, <2>3
  <2>5. QED
    BY <2>2, <2>4
<1>7. TypeOK'
  BY <1>1, <1>3, <1>4, <1>5, <1>6 DEF TypeOK
<1>8. \A s \in Strings : held'[s] = held[s]
  <2>1. \A s \in Strings : s \notin Natives /\ s \in Objs
    BY KindsAssumption, KindsOfValues
  <2>2. QED
    BY <1>2, <2>1
<1>9. Terminated'
  BY <1>3, <1>8 DEF TInv, Terminated, Referred
<1>10. QED
  BY <1>1, <1>3, <1>4, <1>7, <1>9 DEF TInv, NativesTypeOK, TextTyped, Bytes, Fresh

LEMMA NativesInitTyped == NativesInit => TInv
<1> SUFFICES ASSUME NativesInit
             PROVE  TInv
  OBVIOUS
<1>1. Init /\ installed = {} /\ started = FALSE
  BY DEF NativesInit
<1>2. TypeOK
  BY <1>1, InitTyped
<1>3. text \in [Strings -> Seq(Bytes)]
  BY <1>1 DEF Init
<1>4. \A s \in Strings : ~ Referred(s)
  BY <1>1, KindsOfValues DEF Init, Referred, ToSet
<1>5. QED
  BY <1>1, <1>2, <1>3, <1>4 DEF TInv, NativesTypeOK, Terminated, Fresh, Bytes

LEMMA NativesStepTyped == TInv /\ [NativesNext]_vars => TInv'
<1> SUFFICES ASSUME TInv, [NativesNext]_vars
             PROVE  TInv'
  OBVIOUS
<1>1. ASSUME NEW slots \in FreeSlots, init_native_funcs(slots)
      PROVE  TInv'
  BY <1>1, InstallKeepsTypes
<1>2. CASE HeapStep /\ UNCHANGED natives /\ (started \/ installed # {} \/ UNCHANGED vars)
  <2>1. TypeOK /\ TextTyped /\ Terminated
    BY DEF TInv, NativesTypeOK, TextTyped, Bytes
  <2>2. TypeOK' /\ TextTyped' /\ Terminated'
    BY <1>2, <2>1, StepKeepsHeapTypes, StepKeepsTexts
  <2>3. started' = started /\ installed' = installed
    BY <1>2 DEF natives
  <2>4. Fresh'
    <3>1. CASE started
      BY <2>3, <3>1 DEF Fresh
    <3>2. CASE installed # {}
      BY <2>3, <3>2 DEF TInv, Fresh
    <3>3. CASE UNCHANGED vars
      BY <3>3 DEF TInv, Fresh, vars, state, Init
    <3>4. QED
      BY <1>2, <3>1, <3>2, <3>3
  <2>5. QED
    BY <2>2, <2>3, <2>4 DEF TInv, NativesTypeOK, TextTyped, Bytes
<1>3. QED
  BY <1>1, <1>2, StepsAre DEF TInv

LEMMA TypesAndTexts == NativesSpec => []TInv
<1>1. NativesInit => TInv
  BY NativesInitTyped
<1>2. TInv /\ [NativesNext]_vars => TInv'
  BY NativesStepTyped
<1>3. QED
  BY <1>1, <1>2, PTL DEF NativesSpec

(* The variables keep their types while functions are installed and called,  *)
(* whatever the arguments: the text of a string stays a sequence of bytes,   *)
(* and no call makes an array longer than its capacity.                      *)
THEOREM NativesTypeCorrect == NativesSpec => []NativesTypeOK
<1>1. TInv => NativesTypeOK
  BY DEF TInv
<1>2. QED
  BY <1>1, TypesAndTexts, PTL
-----------------------------------------------------------------------------
(* Characters *)

(* Without its last byte a text is the same after that byte was written.     *)
LEMMA TerminatorKeepsFront ==
  ASSUME TextTyped, NEW s \in Strings, NEW c \in Bytes, text[s] # <<>>,
         text' = [text EXCEPT ![s][Len(text[s])] = c], NEW t \in Strings
  PROVE  Front(text'[t]) = Front(text[t])
<1>1. CASE t # s
  BY <1>1 DEF TextTyped
<1>2. CASE t = s
  <2> DEFINE x == text[s]
             y == text'[s]
             n == Len(x)
  <2>1. x \in Seq(Bytes) /\ x # <<>>
    BY DEF TextTyped
  <2>2. y = [x EXCEPT ![n] = c]
    BY DEF TextTyped
  <2> HIDE DEF x, y
  <2>3. n \in Nat \ {0} /\ DOMAIN x = 1 .. n
    BY <2>1
  <2>4. y \in Seq(Bytes) /\ Len(y) = n
    BY <2>1, <2>2, <2>3
  <2>5. y # <<>>
    BY <2>3, <2>4
  <2>6. /\ Front(x) \in Seq(Bytes) /\ Len(Front(x)) = n - 1
        /\ \A i \in 1 .. n - 1 : Front(x)[i] = x[i]
    BY <2>1, FrontAndLast
  <2>7. /\ Front(y) \in Seq(Bytes) /\ Len(Front(y)) = n - 1
        /\ \A i \in 1 .. n - 1 : Front(y)[i] = y[i]
    BY <2>4, <2>5, FrontAndLast
  <2>8. \A i \in 1 .. n - 1 : y[i] = x[i]
    BY <2>1, <2>2, <2>3
  <2>9. \A i \in 1 .. n - 1 : Front(y)[i] = Front(x)[i]
    BY <2>6, <2>7, <2>8
  <2> HIDE DEF n
  <2>10. Front(y) = Front(x)
    BY <2>3, <2>6, <2>7, <2>9
  <2>11. QED
    BY <1>2, <2>10 DEF x, y
<1>3. QED
  BY <1>1, <1>2

LEMMA StepKeepsCharacters ==
  ASSUME TypeOK, TextTyped, HeapStep, NEW s \in Strings, Live(s)
  PROVE  Front(text'[s]) = Front(text[s])
<1>1. ASSUME NEW o \in Strings, NEW str \in Seq(Chars), zynkCreateString(o, str)
      PROVE  text'[s] = text[s]
  <2>1. s # o
    BY <1>1 DEF zynkCreateString, Create
  <2>2. QED
    BY <1>1, <2>1, CreatedText
<1>2. ASSUME NEW a \in Arrays, NEW index \in Nat, NEW v \in Values, Stores(a, index, v)
      PROVE  text' = text
  BY <1>2 DEF Stores, SetElement, Crash, contents
<1>3. CASE TerminatorSet
  BY <1>3, TerminatorKeepsFront DEF TerminatorSet
<1>4. ASSUME NEW o \in Arrays \union Strings, Retain(o) \/ Release(o)
      PROVE  text' = text
  BY <1>4 DEF Retain, Release, contents
<1>5. CASE Crash \/ UNCHANGED state
  BY <1>5 DEF Crash, contents, state
<1>6. QED
  BY <1>1, <1>2, <1>3, <1>4, <1>5, CreateArrayNothingNew, PushNothingNew, PopNothingNew
     DEF HeapStep, NothingNew

(* The characters of a string, and their number, are the ones it was created *)
(* with, whatever native functions are called on it: the inverted test of    *)
(* get_index and set_index lets a call write to the terminator and never to  *)
(* a character, and push and pop of a string never get the memory they ask   *)
(* for.                                                                      *)
THEOREM CharactersKept == NativesSpec => CharactersFixed
<1> DEFINE Kept == \A s \in Strings :
                     Live(s) /\ Live(s)' => Front(text'[s]) = Front(text[s])
<1>1. TInv /\ [NativesNext]_vars => [Kept]_vars
  <2> SUFFICES ASSUME TInv, [NativesNext]_vars
               PROVE  Kept
    OBVIOUS
  <2>1. TypeOK /\ TextTyped
    BY DEF TInv, NativesTypeOK, TextTyped, Bytes
  <2>2. ASSUME NEW slots \in FreeSlots, init_native_funcs(slots)
        PROVE  Kept
    BY <2>2 DEF init_native_funcs, contents
  <2>3. CASE HeapStep
    BY <2>1, <2>3, StepKeepsCharacters
  <2>4. QED
    BY <2>2, <2>3, StepsAre DEF TInv
<1>2. QED
  BY <1>1, TypesAndTexts, PTL DEF NativesSpec, CharactersFixed
-----------------------------------------------------------------------------
(* Counts *)

(* Beyond MaxHeld nothing is held but the second reference of a function.    *)
HeldMost == MaxHeld + 1

(* Nobody gives back the references the runtime has to its functions.        *)
FunctionsOwned == \A f \in installed : held[f] >= 2

CInv == TInv /\ IInv(HeldMost) /\ FunctionsOwned

LEMMA HeldMostIsNat == HeldMost \in Nat /\ MaxHeld <= HeldMost /\ 2 <= HeldMost
BY BoundsAssumption DEF HeldMost

LEMMA InstallKeepsCounts ==
  ASSUME TInv, NEW slots \in FreeSlots, init_native_funcs(slots)
  PROVE  CInv'
<1>1. Init
  BY DEF TInv, Fresh, init_native_funcs
<1>2. PICK w : /\ Installing(w) /\ room' = w.room /\ rc' = w.rc /\ blocks' = w.blocks
               /\ installed' = w.named
               /\ held' = [o \in Objs |-> IF o \in Natives THEN w.rc[o] ELSE held[o]]
  BY <1>1, AllInstalled
<1>3. UNCHANGED <<freed, elems, capacity>>
  BY DEF init_native_funcs, contents
<1>4. TInv' /\ TypeOK'
  BY InstallKeepsTypes DEF TInv, NativesTypeOK
<1>5. /\ \A o \in Objs : IF rc'[o] > 0 THEN o \in Natives /\ "object" \in blocks'[o]
                         ELSE blocks'[o] = {}
      /\ \A o \in Objs : rc'[o] \in 0 .. 2
      /\ \A f \in installed' : rc'[f] = 2 /\ f \in Natives /\ f \in Objs
  BY <1>2, KindsOfValues DEF Installing
<1>6. \A o \in Objs : held'[o] = rc'[o]
  <2>1. \A o \in Objs : held'[o] = IF o \in Natives THEN rc'[o] ELSE 0
    BY <1>1, <1>2 DEF Init
  <2>2. QED
    BY <1>5, <2>1
<1>7. Within(HeldMost)'
  <2>1. \A o \in Objs : held'[o] <= HeldMost
    BY <1>5, <1>6, HeldMostIsNat
  <2>2. \A a \in Arrays : capacity'[a] <= MaxCapacity
    BY <1>1, <1>3, MaxCapacityIsMax DEF Init
  <2>3. QED
    BY <2>1, <2>2 DEF Within, HeldMost
<1>8. ReferencesCounted'
  <2>1. \A a \in Arrays : a \in Objs /\ a \notin Natives
    BY KindsAssumption, KindsOfValues
  <2>2. LiveArrays' = {}
    BY <1>5, <2>1 DEF LiveArrays, Live
  <2>3. Places' = {}
    BY <2>2 DEF Places
  <2>4. \A o \in Objs : Cardinality({p \in Places' : elems'[p[1]][p[2]] = o}) = 0
    BY <2>3, FS_EmptySet
  <2>5. \A o \in Objs : rc'[o] = held'[o] + 0
    BY <1>5, <1>6
  <2>6. QED
    BY <2>4, <2>5 DEF ReferencesCounted, References
<1>9. Lifecycle'
  BY <1>1, <1>3, <1>5 DEF Init, Lifecycle, Live
<1>10. FunctionsOwned'
  BY <1>5, <1>6 DEF FunctionsOwned
<1>11. QED
  BY <1>4, <1>7, <1>8, <1>9, <1>10 DEF CInv, IInv

(* A call stores a value its array of arguments keeps in memory: the release *)
(* of the old element ends neither the array nor the value.                  *)
LEMMA PassedSurvives ==
  ASSUME NEW B \in Nat, IInv(B), NEW b \in Arrays, NEW a \in Arrays,
         NEW v \in Values, Passes(b, a, v), NEW index \in Nat
  PROVE  Live(a) /\ Usable(a) /\ (v \in Objs => rc[v] > 0) /\ ~ EndsNew(a, index, v)
<1>1. TypeOK /\ b \in Objs /\ a \in Objs
  BY KindsOfValues DEF IInv
<1>2. Live(b) /\ b \in LiveArrays
  BY <1>1, FoundIsLive DEF Passes, LiveArrays
<1>3. ASSUME NEW x \in ToSet(elems[b])
      PROVE  \E p \in Places : p[1] = b /\ elems[p[1]][p[2]] = x
  <2>1. PICK j \in DOMAIN elems[b] : x = elems[b][j]
    BY DEF ToSet
  <2>2. elems[b] \in Seq(Values)
    BY <1>1 DEF TypeOK
  <2>3. <<b, j>> \in Places
    BY <1>1, <1>2, <2>1, <2>2, PlaceParts
  <2>4. QED
    BY <2>1, <2>3
<1>4. Live(a) /\ Usable(a)
  <2>1. Live(a)
    BY <1>1, <1>3, FoundIsLive DEF Passes
  <2>2. Borrowed(a)
    BY <1>2 DEF Passes, Borrowed, Readable
  <2>3. QED
    BY <2>1, <2>2 DEF Usable
<1>5. ASSUME v \in Objs
      PROVE  v \in ToSet(elems[b]) /\ rc[v] > 0
  <2>1. v \in ToSet(elems[b])
    BY <1>5, NullIsNoObject DEF Passes
  <2>2. \E p \in Places : elems[p[1]][p[2]] = v
    BY <1>3, <2>1
  <2>3. rc[v] > 0
    BY <1>5, <2>2, FoundIsLive
  <2>4. QED
    BY <2>1, <2>3
<1>6. ASSUME EndsNew(a, index, v)
      PROVE  FALSE
  <2> DEFINE i == Locate(Len(elems[a]), index)
             c == Cascade(elems[a][i])
             q == <<a, i>>
             C == Places \ {q}
  <2>1. elems[a] # <<>> /\ v \in c.freed
    BY <1>6 DEF EndsNew
  <2>2. i \in DOMAIN elems[a]
    <3>1. elems[a] \in Seq(Values)
      BY <1>1 DEF TypeOK
    <3>2. Len(elems[a]) \in Nat \ {0} /\ DOMAIN elems[a] = 1 .. Len(elems[a])
      BY <2>1, <3>1
    <3>3. QED
      BY <3>2, LocateIsSlot
  <2> HIDE DEF i
  <2>3. /\ IsFiniteSet(C) /\ held \in [Objs -> Nat]
        /\ c \in Work /\ c.todo = <<>> /\ Balanced(c, C, held)
    BY <1>4, <2>2, CascadeOfElement
  <2>4. v \in Objs
    BY <2>1, <2>3 DEF Work
  <2>5. PICK p \in Places : p[1] = b /\ elems[p[1]][p[2]] = v
    BY <1>3, <1>5, <2>4
  <2>6. p \in C
    BY <2>5 DEF Passes
  <2>7. C \subseteq Places
    OBVIOUS
  <2> HIDE DEF c, C, q
  <2>8. elems[p[1]][p[2]] \notin c.freed
    BY <1>1, <2>3, <2>5, <2>6, <2>7, HeldSurvive DEF Passes
  <2>9. QED
    BY <2>1, <2>5, <2>8
<1>7. QED
  BY <1>4, <1>5, <1>6

LEMMA HeapStepKeepsCounts ==
  ASSUME ~ SelfAssign, NEW B \in Nat, MaxHeld <= B, Fits(B), IInv(B), HeapStep
  PROVE  IInv(B)'
<1>1. ASSUME NEW o \in Strings, NEW str, zynkCreateString(o, str)
      PROVE  IInv(B)'
  BY <1>1, CreateStringKeepsCounts, KindsOfValues
<1>2. ASSUME NEW o \in Arrays, NEW n \in Requests, zynkCreateArray(o, n)
      PROVE  IInv(B)'
  BY <1>2, CreateArrayKeepsCounts, KindsOfValues
<1>3. ASSUME NEW o \in Arrays \union Strings, Retain(o) \/ Release(o)
      PROVE  IInv(B)'
  <2>1. o \in Objs
    BY KindsOfValues
  <2>2. QED
    BY <1>3, <2>1, RetainKeepsCounts, ReleaseKeepsCounts
<1>4. ASSUME NEW a \in Arrays, NEW v \in Values, zynkArrayPush(a, v)
      PROVE  IInv(B)'
  BY <1>4, PushKeepsCounts
<1>5. ASSUME NEW a \in Arrays, NEW index \in Nat, NEW v \in Values, Stores(a, index, v)
      PROVE  IInv(B)'
  <2>1. Live(a) /\ Usable(a) /\ (v \in Objs => rc[v] > 0) /\ ~ EndsNew(a, index, v)
    <3>1. CASE \E b \in Arrays : Passes(b, a, v)
      BY <3>1, PassedSurvives
    <3>2. CASE Live(a) /\ Usable(a) /\ Usable(v) /\ (EndsNew(a, index, v) => SelfAssign)
      BY <3>2, UsableIsLive
    <3>3. QED
      BY <1>5, <3>1, <3>2 DEF Stores
  <2>2. SetElement(a, index, v)
    BY <1>5 DEF Stores
  <2>3. QED
    BY <2>1, <2>2, SetElementKeepsCounts
<1>6. ASSUME NEW a \in Arrays, zynkArrayPop(a)
      PROVE  IInv(B)'
  BY <1>6, PopKeepsCounts
<1>7. CASE Crash
  BY <1>7, CrashKeepsCounts
<1>8. CASE TerminatorSet \/ UNCHANGED state
  <2>1. UNCHANGED <<rc, freed, blocks, elems, capacity, data, room, crashed, held>>
    BY <1>8 DEF TerminatorSet, heap, arrays, state
  <2>2. LiveArrays' = LiveArrays /\ Places' = Places
    BY <2>1 DEF LiveArrays, Places, Live
  <2>3. TypeOK'
    BY StepKeepsHeapTypes DEF IInv
  <2>4. QED
    BY <2>1, <2>2, <2>3 DEF IInv, Within, ReferencesCounted, References, Lifecycle, Live
<1>9. QED
  BY <1>1, <1>2, <1>3, <1>4, <1>5, <1>6, <1>7, <1>8 DEF HeapStep

(* No step of a client or a call gives back a reference to a function.       *)
LEMMA FunctionsHeld ==
  ASSUME TypeOK, HeapStep, NEW f \in Natives
  PROVE  held'[f] >= held[f]
<1>1. held \in [Objs -> Nat] /\ f \in Objs /\ f \notin Arrays \union Strings
  BY KindsAssumption, KindsOfValues DEF TypeOK
<1>2. ASSUME NEW o \in Objs, Create(o)
      PROVE  held'[f] >= held[f]
  BY <1>1, <1>2 DEF Create, Own
<1>3. ASSUME NEW o \in Arrays \union Strings, Retain(o) \/ Release(o)
      PROVE  held'[f] >= held[f]
  BY <1>1, <1>3 DEF Retain, Release, Own
<1>4. ASSUME NEW a \in Arrays, zynkArrayPop(a)
      PROVE  held'[f] >= held[f]
  BY <1>1, <1>4 DEF zynkArrayPop, Own, Crash
<1>5. CASE held' = held
  BY <1>1, <1>5
<1>6. ASSUME NEW a \in Arrays, NEW index \in Nat, NEW v \in Values, Stores(a, index, v)
      PROVE  held' = held
  BY <1>6 DEF Stores, SetElement, Crash
<1>7. ASSUME NEW a \in Arrays, NEW v \in Values, zynkArrayPush(a, v)
      PROVE  held' = held
  BY <1>7 DEF zynkArrayPush, Crash
<1>8. CASE TerminatorSet \/ Crash \/ UNCHANGED state
  BY <1>5, <1>8 DEF TerminatorSet, Crash, state
<1>9. QED
  BY <1>2, <1>3, <1>4, <1>5, <1>6, <1>7, <1>8, KindsOfValues
     DEF HeapStep, zynkCreateString, zynkCreateArray

LEMMA NativesStepCounted ==
  ASSUME ~ SelfAssign, Fits(HeldMost), CInv, [NativesNext]_vars
  PROVE  CInv'
<1>1. ASSUME NEW slots \in FreeSlots, init_native_funcs(slots)
      PROVE  CInv'
  BY <1>1, InstallKeepsCounts DEF CInv
<1>2. CASE HeapStep /\ UNCHANGED natives
  <2>1. TypeOK /\ installed' = installed /\ installed \subseteq Natives
    BY <1>2 DEF CInv, TInv, NativesTypeOK, natives
  <2>2. IInv(HeldMost)'
    BY <1>2, HeldMostIsNat, HeapStepKeepsCounts DEF CInv
  <2>3. TInv'
    BY NativesStepTyped DEF CInv
  <2>4. \A f \in installed : held'[f] >= 2
    <3>1. \A f \in installed : held'[f] >= held[f] /\ held[f] \in Nat /\ held'[f] \in Nat
      <4>1. TypeOK'
        BY <2>2 DEF IInv
      <4>2. QED
        BY <1>2, <2>1, <4>1, FunctionsHeld, KindsOfValues DEF TypeOK
    <3>2. QED
      BY <3>1 DEF CInv, FunctionsOwned
  <2>5. QED
    BY <2>1, <2>2, <2>3, <2>4 DEF CInv, FunctionsOwned
<1>3. QED
  BY <1>1, <1>2, StepsAre DEF CInv, TInv

(* While no client stores a value that only the slot's old value keeps       *)
(* alive, and no count can reach the width of ref_count, installing the      *)
(* functions and calling them with any arguments keeps the inductive         *)
(* invariant of the heap, one reference more for the functions.              *)
THEOREM NativesInductiveInvariant ==
  ASSUME ~ SelfAssign, Fits(HeldMost)
  PROVE  NativesSpec => []CInv
<1>1. NativesInit => CInv
  <2> SUFFICES ASSUME NativesInit
               PROVE  CInv
    OBVIOUS
  <2>1. Init /\ installed = {}
    BY DEF NativesInit
  <2>2. QED
    BY <2>1, NativesInitTyped, InitCounted, HeldMostIsNat DEF CInv, FunctionsOwned
<1>2. CInv /\ [NativesNext]_vars => CInv'
  BY NativesStepCounted
<1>3. QED
  BY <1>1, <1>2, PTL DEF NativesSpec

(* ref_count is exact whatever the native functions are called with: push,   *)
(* pop and set_index of values that only their array of arguments holds      *)
(* take and give back exactly the references they should.                    *)
THEOREM NativesCountsExact ==
  ASSUME ~ SelfAssign, Fits(HeldMost)
  PROVE  NativesSpec => []ReferencesCounted
<1>1. CInv => ReferencesCounted
  BY DEF CInv, IInv
<1>2. QED
  BY <1>1, NativesInductiveInvariant, PTL

(* No call leaves an array with an element whose memory went back to the     *)
(* arena.                                                                    *)
THEOREM NativesElementsLive ==
  ASSUME ~ SelfAssign, Fits(HeldMost)
  PROVE  NativesSpec => []StoredValuesLive
<1>1. CInv => StoredValuesLive
  BY HeldMostIsNat, CountedAreLive DEF CInv
<1>2. QED
  BY <1>1, NativesInductiveInvariant, PTL

(* Calls free nothing that can still be reached, and what they leave behind  *)
(* has one of two reasons: a cycle of arrays, or an array that was popped    *)
(* from two or more elements.                                                *)
THEOREM NativesMemorySafe ==
  ASSUME ~ SelfAssign, Fits(HeldMost)
  PROVE  NativesSpec => [](NothingElseLeaks /\ ReachableLive)
<1>1. CInv => NothingElseLeaks /\ ReachableLive
  BY HeldMostIsNat, CountedIsReached, CountedKeepsReachable DEF CInv
<1>2. QED
  BY <1>1, NativesInductiveInvariant, PTL

(* A function found under its name exists, with the reference of its         *)
(* creation and the one of the table, whatever clients store, pass, pop and  *)
(* release.                                                                  *)
THEOREM FunctionsNeverFreed ==
  ASSUME ~ SelfAssign, Fits(HeldMost)
  PROVE  NativesSpec => []FunctionsStay
<1>1. CInv => FunctionsStay
  <2> SUFFICES ASSUME CInv, NEW f \in installed
               PROVE  Live(f) /\ rc[f] >= 2
    BY DEF FunctionsStay
  <2>1. f \in Objs /\ IInv(HeldMost) /\ held[f] \in Nat /\ held[f] >= 2
    BY KindsOfValues DEF CInv, TInv, NativesTypeOK, TypeOK, FunctionsOwned
  <2>2. Live(f)
    BY <2>1, FoundIsLive, HeldMostIsNat
  <2> DEFINE k == Cardinality(Refer(Places, elems, f))
  <2>3. rc[f] = held[f] + k /\ k \in Nat
    BY <2>1, CountsOfPlaces, HeldMostIsNat DEF IInv, ReferencesCounted
  <2> HIDE DEF k
  <2>4. QED
    BY <2>1, <2>2, <2>3
<1>2. QED
  BY <1>1, NativesInductiveInvariant, PTL

=============================================================================
