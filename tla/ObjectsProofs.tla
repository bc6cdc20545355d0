--------------------------- MODULE ObjectsProofs ---------------------------
(***************************************************************************)
(* Proofs about the counted objects, for every set of objects, every       *)
(* capacity and every width of ref_count.  The inductive invariant is that *)
(* counts are exact and objects in memory while counted; within a cascade  *)
(* it is a balance of references, arrays left and releases to be made.     *)
(***************************************************************************)
EXTENDS Objects, LeastNumbers, FiniteSetTheorems, TLAPS

-----------------------------------------------------------------------------
(* The bounds of the model *)

LEMMA MaxCapacityIsMax ==
  /\ MaxCapacity \in Nat
  /\ \A m \in Requests \union {MinCapacity} : m <= MaxCapacity
<1> DEFINE S == Requests \union {MinCapacity}
<1>1. S \in SUBSET Nat /\ S # {}
  BY CapacityAssumption
<1>2. IsFiniteSet(S)
  BY CapacityAssumption, FS_AddElement
<1>3. \E n \in S : \A m \in S : m <= n
  BY <1>1, <1>2, GreatestNumber
<1>4. MaxCapacity \in S /\ \A m \in S : m <= MaxCapacity
  BY <1>3 DEF MaxCapacity
<1>5. QED
  BY <1>1, <1>4

LEMMA ArraysAreFinite ==
  /\ IsFiniteSet(Objs) /\ IsFiniteSet(Arrays)
  /\ Cardinality(Arrays) \in Nat /\ Cardinality(Objs) \in Nat
<1>1. IsFiniteSet(Objs) /\ Arrays \in SUBSET Objs
  BY FiniteAssumption DEF Objs
<1>2. QED
  BY <1>1, FS_Subset, FS_CardinalityType

(* The number of calls a cascade is given. *)
Calls == 1 + Cardinality(Arrays) * MaxCapacity

LEMMA CallsIsNat ==
  Calls \in Nat /\ Cardinality(Arrays) * MaxCapacity \in Nat
BY MaxCapacityIsMax, ArraysAreFinite DEF Calls

-----------------------------------------------------------------------------
(* Counting occurrences *)

Occurrences(s, v) == Cardinality({i \in DOMAIN s : s[i] = v})

LEMMA OccurrencesType ==
  ASSUME NEW V, NEW s \in Seq(V), NEW v
  PROVE  /\ Occurrences(s, v) \in Nat
         /\ IsFiniteSet({i \in DOMAIN s : s[i] = v})
         /\ (\E i \in DOMAIN s : s[i] = v) => Occurrences(s, v) > 0
<1> DEFINE I == {i \in DOMAIN s : s[i] = v}
<1>1. DOMAIN s = 1 .. Len(s) /\ Len(s) \in Nat
  OBVIOUS
<1>2. IsFiniteSet(1 .. Len(s))
  BY <1>1, FS_Interval
<1>3. IsFiniteSet(I)
  BY <1>1, <1>2, FS_Subset, I \in SUBSET (1 .. Len(s))
<1>4. Cardinality(I) \in Nat /\ (I # {} => Cardinality(I) # 0)
  BY <1>3, FS_CardinalityType, FS_EmptySet
<1>5. QED
  BY <1>3, <1>4 DEF Occurrences

(* The elements of a set of naturals, moved by k. *)
LEMMA ShiftedCardinality ==
  ASSUME NEW I \in SUBSET Nat, IsFiniteSet(I), NEW k \in Nat
  PROVE  /\ IsFiniteSet({k + i : i \in I})
         /\ Cardinality({k + i : i \in I}) = Cardinality(I)
<1> DEFINE J == {k + i : i \in I}
           f == [i \in I |-> k + i]
<1>1. f \in Bijection(I, J)
  BY DEF Bijection, Injection, Surjection, IsInjective
<1>2. ExistsBijection(I, J)
  BY <1>1 DEF ExistsBijection
<1>3. QED
  BY <1>2, FS_Bijection

LEMMA OccurrencesConcat ==
  ASSUME NEW V, NEW s \in Seq(V), NEW t \in Seq(V), NEW v
  PROVE  Occurrences(s \o t, v) = Occurrences(s, v) + Occurrences(t, v)
<1> DEFINE I == {i \in DOMAIN s : s[i] = v}
           J == {j \in DOMAIN t : t[j] = v}
           K == {Len(s) + j : j \in J}
           L == {i \in DOMAIN (s \o t) : (s \o t)[i] = v}
<1>1. /\ Len(s) \in Nat /\ Len(t) \in Nat
      /\ DOMAIN s = 1 .. Len(s) /\ DOMAIN t = 1 .. Len(t)
      /\ DOMAIN (s \o t) = 1 .. Len(s) + Len(t)
  OBVIOUS
<1>2. \A i \in 1 .. Len(s) : (s \o t)[i] = s[i]
  OBVIOUS
<1>3. \A j \in 1 .. Len(t) : (s \o t)[Len(s) + j] = t[j]
  OBVIOUS
<1>4. L = I \union K
  <2>1. ASSUME NEW i \in L
        PROVE  i \in I \union K
    <3>1. CASE i <= Len(s)
      BY <1>1, <1>2, <3>1
    <3>2. CASE i > Len(s)
      <4>1. i - Len(s) \in 1 .. Len(t) /\ i = Len(s) + (i - Len(s))
        BY <1>1, <3>2
      <4>2. t[i - Len(s)] = v
        BY <1>3, <4>1
      <4>3. QED
        BY <1>1, <4>1, <4>2
    <3>3. QED
      BY <1>1, <3>1, <3>2
  <2>2. I \subseteq L
    BY <1>1, <1>2
  <2>3. K \subseteq L
    BY <1>1, <1>3
  <2>4. QED
    BY <2>1, <2>2, <2>3
<1>5. I \intersect K = {}
  BY <1>1
<1>6. IsFiniteSet(I) /\ IsFiniteSet(J)
  BY OccurrencesType
<1>7. IsFiniteSet(K) /\ Cardinality(K) = Cardinality(J)
  BY <1>1, <1>6, ShiftedCardinality, J \in SUBSET Nat
<1>8. Cardinality(I) \in Nat /\ Cardinality(J) \in Nat /\ Cardinality(I \intersect K) = 0
  BY <1>5, <1>6, FS_CardinalityType, FS_EmptySet
<1> HIDE DEF I, J, K, L
<1>9. Cardinality(L) = Cardinality(I) + Cardinality(K) - Cardinality(I \intersect K)
  BY <1>4, <1>6, <1>7, FS_Union
<1>10. Cardinality(L) = Cardinality(I) + Cardinality(J)
  BY <1>7, <1>8, <1>9
<1>11. QED
  BY <1>10 DEF Occurrences, I, J, L

LEMMA OccurrencesEmpty == \A v : Occurrences(<<>>, v) = 0
<1>1. \A v : {i \in DOMAIN <<>> : <<>>[i] = v} = {}
  OBVIOUS
<1>2. QED
  BY <1>1, FS_EmptySet DEF Occurrences

LEMMA OccurrencesOne ==
  ASSUME NEW x, NEW v
  PROVE  Occurrences(<<x>>, v) = IF x = v THEN 1 ELSE 0
<1>1. {i \in DOMAIN <<x>> : <<x>>[i] = v} = IF x = v THEN {1} ELSE {}
  OBVIOUS
<1>2. QED
  BY <1>1, FS_EmptySet, FS_Singleton DEF Occurrences

LEMMA OccurrencesHead ==
  ASSUME NEW V, NEW s \in Seq(V), s # <<>>, NEW v
  PROVE  Occurrences(s, v) = Occurrences(Tail(s), v) + (IF Head(s) = v THEN 1 ELSE 0)
<1>1. Head(s) \in V /\ Tail(s) \in Seq(V) /\ s = <<Head(s)>> \o Tail(s)
  OBVIOUS
<1>2. <<Head(s)>> \in Seq(V)
  BY <1>1
<1>3. Occurrences(<<Head(s)>> \o Tail(s), v)
        = Occurrences(<<Head(s)>>, v) + Occurrences(Tail(s), v)
  BY <1>1, <1>2, OccurrencesConcat
<1>4. Occurrences(<<Head(s)>>, v) = IF Head(s) = v THEN 1 ELSE 0
  BY OccurrencesOne
<1>5. Occurrences(Tail(s), v) \in Nat
  BY <1>1, OccurrencesType
<1>6. Occurrences(s, v) = (IF Head(s) = v THEN 1 ELSE 0) + Occurrences(Tail(s), v)
  BY <1>1, <1>3, <1>4
<1>7. QED
  BY <1>5, <1>6
-----------------------------------------------------------------------------
(* The cascade, call by call *)

Work == [todo : Seq(Values), rc : [Objs -> 0 .. Word - 1], freed : SUBSET Objs,
         crashed : BOOLEAN]

Start(v) == [todo |-> <<v>>, rc |-> rc, freed |-> {}, crashed |-> FALSE]

Call(w) == IF w.todo = <<>> THEN w ELSE ReleaseHead(w)

(* One call turns well-typed work into well-typed work. *)
LEMMA ReleaseHeadTyped ==
  ASSUME TypeOK, NEW w \in Work, w.todo # <<>>
  PROVE  ReleaseHead(w) \in Work
<1> DEFINE o == Head(w.todo)
           last == o \in Objs /\ w.rc[o] = 1
<1>1. /\ w.todo \in Seq(Values) /\ w.rc \in [Objs -> 0 .. Word - 1]
      /\ w.freed \in SUBSET Objs /\ w.crashed \in BOOLEAN
  BY DEF Work
<1>2. o \in Values /\ Tail(w.todo) \in Seq(Values)
  BY <1>1
<1>3. Elements(o) \in Seq(Values)
  BY DEF Elements, TypeOK
<1> DEFINE todo == IF last THEN Elements(o) \o Tail(w.todo) ELSE Tail(w.todo)
           count == IF o \in Objs THEN [w.rc EXCEPT ![o] = (@ - 1) % Word] ELSE w.rc
           gone == IF last THEN w.freed \union {o} ELSE w.freed
           crash == \/ w.crashed
                    \/ last /\ o \in Arrays /\ ~ data[o] /\ elems[o] # <<>>
<1>4. todo \in Seq(Values)
  <2>1. Elements(o) \o Tail(w.todo) \in Seq(Values)
    BY <1>2, <1>3
  <2>2. QED
    BY <1>2, <2>1
<1>5. count \in [Objs -> 0 .. Word - 1]
  <2>1. \A m \in 0 .. Word - 1 : ((m - 1) % Word) \in 0 .. Word - 1
    BY WordAssumption
  <2>2. QED
    BY <1>1, <2>1
<1>6. gone \in SUBSET Objs
  BY <1>1
<1>7. crash \in BOOLEAN
  OBVIOUS
<1>8. ReleaseHead(w) = [todo |-> todo, rc |-> count, freed |-> gone, crashed |-> crash]
  BY DEF ReleaseHead
<1> HIDE DEF todo, count, gone, crash, last
<1>9. QED
  BY <1>4, <1>5, <1>6, <1>7, <1>8 DEF Work

(* A cascade is the end of a sequence of calls. *)
LEMMA CascadeRun ==
  ASSUME TypeOK, NEW v \in Values
  PROVE  \E run \in [0 .. Calls -> Work] :
           /\ run[0] = Start(v)
           /\ \A n \in 0 .. Calls - 1 : run[n + 1] = Call(run[n])
           /\ Cascade(v) = run[Calls]
<1>1. Calls \in Nat
  BY CallsIsNat
<1>2. Start(v) \in Work
  BY DEF Start, Work, TypeOK
<1> DEFINE next == [w \in Work |-> Call(w)]
<1>3. next \in [Work -> Work]
  BY ReleaseHeadTyped DEF Call
<1>4. PICK f \in [0 .. Calls -> Work] :
         f[0] = Start(v) /\ \A n \in 0 .. Calls - 1 : f[n + 1] = next[f[n]]
  <2> DEFINE N == Calls
             T == Work
             x == Start(v)
  <2>1. N \in Nat /\ x \in T /\ next \in [T -> T]
    BY <1>1, <1>2, <1>3
  <2> HIDE DEF next, N, T, x
  <2>2. Repeats(N, T, x, next)
    BY <2>1, RecursionUpTo
  <2>3. QED
    BY <2>2 DEF Repeats, N, T, x
<1> DEFINE Of(r, n) == IF n = 0 THEN Start(v) ELSE Call(r[n - 1])
           Run(r) == r = [n \in 0 .. Calls |-> Of(r, n)]
           run == CHOOSE r : Run(r)
<1>5. ASSUME NEW n \in 0 .. Calls
      PROVE  f[n] = Of(f, n)
  <2>1. CASE n = 0
    BY <1>4, <2>1
  <2>2. CASE n # 0
    <3>1. n - 1 \in 0 .. Calls - 1 /\ (n - 1) + 1 = n /\ n - 1 \in 0 .. Calls
      BY <1>1, <2>2
    <3>2. f[n] = next[f[n - 1]]
      BY <1>4, <3>1
    <3>3. QED
      BY <2>2, <3>1, <3>2
  <2>3. QED
    BY <2>1, <2>2
<1>6. Run(f)
  <2> HIDE DEF Of
  <2>1. QED
    BY <1>5
<1>7. Run(run)
  <2> HIDE DEF Run
  <2>1. QED
    BY <1>6
<1>8. Cascade(v) = run[Calls]
  BY DEF Cascade, Calls, Call, Start
<1> HIDE DEF run
<1>9. ASSUME NEW n \in 0 .. Calls
      PROVE  run[n] = Of(run, n)
  <2> HIDE DEF Of
  <2>1. QED
    BY <1>7
<1>10. run[0] = Start(v) /\ \A n \in 0 .. Calls - 1 : run[n + 1] = Call(run[n])
  <2>1. run[0] = Start(v)
    BY <1>1, <1>9
  <2>2. ASSUME NEW n \in 0 .. Calls - 1
        PROVE  run[n + 1] = Call(run[n])
    <3>1. n + 1 \in 0 .. Calls /\ n + 1 # 0 /\ (n + 1) - 1 = n
      BY <1>1
    <3>2. run[n + 1] = Of(run, n + 1)
      BY <1>9, <3>1
    <3>3. QED
      BY <3>1, <3>2
  <2>3. QED
    BY <2>1, <2>2
<1>11. \A n \in 0 .. Calls : run[n] \in Work
  <2> DEFINE D == {n \in 0 .. Calls : run[n] \in Work}
  <2>1. 0 \in D
    BY <1>1, <1>2, <1>10
  <2>2. ASSUME NEW n \in 0 .. Calls - 1, n \in D
        PROVE  n + 1 \in D
    <3>1. run[n] \in Work /\ n + 1 \in 0 .. Calls
      BY <1>1, <2>2
    <3>2. Call(run[n]) \in Work
      BY <3>1, ReleaseHeadTyped DEF Call
    <3>3. QED
      BY <1>10, <3>1, <3>2
  <2> HIDE DEF D
  <2>3. 0 .. Calls \subseteq D
    BY <1>1, <2>1, <2>2, InductionUpTo
  <2>4. QED
    BY <2>3 DEF D
<1>12. run \in [0 .. Calls -> Work]
  <2>1. run = [n \in 0 .. Calls |-> run[n]]
    <3> HIDE DEF Of
    <3>1. QED
      BY <1>7
  <2>2. QED
    BY <1>11, <2>1
<1>13. QED
  BY <1>8, <1>10, <1>12

LEMMA CascadeTyped ==
  ASSUME TypeOK, NEW v \in Values
  PROVE  Cascade(v) \in Work
BY CascadeRun, CallsIsNat

-----------------------------------------------------------------------------
(* Types *)

LEMMA KindsOfValues ==
  /\ Arrays \subseteq Objs /\ Strings \subseteq Objs /\ Natives \subseteq Objs
  /\ Objs \subseteq Values /\ Objs = Arrays \union Strings \union Natives
  /\ \A o \in Objs : o \notin Arrays => Elements(o) = <<>>
BY DEF Objs, Values, Elements

(* The part of the type invariant a cascade touches. *)
HeapTyped ==
  /\ rc \in [Objs -> 0 .. Word - 1]
  /\ freed \subseteq Objs
  /\ blocks \in [Objs -> SUBSET Parts]
  /\ crashed \in BOOLEAN

LEMMA AfterTyped ==
  ASSUME TypeOK, NEW c \in Work, NEW r \in [Objs -> 0 .. Word - 1], After(c, r)
  PROVE  HeapTyped'
<1>1. c.freed \in SUBSET Objs /\ c.crashed \in BOOLEAN
  BY DEF Work
<1>2. blocks' \in [Objs -> SUBSET Parts]
  BY DEF After, TypeOK
<1>3. QED
  BY <1>1, <1>2 DEF After, TypeOK, HeapTyped

LEMMA RetainTyped ==
  ASSUME NEW r \in [Objs -> 0 .. Word - 1], NEW v
  PROVE  zynk_retain(r, v) \in [Objs -> 0 .. Word - 1]
<1>1. \A m \in 0 .. Word - 1 : ((m + 1) % Word) \in 0 .. Word - 1
  BY WordAssumption
<1>2. QED
  BY <1>1 DEF zynk_retain

LEMMA OwnTyped ==
  ASSUME TypeOK, NEW v, Own(v)
  PROVE  held' \in [Objs -> Nat]
BY DEF TypeOK, Own

LEMMA RetainKeepsTypes ==
  ASSUME TypeOK, NEW o \in Objs, Retain(o)
  PROVE  TypeOK'
<1>1. rc' \in [Objs -> 0 .. Word - 1]
  BY RetainTyped DEF Retain, TypeOK
<1>2. held' \in [Objs -> Nat]
  BY OwnTyped DEF Retain
<1>3. QED
  BY <1>1, <1>2 DEF Retain, contents, TypeOK

LEMMA ReleaseKeepsTypes ==
  ASSUME TypeOK, NEW o \in Objs, Release(o)
  PROVE  TypeOK'
<1>1. Cascade(o) \in Work
  BY CascadeTyped, KindsOfValues
<1>2. Cascade(o).rc \in [Objs -> 0 .. Word - 1]
  BY <1>1 DEF Work
<1>3. HeapTyped'
  BY <1>1, <1>2, AfterTyped DEF Release
<1>4. held' \in [Objs -> Nat]
  BY DEF Release, TypeOK
<1>5. QED
  BY <1>3, <1>4 DEF Release, contents, TypeOK, HeapTyped

LEMMA CardinalityOfParts ==
  Cardinality({"object", "body"}) = 2 /\ Cardinality(Parts) = 3
<1> DEFINE A == {"object"}
           B == A \union {"body"}
           C == B \union {"data"}
<1>1. "body" \notin A /\ "data" \notin B /\ B = {"object", "body"} /\ C = Parts
  BY DEF Parts
<1>2. IsFiniteSet(A) /\ Cardinality(A) = 1
  BY FS_Singleton
<1> HIDE DEF A
<1>3. IsFiniteSet(B) /\ Cardinality(B) = 2
  BY <1>1, <1>2, FS_AddElement
<1> HIDE DEF B
<1>4. Cardinality(C) = 3
  BY <1>1, <1>3, FS_AddElement
<1> HIDE DEF C
<1>5. QED
  BY <1>1, <1>3, <1>4

LEMMA PartsOfSubset ==
  ASSUME NEW o
  PROVE  PartsOf(o) \subseteq Parts /\ Cardinality(PartsOf(o)) \in {2, 3}
<1>1. PartsOf(o) \in {{"object", "body"}, Parts} /\ {"object", "body"} \subseteq Parts
  BY DEF PartsOf, Parts
<1>2. QED
  BY <1>1, CardinalityOfParts

(* A creation that gets a block for each part keeps them all; on every error *)
(* path the blocks it got are given back one by one, and none is left.       *)
LEMMA AllocatedAll ==
  ASSUME TypeOK, NEW o
  PROVE  Allocated(o) = IF room >= Cardinality(PartsOf(o)) THEN PartsOf(o) ELSE {}
<1>1. room \in Nat
  BY BoundsAssumption DEF TypeOK
<1>2. Cardinality(PartsOf(o)) = IF o \in Natives THEN 2 ELSE 3
  <2>1. PartsOf(o) = IF o \in Natives THEN {"object", "body"} ELSE Parts
    BY DEF PartsOf
  <2>2. Cardinality({"object", "body"}) = 2 /\ Cardinality(Parts) = 3
    BY CardinalityOfParts
  <2>3. QED
    BY <2>1, <2>2
<1>3. NoBody({"object"}) = {} /\ NoData({"object", "body"}) = {}
  BY DEF NoBody, NoData, sysarena_free
<1> HIDE DEF PartsOf
<1>4. QED
  BY <1>1, <1>2, <1>3 DEF Allocated

LEMMA CreateTyped ==
  ASSUME TypeOK, NEW o \in Objs, Create(o)
  PROVE  HeapTyped' /\ room' \in 0 .. Room /\ held' \in [Objs -> Nat]
<1>1. PartsOf(o) \subseteq Parts /\ Cardinality(PartsOf(o)) \in {2, 3}
  BY PartsOfSubset
<1>2. CASE room >= Cardinality(PartsOf(o))
  <2>1. /\ blocks' = [blocks EXCEPT ![o] = PartsOf(o)]
        /\ rc' = [rc EXCEPT ![o] = 1]
        /\ Own(o)
        /\ room' = room - Cardinality(PartsOf(o))
        /\ freed' = freed /\ crashed' = crashed
    BY <1>2, AllocatedAll DEF Create
  <2>2. blocks' \in [Objs -> SUBSET Parts]
    BY <1>1, <2>1 DEF TypeOK
  <2>3. rc' \in [Objs -> 0 .. Word - 1]
    <3>1. 1 \in 0 .. Word - 1
      BY WordAssumption
    <3>2. QED
      BY <2>1, <3>1 DEF TypeOK
  <2>4. held' \in [Objs -> Nat]
    BY <2>1, OwnTyped
  <2>5. room' \in 0 .. Room
    BY <1>1, <1>2, <2>1, BoundsAssumption DEF TypeOK
  <2>6. QED
    BY <2>1, <2>2, <2>3, <2>4, <2>5 DEF TypeOK, HeapTyped
<1>3. CASE ~ (room >= Cardinality(PartsOf(o)))
  <2>1. /\ blocks' = [blocks EXCEPT ![o] = {}]
        /\ room' = 0
        /\ UNCHANGED <<rc, held, freed, crashed>>
    BY <1>3, AllocatedAll DEF Create
  <2>2. blocks' \in [Objs -> SUBSET Parts]
    BY <2>1 DEF TypeOK
  <2>3. QED
    BY <2>1, <2>2, BoundsAssumption DEF TypeOK, HeapTyped
<1>4. QED
  BY <1>2, <1>3

LEMMA CreateStringKeepsTypes ==
  ASSUME TypeOK, NEW o \in Objs, NEW str, zynkCreateString(o, str)
  PROVE  TypeOK'
<1>1. HeapTyped' /\ room' \in 0 .. Room /\ held' \in [Objs -> Nat]
  BY CreateTyped DEF zynkCreateString
<1>2. DOMAIN text' = Strings
  BY DEF zynkCreateString, TypeOK
<1>3. UNCHANGED <<elems, capacity, data>>
  BY DEF zynkCreateString, arrays
<1>4. QED
  BY <1>1, <1>2, <1>3 DEF TypeOK, HeapTyped

LEMMA CreateNativeKeepsTypes ==
  ASSUME TypeOK, NEW o \in Objs, zynkCreateNativeFunction(o)
  PROVE  TypeOK'
<1>1. HeapTyped' /\ room' \in 0 .. Room /\ held' \in [Objs -> Nat]
  BY CreateTyped DEF zynkCreateNativeFunction
<1>2. QED
  BY <1>1 DEF zynkCreateNativeFunction, contents, TypeOK, HeapTyped

LEMMA CreateArrayKeepsTypes ==
  ASSUME TypeOK, NEW o \in Objs, NEW n \in Requests, zynkCreateArray(o, n)
  PROVE  TypeOK'
<1>1. HeapTyped' /\ room' \in 0 .. Room /\ held' \in [Objs -> Nat]
  BY CreateTyped DEF zynkCreateArray
<1>2. o \in Arrays /\ n \in Nat /\ MinCapacity \in Nat
  BY CapacityAssumption DEF zynkCreateArray
<1>3. /\ elems' = [elems EXCEPT ![o] = <<>>]
      /\ capacity' = [capacity EXCEPT ![o] = IF n = 0 THEN MinCapacity ELSE n]
      /\ data' = [data EXCEPT ![o] = TRUE]
      /\ text' = text
  BY DEF zynkCreateArray
<1>4. elems' \in [Arrays -> Seq(Values)] /\ capacity' \in [Arrays -> Nat]
  BY <1>2, <1>3 DEF TypeOK
<1>5. \A a \in Arrays : Len(elems'[a]) <= capacity'[a]
  BY <1>2, <1>3 DEF TypeOK
<1>6. data' \in [Arrays -> BOOLEAN] /\ DOMAIN text' = Strings
  BY <1>2, <1>3 DEF TypeOK
<1>7. QED
  BY <1>1, <1>4, <1>5, <1>6 DEF TypeOK, HeapTyped

LEMMA CrashKeepsTypes ==
  ASSUME TypeOK, Crash
  PROVE  TypeOK'
BY DEF TypeOK, Crash, heap, contents

(* The slot of an index is a slot. *)
LEMMA LocateIsSlot ==
  ASSUME NEW n \in Nat \ {0}, NEW index \in Nat
  PROVE  Locate(n, index) \in 1 .. n
<1>1. (n + index) % Word \in Nat
  BY WordAssumption
<1>2. ((n + index) % Word) % n \in 0 .. n - 1
  BY <1>1
<1>3. QED
  BY <1>2 DEF Locate

LEMMA SetElementKeepsTypes ==
  ASSUME TypeOK, NEW a \in Arrays, NEW index \in Nat, NEW v \in Values,
         SetElement(a, index, v)
  PROVE  TypeOK'
<1>1. CASE elems[a] = <<>> \/ ~ data[a]
  BY <1>1, CrashKeepsTypes DEF SetElement
<1>2. CASE ~ (elems[a] = <<>> \/ ~ data[a])
  <2> DEFINE i == Locate(Len(elems[a]), index)
             c == Cascade(elems[a][i])
  <2>1. i \in 1 .. Len(elems[a]) /\ elems[a][i] \in Values
    <3>1. elems[a] \in Seq(Values) /\ elems[a] # <<>>
      BY <1>2 DEF TypeOK
    <3>2. Len(elems[a]) \in Nat \ {0}
      BY <3>1
    <3>3. i \in 1 .. Len(elems[a])
      BY <3>2, LocateIsSlot
    <3>4. QED
      BY <3>1, <3>3
  <2>2. /\ After(c, zynk_retain(c.rc, v))
        /\ elems' = [elems EXCEPT ![a][i] = v]
        /\ UNCHANGED <<capacity, data, text, room, held>>
    BY <1>2 DEF SetElement, Retained
  <2> HIDE DEF i
  <2>3. c \in Work
    BY <2>1, CascadeTyped
  <2> HIDE DEF c
  <2>4. zynk_retain(c.rc, v) \in [Objs -> 0 .. Word - 1]
    BY <2>3, RetainTyped DEF Work
  <2>5. HeapTyped'
    BY <2>2, <2>3, <2>4, AfterTyped
  <2>6. elems' \in [Arrays -> Seq(Values)] /\ \A b \in Arrays : Len(elems'[b]) = Len(elems[b])
    <3>1. [elems[a] EXCEPT ![i] = v] \in Seq(Values)
      BY <2>1 DEF TypeOK
    <3>2. Len([elems[a] EXCEPT ![i] = v]) = Len(elems[a])
      BY <2>1 DEF TypeOK
    <3>3. elems' = [elems EXCEPT ![a] = [elems[a] EXCEPT ![i] = v]]
      BY <2>2 DEF TypeOK
    <3>4. QED
      BY <3>1, <3>2, <3>3 DEF TypeOK
  <2>7. QED
    BY <2>2, <2>5, <2>6 DEF TypeOK, HeapTyped
<1>3. QED
  BY <1>1, <1>2

(* reallocate never gives memory, so a push that goes on had room. *)
LEMMA PushHasRoom ==
  ASSUME NEW a \in Arrays, NEW v, zynkArrayPush(a, v)
  PROVE  ~ Full(a)
BY DEF zynkArrayPush, zynkArrayGrow, reallocate

LEMMA PushKeepsTypes ==
  ASSUME TypeOK, NEW a \in Arrays, NEW v \in Values, zynkArrayPush(a, v)
  PROVE  TypeOK'
<1>1. ~ Full(a)
  BY PushHasRoom
<1>2. CASE ~ data[a]
  BY <1>2, CrashKeepsTypes DEF zynkArrayPush
<1>3. CASE data[a]
  <2>1. /\ elems' = [elems EXCEPT ![a] = Append(@, v)]
        /\ rc' = zynk_retain(rc, v)
        /\ capacity' = [capacity EXCEPT ![a] = @]
        /\ UNCHANGED <<freed, blocks, data, text, room, crashed, held>>
    BY <1>1, <1>3 DEF zynkArrayPush
  <2>2. elems[a] \in Seq(Values) /\ Len(elems[a]) < capacity[a] /\ capacity[a] \in Nat
    BY <1>1 DEF TypeOK, Full
  <2>3. Append(elems[a], v) \in Seq(Values) /\ Len(Append(elems[a], v)) = Len(elems[a]) + 1
    BY <2>2
  <2>4. Len(elems[a]) \in Nat
    BY <2>2
  <2>5. elems' \in [Arrays -> Seq(Values)] /\ capacity' = capacity
    BY <2>1, <2>3 DEF TypeOK
  <2>6. \A b \in Arrays : Len(elems'[b]) <= capacity'[b]
    BY <2>1, <2>2, <2>3, <2>4, <2>5 DEF TypeOK
  <2>7. rc' \in [Objs -> 0 .. Word - 1]
    BY <2>1, RetainTyped DEF TypeOK
  <2>8. QED
    BY <2>1, <2>5, <2>6, <2>7 DEF TypeOK
<1>4. QED
  BY <1>2, <1>3

LEMMA FrontAndLast ==
  ASSUME NEW V, NEW s \in Seq(V), s # <<>>
  PROVE  /\ Len(s) \in Nat \ {0} /\ Last(s) = s[Len(s)] /\ Last(s) \in V
         /\ Front(s) \in Seq(V) /\ Len(Front(s)) = Len(s) - 1
         /\ \A i \in 1 .. Len(s) - 1 : Front(s)[i] = s[i]
<1>1. Len(s) \in Nat \ {0}
  OBVIOUS
<1>2. Last(s) = s[Len(s)] /\ Last(s) \in V
  BY <1>1 DEF Last
<1>3. Front(s) = [i \in 1 .. Len(s) - 1 |-> s[i]]
  BY <1>1 DEF Front
<1>4. QED
  BY <1>1, <1>2, <1>3

LEMMA PopKeepsTypes ==
  ASSUME TypeOK, NEW a \in Arrays, zynkArrayPop(a)
  PROVE  TypeOK'
<1>1. CASE ~ data[a]
  BY <1>1, CrashKeepsTypes DEF zynkArrayPop
<1>2. CASE data[a]
  <2>1. elems[a] \in Seq(Values) /\ elems[a] # <<>>
    BY DEF zynkArrayPop, TypeOK
  <2>2. /\ elems' = [elems EXCEPT ![a] = Front(@)]
        /\ data' = [data EXCEPT ![a] = FALSE]
        /\ blocks' \in {blocks, [blocks EXCEPT ![a] = @ \ {"data"}]}
        /\ Own(Last(elems[a]))
        /\ UNCHANGED <<rc, freed, capacity, text, room, crashed>>
    BY <1>2 DEF zynkArrayPop, reallocate
  <2>3. Front(elems[a]) \in Seq(Values) /\ Len(Front(elems[a])) = Len(elems[a]) - 1
        /\ Len(elems[a]) \in Nat
    BY <2>1, FrontAndLast
  <2>4. elems' \in [Arrays -> Seq(Values)]
    BY <2>2, <2>3 DEF TypeOK
  <2>5. \A b \in Arrays : Len(elems'[b]) <= capacity'[b]
    BY <2>2, <2>3 DEF TypeOK
  <2>6. blocks' \in [Objs -> SUBSET Parts]
    BY <2>2 DEF TypeOK
  <2>7. held' \in [Objs -> Nat]
    BY <2>2, OwnTyped
  <2>8. QED
    BY <2>2, <2>4, <2>5, <2>6, <2>7 DEF TypeOK
<1>3. QED
  BY <1>1, <1>2

LEMMA InitTyped == Init => TypeOK
<1> SUFFICES ASSUME Init
             PROVE  TypeOK
  OBVIOUS
<1>1. 0 \in 0 .. Word - 1
  BY WordAssumption
<1>2. <<>> \in Seq(Values) /\ Len(<<>>) = 0
  OBVIOUS
<1>3. elems \in [Arrays -> Seq(Values)] /\ \A a \in Arrays : Len(elems[a]) <= capacity[a]
  BY <1>2 DEF Init
<1>4. /\ rc \in [Objs -> 0 .. Word - 1] /\ blocks \in [Objs -> SUBSET Parts]
      /\ capacity \in [Arrays -> Nat] /\ data \in [Arrays -> BOOLEAN]
      /\ DOMAIN text = Strings /\ held \in [Objs -> Nat]
  BY <1>1 DEF Init
<1>5. QED
  BY <1>3, <1>4 DEF Init, TypeOK

LEMMA StepTyped == TypeOK /\ [Next]_state => TypeOK'
<1> SUFFICES ASSUME TypeOK, [Next]_state
             PROVE  TypeOK'
  OBVIOUS
<1>1. ASSUME NEW o \in Objs, NEW str \in Texts, zynkCreateString(o, str)
      PROVE  TypeOK'
  BY <1>1, CreateStringKeepsTypes
<1>2. ASSUME NEW o \in Objs, zynkCreateNativeFunction(o)
      PROVE  TypeOK'
  BY <1>2, CreateNativeKeepsTypes
<1>3. ASSUME NEW o \in Objs, NEW n \in Requests, zynkCreateArray(o, n)
      PROVE  TypeOK'
  BY <1>3, CreateArrayKeepsTypes
<1>4. ASSUME NEW o \in Objs, Retain(o)
      PROVE  TypeOK'
  BY <1>4, RetainKeepsTypes
<1>5. ASSUME NEW o \in Objs, Release(o)
      PROVE  TypeOK'
  BY <1>5, ReleaseKeepsTypes
<1>6. ASSUME NEW a \in Arrays, zynkArrayGet(a)
      PROVE  TypeOK'
  BY <1>6, CrashKeepsTypes DEF zynkArrayGet
<1>7. ASSUME NEW a \in Arrays, NEW v \in Values, zynkArrayPush(a, v)
      PROVE  TypeOK'
  BY <1>7, PushKeepsTypes
<1>8. ASSUME NEW a \in Arrays, NEW v \in Values, NEW i \in Indexes, zynkArraySet(a, i, v)
      PROVE  TypeOK'
  <2>1. i \in Nat /\ SetElement(a, i, v)
    BY <1>8, WordAssumption DEF zynkArraySet
  <2>2. QED
    BY <2>1, SetElementKeepsTypes
<1>9. ASSUME NEW a \in Arrays, zynkArrayPop(a)
      PROVE  TypeOK'
  BY <1>9, PopKeepsTypes
<1>10. CASE UNCHANGED state
  BY <1>10 DEF TypeOK, state
<1>11. QED
  BY <1>1, <1>2, <1>3, <1>4, <1>5, <1>6, <1>7, <1>8, <1>9, <1>10 DEF Next

(* The variables have their types, and no array is ever longer than its      *)
(* capacity: reallocate never gives memory, so a push into a full array ends *)
(* there, whatever the clients do and however counts wrap around.            *)
THEOREM TypeCorrect == Spec => []TypeOK
<1>1. Init => TypeOK
  BY InitTyped
<1>2. TypeOK /\ [Next]_state => TypeOK'
  BY StepTyped
<1>3. QED
  BY <1>1, <1>2, PTL DEF Spec
-----------------------------------------------------------------------------
(* Places *)

(* What the counts rest on: no client holds more than the bound B says, no   *)
(* array outgrows the greatest capacity, and an object is in memory exactly  *)
(* as long as its count is above 0.                                          *)
Within(B) ==
  /\ \A o \in Objs : held[o] <= B
  /\ \A a \in Arrays : capacity[a] <= MaxCapacity

Lifecycle ==
  \A o \in Objs : IF rc[o] > 0 THEN Live(o) /\ o \notin freed
                  ELSE ~ Live(o) /\ (o \notin freed => blocks[o] = {})

(* The places of S where v is found, and those outside the arrays gone. *)
Refer(S, el, v) == {p \in S : el[p[1]][p[2]] = v}

Outside(S, gone) == {p \in S : p[1] \notin gone}

LEMMA PlaceParts ==
  ASSUME TypeOK
  PROVE  /\ \A p \in Places : /\ p[1] \in LiveArrays /\ p[1] \in Arrays /\ p[1] \in Objs
                              /\ p[2] \in DOMAIN elems[p[1]] /\ p = <<p[1], p[2]>>
                              /\ p[2] \in 1 .. Len(elems[p[1]])
                              /\ elems[p[1]][p[2]] \in Values
         /\ \A a \in LiveArrays : {a} \X DOMAIN elems[a] \subseteq Places
         /\ \A a \in LiveArrays : \A i : i \in 1 .. Len(elems[a]) => <<a, i>> \in Places
<1>1. \A a \in LiveArrays : {a} \X DOMAIN elems[a] \subseteq Places
  BY DEF Places
<1>2. \A a \in LiveArrays : a \in Arrays /\ a \in Objs
  BY KindsOfValues DEF LiveArrays
<1>3. \A a \in Arrays : elems[a] \in Seq(Values) /\ DOMAIN elems[a] = 1 .. Len(elems[a])
  BY DEF TypeOK
<1>4. ASSUME NEW p \in Places
      PROVE  \E a \in LiveArrays : p \in {a} \X DOMAIN elems[a]
  BY DEF Places
<1>5. ASSUME NEW p \in Places
      PROVE  /\ p[1] \in LiveArrays /\ p[1] \in Arrays /\ p[1] \in Objs
             /\ p[2] \in DOMAIN elems[p[1]] /\ p = <<p[1], p[2]>>
             /\ p[2] \in 1 .. Len(elems[p[1]])
             /\ elems[p[1]][p[2]] \in Values
  <2>1. PICK a \in LiveArrays : p \in {a} \X DOMAIN elems[a]
    BY <1>4
  <2>2. p[1] = a /\ p[2] \in DOMAIN elems[a] /\ p = <<p[1], p[2]>>
    BY <2>1
  <2>3. p[2] \in 1 .. Len(elems[a]) /\ elems[a][p[2]] \in Values
    BY <1>2, <1>3, <2>2
  <2>4. QED
    BY <1>2, <2>2, <2>3
<1>6. ASSUME NEW a \in LiveArrays, NEW i \in 1 .. Len(elems[a])
      PROVE  <<a, i>> \in Places
  <2>1. <<a, i>> \in {a} \X DOMAIN elems[a]
    BY <1>2, <1>3
  <2>2. QED
    BY <1>1, <2>1
<1>7. QED
  BY <1>1, <1>5, <1>6

LEMMA PlacesBounded ==
  ASSUME TypeOK, \A a \in Arrays : capacity[a] <= MaxCapacity
  PROVE  /\ IsFiniteSet(Places)
         /\ Cardinality(Places) \in Nat
         /\ Cardinality(Places) <= Cardinality(Arrays) * MaxCapacity
<1> DEFINE All == Arrays \X (1 .. MaxCapacity)
<1>1. MaxCapacity \in Nat /\ IsFiniteSet(Arrays)
  BY MaxCapacityIsMax, ArraysAreFinite
<1>2. IsFiniteSet(1 .. MaxCapacity) /\ Cardinality(1 .. MaxCapacity) = MaxCapacity
  BY <1>1, FS_Interval
<1>3. IsFiniteSet(All) /\ Cardinality(All) = Cardinality(Arrays) * MaxCapacity
  BY <1>1, <1>2, FS_Product
<1>4. ASSUME NEW p \in Places
      PROVE  p \in All
  <2>1. p[1] \in Arrays /\ p[2] \in 1 .. Len(elems[p[1]]) /\ p = <<p[1], p[2]>>
    BY PlaceParts
  <2>2. Len(elems[p[1]]) <= capacity[p[1]] /\ capacity[p[1]] <= MaxCapacity
        /\ Len(elems[p[1]]) \in Nat /\ capacity[p[1]] \in Nat
    BY <2>1 DEF TypeOK
  <2>3. p[2] \in 1 .. MaxCapacity
    BY <1>1, <2>1, <2>2
  <2>4. QED
    BY <2>1, <2>3
<1>5. Places \in SUBSET All
  BY <1>4
<1> HIDE DEF All
<1>6. QED
  BY <1>3, <1>5, FS_Subset, FS_CardinalityType

(* Finite sets of places, with what is counted in them. *)
LEMMA ReferFinite ==
  ASSUME NEW S, IsFiniteSet(S), NEW T \in SUBSET S, NEW el, NEW v
  PROVE  /\ IsFiniteSet(T) /\ Cardinality(T) \in Nat /\ Cardinality(T) <= Cardinality(S)
         /\ IsFiniteSet(Refer(T, el, v)) /\ Cardinality(Refer(T, el, v)) \in Nat
         /\ Cardinality(Refer(T, el, v)) <= Cardinality(T)
         /\ Refer(T, el, v) # {} => Cardinality(Refer(T, el, v)) > 0
<1>1. IsFiniteSet(T) /\ Cardinality(T) \in Nat /\ Cardinality(T) <= Cardinality(S)
  BY FS_Subset, FS_CardinalityType
<1>2. Refer(T, el, v) \in SUBSET T
  BY DEF Refer
<1>3. IsFiniteSet(Refer(T, el, v)) /\ Cardinality(Refer(T, el, v)) <= Cardinality(T)
  BY <1>1, <1>2, FS_Subset
<1>4. Cardinality(Refer(T, el, v)) \in Nat
      /\ (Refer(T, el, v) # {} => Cardinality(Refer(T, el, v)) # 0)
  BY <1>3, FS_CardinalityType, FS_EmptySet
<1>5. QED
  BY <1>1, <1>3, <1>4

(* The places of one array hold its elements, each as often as it occurs. *)
LEMMA PlacesOfArray ==
  ASSUME TypeOK, NEW a \in Arrays, NEW v
  PROVE  LET E == {a} \X DOMAIN elems[a]
         IN  /\ IsFiniteSet(E) /\ Cardinality(E) = Len(elems[a])
             /\ Cardinality(Refer(E, elems, v)) = Occurrences(elems[a], v)
<1> DEFINE E == {a} \X DOMAIN elems[a]
           I == {i \in DOMAIN elems[a] : elems[a][i] = v}
           f == [i \in I |-> <<a, i>>]
<1>1. elems[a] \in Seq(Values) /\ Len(elems[a]) \in Nat /\ DOMAIN elems[a] = 1 .. Len(elems[a])
  BY DEF TypeOK
<1>2. IsFiniteSet({a}) /\ Cardinality({a}) = 1
  BY FS_Singleton
<1>3. IsFiniteSet(DOMAIN elems[a]) /\ Cardinality(DOMAIN elems[a]) = Len(elems[a])
  BY <1>1, FS_Interval
<1>4. IsFiniteSet(E) /\ Cardinality(E) = 1 * Len(elems[a])
  <2> DEFINE A == {a}
             D == DOMAIN elems[a]
             n == Len(elems[a])
  <2>1. IsFiniteSet(A) /\ Cardinality(A) = 1 /\ IsFiniteSet(D) /\ Cardinality(D) = n
    BY <1>2, <1>3
  <2> HIDE DEF A, D, n
  <2>2. IsFiniteSet(A \X D) /\ Cardinality(A \X D) = 1 * n
    BY <2>1, FS_Product
  <2>3. QED
    BY <2>2 DEF A, D, n
<1>5. IsFiniteSet(I)
  BY <1>1, OccurrencesType
<1>6. f \in Bijection(I, Refer(E, elems, v))
  <2>1. f \in [I -> Refer(E, elems, v)]
    BY DEF Refer
  <2>2. \A i, j \in I : f[i] = f[j] => i = j
    OBVIOUS
  <2>3. \A p \in Refer(E, elems, v) : \E i \in I : f[i] = p
    <3>1. ASSUME NEW p \in Refer(E, elems, v)
          PROVE  p[2] \in I /\ f[p[2]] = p
      BY DEF Refer
    <3>2. QED
      BY <3>1
  <2> HIDE DEF f, I, E
  <2>4. QED
    BY <2>1, <2>2, <2>3 DEF Bijection, Injection, Surjection, IsInjective
<1>7. Cardinality(Refer(E, elems, v)) = Cardinality(I)
  <2> HIDE DEF f, I, E
  <2>1. ExistsBijection(I, Refer(E, elems, v))
    BY <1>6 DEF ExistsBijection
  <2>2. QED
    BY <1>5, <2>1, FS_Bijection
<1>8. QED
  BY <1>1, <1>4, <1>7 DEF Occurrences
-----------------------------------------------------------------------------
(* The cascade gives back exactly the references of what it frees           *)

(***************************************************************************)
(* C are the places that count, h the references from outside the arrays.  *)
(* While the cascade runs, the count of an object is made up of h, of the  *)
(* places outside the arrays freed so far and of the releases still to do; *)
(* and it has freed exactly the objects it took the last reference of.     *)
(***************************************************************************)
Balanced(w, C, h) ==
  /\ \A o \in Objs :
       w.rc[o] = h[o] + Cardinality(Refer(Outside(C, w.freed), elems, o))
                 + Occurrences(w.todo, o)
  /\ \A o \in Objs : w.rc[o] <= rc[o]
  /\ \A o \in Objs : o \in w.freed <=> w.rc[o] = 0 /\ rc[o] > 0

(* An array that cannot be freed on the way: h or an array h refers to does. *)
Pinned(a, C, h) ==
  h[a] > 0 \/ \E q \in C : h[q[1]] > 0 /\ elems[q[1]][q[2]] = a

(* The places that do not count belong to such arrays.                       *)
Counting(C, h) ==
  /\ C \subseteq Places /\ h \in [Objs -> Nat]
  /\ \A p \in Places \ C : Pinned(p[1], C, h)

LEMMA LastReferenceUnpinned ==
  ASSUME TypeOK, IsFiniteSet(Places), NEW C, NEW h, Counting(C, h),
         NEW w \in Work, Balanced(w, C, h), w.todo # <<>>,
         NEW o \in Objs, o = Head(w.todo), w.rc[o] = 1
  PROVE  ~ Pinned(o, C, h)
<1> DEFINE K == Outside(C, w.freed)
<1>1. K \in SUBSET Places /\ C \subseteq Places /\ h \in [Objs -> Nat]
  BY DEF Outside, Counting
<1>2. w.todo \in Seq(Values) /\ w.rc \in [Objs -> 0 .. Word - 1]
  BY DEF Work
<1>3. Occurrences(w.todo, o) \in Nat /\ Occurrences(w.todo, o) >= 1
  <2>1. Occurrences(w.todo, o) = Occurrences(Tail(w.todo), o) + 1
    BY <1>2, OccurrencesHead
  <2>2. Tail(w.todo) \in Seq(Values)
    BY <1>2
  <2>3. Occurrences(Tail(w.todo), o) \in Nat
    BY <2>2, OccurrencesType
  <2>4. QED
    BY <2>1, <2>3
<1>4. Cardinality(Refer(K, elems, o)) \in Nat
      /\ (Refer(K, elems, o) # {} => Cardinality(Refer(K, elems, o)) > 0)
  BY <1>1, ReferFinite
<1>5. w.rc[o] = h[o] + Cardinality(Refer(K, elems, o)) + Occurrences(w.todo, o)
  BY DEF Balanced
<1> HIDE DEF K
<1>6. h[o] = 0 /\ Refer(K, elems, o) = {}
  BY <1>1, <1>3, <1>4, <1>5
<1>7. ASSUME NEW q \in C, h[q[1]] > 0, elems[q[1]][q[2]] = o
      PROVE  FALSE
  <2>1. q[1] \in Objs
    BY <1>1, PlaceParts
  <2>2. w.rc[q[1]] = h[q[1]] + Cardinality(Refer(K, elems, q[1])) + Occurrences(w.todo, q[1])
    BY <2>1 DEF Balanced, K
  <2>3. Cardinality(Refer(K, elems, q[1])) \in Nat /\ Occurrences(w.todo, q[1]) \in Nat
    BY <1>1, <1>2, ReferFinite, OccurrencesType
  <2>4. w.rc[q[1]] # 0
    BY <1>1, <1>7, <2>1, <2>2, <2>3
  <2>5. q[1] \notin w.freed
    BY <2>1, <2>4 DEF Balanced
  <2>6. q \in Refer(K, elems, o)
    BY <1>7, <2>5 DEF K, Outside, Refer
  <2>7. QED
    BY <1>6, <2>6
<1>8. QED
  BY <1>6, <1>7 DEF Pinned

LEMMA CallKeepsBalance ==
  ASSUME TypeOK, IsFiniteSet(Places), Lifecycle,
         NEW C, NEW h, Counting(C, h),
         NEW w \in Work, Balanced(w, C, h), w.todo # <<>>
  PROVE  LET x == ReleaseHead(w)
         IN  /\ Balanced(x, C, h)
             /\ Len(x.todo) + Cardinality(Outside(C, x.freed)) + 1
                  = Len(w.todo) + Cardinality(Outside(C, w.freed))
<1> DEFINE x == ReleaseHead(w)
           o == Head(w.todo)
           last == o \in Objs /\ w.rc[o] = 1
           K == Outside(C, w.freed)
<1>1. K \in SUBSET Places /\ C \subseteq Places /\ h \in [Objs -> Nat]
  BY DEF Outside, Counting
<1>2. /\ w.todo \in Seq(Values) /\ w.rc \in [Objs -> 0 .. Word - 1]
      /\ Tail(w.todo) \in Seq(Values) /\ Len(Tail(w.todo)) = Len(w.todo) - 1
      /\ Len(w.todo) \in Nat
  BY DEF Work
<1>3. \A q : /\ Occurrences(w.todo, q)
                  = Occurrences(Tail(w.todo), q) + (IF o = q THEN 1 ELSE 0)
             /\ Occurrences(Tail(w.todo), q) \in Nat
  BY <1>2, OccurrencesHead, OccurrencesType
<1>4. \A q \in Objs :
        /\ w.rc[q] = h[q] + Cardinality(Refer(K, elems, q)) + Occurrences(w.todo, q)
        /\ w.rc[q] <= rc[q]
        /\ q \in w.freed <=> w.rc[q] = 0 /\ rc[q] > 0
        /\ w.rc[q] \in Nat /\ rc[q] \in Nat /\ w.rc[q] < Word
        /\ h[q] \in Nat /\ Cardinality(Refer(K, elems, q)) \in Nat
  <2>1. \A q \in Objs : Cardinality(Refer(K, elems, q)) \in Nat
    BY <1>1, ReferFinite
  <2>2. \A q \in Objs : w.rc[q] \in Nat /\ rc[q] \in Nat /\ w.rc[q] < Word
    BY <1>2, WordAssumption DEF TypeOK
  <2>3. QED
    BY <1>1, <2>1, <2>2 DEF Balanced
<1>5. Cardinality(K) \in Nat
  BY <1>1, ReferFinite
<1>6. o \in Objs => w.rc[o] >= 1 /\ (w.rc[o] - 1) % Word = w.rc[o] - 1
  <2>1. SUFFICES ASSUME o \in Objs
                 PROVE  w.rc[o] >= 1 /\ (w.rc[o] - 1) % Word = w.rc[o] - 1
    OBVIOUS
  <2> HIDE DEF o, K
  <2>2. w.rc[o] >= 1
    <3>1. w.rc[o] = h[o] + Cardinality(Refer(K, elems, o)) + Occurrences(w.todo, o)
          /\ h[o] \in Nat /\ Cardinality(Refer(K, elems, o)) \in Nat
      BY <1>4, <2>1
    <3>2. Occurrences(w.todo, o) = Occurrences(Tail(w.todo), o) + 1
          /\ Occurrences(Tail(w.todo), o) \in Nat
      BY <1>3
    <3>3. QED
      BY <3>1, <3>2
  <2>3. \A m \in Nat : m >= 1 /\ m < Word => (m - 1) % Word = m - 1
    BY WordAssumption
  <2>4. QED
    BY <1>4, <2>1, <2>2, <2>3
<1>7. /\ x.rc = IF o \in Objs THEN [w.rc EXCEPT ![o] = (@ - 1) % Word] ELSE w.rc
      /\ x.todo = IF last THEN Elements(o) \o Tail(w.todo) ELSE Tail(w.todo)
      /\ x.freed = IF last THEN w.freed \union {o} ELSE w.freed
  BY DEF ReleaseHead
<1>8. \A q \in Objs : x.rc[q] = IF q = o THEN w.rc[q] - 1 ELSE w.rc[q]
  BY <1>2, <1>6, <1>7
<1>9. CASE ~ last
  <2>1. x.todo = Tail(w.todo) /\ x.freed = w.freed
    BY <1>7, <1>9
  <2>2. \A q \in Objs : x.rc[q] = h[q] + Cardinality(Refer(K, elems, q)) + Occurrences(x.todo, q)
    <3>1. SUFFICES ASSUME NEW q \in Objs
                   PROVE  x.rc[q] = h[q] + Cardinality(Refer(K, elems, q)) + Occurrences(x.todo, q)
      OBVIOUS
    <3> HIDE DEF o, K, x, last
    <3>2. w.rc[q] = h[q] + Cardinality(Refer(K, elems, q)) + Occurrences(w.todo, q)
          /\ h[q] \in Nat /\ Cardinality(Refer(K, elems, q)) \in Nat
      BY <1>4
    <3>3. Occurrences(w.todo, q) = Occurrences(Tail(w.todo), q) + (IF o = q THEN 1 ELSE 0)
          /\ Occurrences(Tail(w.todo), q) \in Nat
      BY <1>3
    <3>4. x.rc[q] = IF q = o THEN w.rc[q] - 1 ELSE w.rc[q]
      BY <1>8
    <3>5. QED
      BY <2>1, <3>2, <3>3, <3>4
  <2>3. \A q \in Objs : x.rc[q] <= rc[q]
    BY <1>4, <1>8
  <2>4. \A q \in Objs : q \in x.freed <=> x.rc[q] = 0 /\ rc[q] > 0
    BY <1>4, <1>6, <1>8, <1>9, <2>1
  <2> HIDE DEF x
  <2>5. Balanced(x, C, h)
    BY <2>1, <2>2, <2>3, <2>4 DEF Balanced
  <2>6. Len(x.todo) + Cardinality(Outside(C, x.freed)) + 1 = Len(w.todo) + Cardinality(K)
    BY <1>2, <1>5, <2>1
  <2>7. QED
    BY <2>5, <2>6 DEF x
<1>10. CASE last
  <2> DEFINE E == {p \in C : p[1] = o}
             L == Outside(C, x.freed)
             els == Elements(o)
  <2>1. x.todo = els \o Tail(w.todo) /\ x.freed = w.freed \union {o} /\ o \in Objs
        /\ w.rc[o] = 1
    BY <1>7, <1>10
  <2>2. o \notin w.freed
    BY <1>4, <2>1
  <2>3. K = L \union E /\ L \intersect E = {} /\ L \in SUBSET Places /\ E \in SUBSET Places
    BY <1>1, <2>1, <2>2 DEF Outside
  <2>4. els \in Seq(Values) /\ Len(els) \in Nat
    BY DEF Elements, TypeOK
  <2>5. Cardinality(E) = Len(els)
        /\ \A q : Cardinality(Refer(E, elems, q)) = Occurrences(els, q)
    <3>1. CASE o \in Arrays
      <4>1. rc[o] > 0
        BY <1>4, <2>1
      <4>2. o \in LiveArrays
        BY <3>1, <4>1, <2>1 DEF Lifecycle, LiveArrays
      <4>3. ~ Pinned(o, C, h)
        BY <2>1, LastReferenceUnpinned
      <4>4. {o} \X DOMAIN elems[o] \subseteq C
        <5>1. \A p \in Places : p[1] = o => p \in C
          BY <4>3 DEF Counting
        <5>2. \A p \in {o} \X DOMAIN elems[o] : p \in Places /\ p[1] = o
          BY <4>2, PlaceParts
        <5>3. QED
          BY <5>1, <5>2
      <4>5. E = {o} \X DOMAIN elems[o]
        <5>1. \A p \in E : p \in {o} \X DOMAIN elems[o]
          <6>1. SUFFICES ASSUME NEW p \in E
                         PROVE  p \in {o} \X DOMAIN elems[o]
            OBVIOUS
          <6>2. p \in Places /\ p[1] = o
            BY <1>1
          <6>3. p = <<o, p[2]>> /\ p[2] \in DOMAIN elems[o]
            BY <6>2, PlaceParts
          <6>4. QED
            BY <6>3
        <5>2. QED
          BY <4>4, <5>1
      <4>6. els = elems[o]
        BY <3>1 DEF Elements
      <4> HIDE DEF E, els, x, K, last
      <4>7. QED
        BY <3>1, <4>5, <4>6, PlacesOfArray
    <3>2. CASE o \notin Arrays
      <4>1. els = <<>>
        BY <3>2 DEF Elements
      <4>2. E = {}
        BY <1>1, <3>2, PlaceParts
      <4>3. \A q : Refer(E, elems, q) = {}
        BY <4>2 DEF Refer
      <4> HIDE DEF E, els, x, K, last
      <4>4. QED
        BY <4>1, <4>2, <4>3, OccurrencesEmpty, FS_EmptySet
    <3>3. QED
      BY <3>1, <3>2
  <2> HIDE DEF E, L, els, x, K, last
  <2>6. Cardinality(K) = Cardinality(L) + Cardinality(E)
        /\ Cardinality(L) \in Nat /\ Cardinality(E) \in Nat
    <3>1. IsFiniteSet(L) /\ IsFiniteSet(E) /\ Cardinality(L) \in Nat /\ Cardinality(E) \in Nat
      BY <2>3, ReferFinite
    <3>2. Cardinality(L \intersect E) = 0
      BY <2>3, FS_EmptySet
    <3>3. Cardinality(L \union E) = Cardinality(L) + Cardinality(E) - Cardinality(L \intersect E)
      BY <3>1, FS_Union
    <3>4. QED
      BY <2>3, <3>1, <3>2, <3>3
  <2>7. ASSUME NEW q
        PROVE  /\ Cardinality(Refer(K, elems, q))
                    = Cardinality(Refer(L, elems, q)) + Cardinality(Refer(E, elems, q))
               /\ Cardinality(Refer(L, elems, q)) \in Nat
               /\ Cardinality(Refer(E, elems, q)) \in Nat
    <3> DEFINE R == Refer(L, elems, q)
               S == Refer(E, elems, q)
    <3>1. Refer(K, elems, q) = R \union S /\ R \intersect S = {}
      BY <2>3 DEF Refer
    <3>2. IsFiniteSet(R) /\ IsFiniteSet(S) /\ Cardinality(R) \in Nat /\ Cardinality(S) \in Nat
      BY <2>3, ReferFinite
    <3> HIDE DEF R, S
    <3>3. Cardinality(R \intersect S) = 0
      BY <3>1, FS_EmptySet
    <3>4. Cardinality(R \union S) = Cardinality(R) + Cardinality(S) - Cardinality(R \intersect S)
      BY <3>2, FS_Union
    <3>5. Cardinality(R \union S) = Cardinality(R) + Cardinality(S)
      BY <3>2, <3>3, <3>4
    <3>6. QED
      BY <3>1, <3>2, <3>5 DEF R, S
  <2>8. \A q : Occurrences(x.todo, q) = Occurrences(els, q) + Occurrences(Tail(w.todo), q)
    <3> HIDE DEF o
    <3>1. \A q : Occurrences(els \o Tail(w.todo), q) = Occurrences(els, q) + Occurrences(Tail(w.todo), q)
      BY <1>2, <2>4, OccurrencesConcat
    <3>2. QED
      BY <2>1, <3>1
  <2>9. \A q \in Objs : x.rc[q] = h[q] + Cardinality(Refer(L, elems, q)) + Occurrences(x.todo, q)
    <3>1. SUFFICES ASSUME NEW q \in Objs
                   PROVE  x.rc[q] = h[q] + Cardinality(Refer(L, elems, q)) + Occurrences(x.todo, q)
      OBVIOUS
    <3>2. w.rc[q] = h[q] + Cardinality(Refer(K, elems, q)) + Occurrences(w.todo, q)
          /\ h[q] \in Nat
      BY <1>4
    <3>3. Occurrences(w.todo, q) = Occurrences(Tail(w.todo), q) + (IF o = q THEN 1 ELSE 0)
          /\ Occurrences(Tail(w.todo), q) \in Nat
      BY <1>3
    <3>4. Cardinality(Refer(E, elems, q)) = Occurrences(els, q)
      BY <2>5
    <3>5. x.rc[q] = IF q = o THEN w.rc[q] - 1 ELSE w.rc[q]
      BY <1>8
    <3> HIDE DEF o
    <3>6. QED
      BY <2>7, <2>8, <3>2, <3>3, <3>4, <3>5
  <2>10. \A q \in Objs : x.rc[q] <= rc[q]
    BY <1>4, <1>8
  <2>11. \A q \in Objs : q \in x.freed <=> x.rc[q] = 0 /\ rc[q] > 0
    <3>1. \A q \in Objs : q = o => x.rc[q] = 0 /\ rc[q] > 0
      BY <1>4, <1>8, <2>1
    <3>2. QED
      BY <1>4, <1>8, <2>1, <3>1
  <2>12. Balanced(x, C, h)
    BY <2>9, <2>10, <2>11 DEF Balanced, L
  <2>13. Len(x.todo) = Len(els) + Len(Tail(w.todo))
    BY <1>2, <2>1, <2>4
  <2>14. Len(x.todo) + Cardinality(L) + 1 = Len(w.todo) + Cardinality(K)
    BY <1>2, <2>4, <2>5, <2>6, <2>13
  <2>15. QED
    BY <2>12, <2>14 DEF x, K, L
<1>11. QED
  BY <1>9, <1>10

(* The calls a cascade is given are enough: when they are over, nothing is   *)
(* left to release and the counts are those of what was not freed.           *)
LEMMA CascadeGivesBack ==
  ASSUME TypeOK, \A a \in Arrays : capacity[a] <= MaxCapacity, Lifecycle,
         NEW C, NEW h, Counting(C, h),
         NEW v \in Values, Balanced(Start(v), C, h)
  PROVE  Cascade(v) \in Work /\ Cascade(v).todo = <<>> /\ Balanced(Cascade(v), C, h)
<1>1. PICK run : /\ run[0] = Start(v)
                 /\ \A n \in 0 .. Calls - 1 : run[n + 1] = Call(run[n])
                 /\ Cascade(v) = run[Calls]
  BY CascadeRun
<1> DEFINE Left(w) == Cardinality(Outside(C, w.freed))
           Good(n, w) == /\ w \in Work /\ Balanced(w, C, h)
                         /\ w.todo # <<>> => n + Len(w.todo) + Left(w) = 1 + Cardinality(C)
           D == {n \in 0 .. Calls : Good(n, run[n])}
<1>2. Calls \in Nat
  BY CallsIsNat
<1>3. IsFiniteSet(Places) /\ Cardinality(C) \in Nat /\ 1 + Cardinality(C) <= Calls
  <2>1. /\ IsFiniteSet(Places)
        /\ Cardinality(Places) \in Nat
        /\ Cardinality(Places) <= Cardinality(Arrays) * MaxCapacity
    BY PlacesBounded
  <2>2. Cardinality(C) \in Nat /\ Cardinality(C) <= Cardinality(Places)
    BY <2>1, ReferFinite DEF Counting
  <2>3. QED
    BY <2>1, <2>2, CallsIsNat DEF Calls
<1>4. ASSUME NEW w
      PROVE  Left(w) \in Nat
  <2>1. Outside(C, w.freed) \in SUBSET Places
    BY DEF Outside, Counting
  <2>2. QED
    BY <1>3, <2>1, ReferFinite
<1>5. Good(0, Start(v))
  <2>1. Start(v) \in Work
    BY DEF Start, Work, TypeOK
  <2>2. Start(v).todo = <<v>> /\ Start(v).freed = {} /\ Len(<<v>>) = 1
    BY DEF Start
  <2>3. Outside(C, {}) = C
    BY DEF Outside
  <2>4. Left(Start(v)) = Cardinality(C)
    BY <2>2, <2>3
  <2> HIDE DEF Left
  <2>5. 0 + Len(Start(v).todo) + Left(Start(v)) = 1 + Cardinality(C)
    BY <1>3, <2>2, <2>4
  <2>6. QED
    BY <2>1, <2>5
<1>6. ASSUME NEW n \in 0 .. Calls - 1, NEW w, Good(n, w)
      PROVE  Good(n + 1, Call(w))
  <2>1. CASE w.todo = <<>>
    BY <1>6, <2>1 DEF Call
  <2>2. CASE w.todo # <<>>
    <3> DEFINE x == ReleaseHead(w)
    <3>1. x \in Work /\ Call(w) = x
      BY <1>6, <2>2, ReleaseHeadTyped DEF Call
    <3>2. Balanced(x, C, h) /\ Len(x.todo) + Left(x) + 1 = Len(w.todo) + Left(w)
      BY <1>3, <1>6, <2>2, CallKeepsBalance
    <3>3. n + Len(w.todo) + Left(w) = 1 + Cardinality(C)
      BY <1>6, <2>2
    <3>4. Len(x.todo) \in Nat /\ Len(w.todo) \in Nat
      <4> HIDE DEF x
      <4>1. w \in Work
        BY <1>6
      <4>2. x.todo \in Seq(Values) /\ w.todo \in Seq(Values)
        BY <3>1, <4>1 DEF Work
      <4>3. QED
        BY <4>2
    <3>5. Left(x) \in Nat /\ Left(w) \in Nat
      BY <1>4
    <3> HIDE DEF Left, x
    <3> DEFINE i == Len(x.todo)
               j == Left(x)
               k == Len(w.todo)
               l == Left(w)
    <3>6. /\ i + j + 1 = k + l /\ n + k + l = 1 + Cardinality(C)
          /\ i \in Nat /\ j \in Nat /\ k \in Nat /\ l \in Nat /\ n \in Nat
      BY <1>2, <3>2, <3>3, <3>4, <3>5
    <3> HIDE DEF i, j, k, l
    <3>7. n + 1 + i + j = 1 + Cardinality(C)
      BY <1>3, <3>6
    <3>8. QED
      BY <3>1, <3>2, <3>7 DEF i, j
  <2>3. QED
    BY <2>1, <2>2
<1> HIDE DEF Good
<1>7. 0 \in D
  BY <1>1, <1>2, <1>5
<1>8. ASSUME NEW n \in 0 .. Calls - 1, n \in D
      PROVE  n + 1 \in D
  <2>1. Good(n, run[n]) /\ n + 1 \in 0 .. Calls
    BY <1>2, <1>8
  <2>2. QED
    BY <1>1, <1>6, <2>1
<1> HIDE DEF D
<1>9. 0 .. Calls \subseteq D
  BY <1>2, <1>7, <1>8, InductionUpTo
<1> DEFINE c == Cascade(v)
<1>10. Good(Calls, c)
  BY <1>1, <1>2, <1>9 DEF D
<1> HIDE DEF c
<1>11. c \in Work /\ Balanced(c, C, h)
  BY <1>10 DEF Good
<1>12. ASSUME c.todo # <<>>
       PROVE  FALSE
  <2>1. Calls + Len(c.todo) + Left(c) = 1 + Cardinality(C)
    BY <1>10, <1>12 DEF Good
  <2>2. Len(c.todo) \in Nat /\ Len(c.todo) > 0
    <3>1. c.todo \in Seq(Values)
      BY <1>11 DEF Work
    <3>2. QED
      BY <1>12, <3>1
  <2>3. Left(c) \in Nat
    BY <1>4
  <2> HIDE DEF Left
  <2>4. QED
    BY <1>2, <1>3, <2>1, <2>2, <2>3
<1>13. QED
  BY <1>11, <1>12 DEF c

(* What the code does after a cascade leaves in memory what has a count. *)
LEMMA AfterKeepsLifecycle ==
  ASSUME TypeOK, Lifecycle, NEW C, NEW h, NEW c \in Work, Balanced(c, C, h),
         NEW r \in [Objs -> 0 .. Word - 1], \A o \in Objs : r[o] > 0 <=> c.rc[o] > 0,
         After(c, r)
  PROVE  /\ Lifecycle'
         /\ LiveArrays' = LiveArrays \ c.freed
         /\ \A o \in Objs : o \notin c.freed => blocks'[o] = blocks[o]
<1>1. /\ rc' = r /\ freed' = freed \union c.freed
      /\ \A o \in Objs : blocks'[o] = IF o \in c.freed THEN blocks[o] \ Returned(o)
                                      ELSE blocks[o]
  BY DEF After
<1>2. \A o \in Objs : /\ c.rc[o] <= rc[o] /\ c.rc[o] \in Nat /\ rc[o] \in Nat /\ r[o] \in Nat
                      /\ o \in c.freed <=> c.rc[o] = 0 /\ rc[o] > 0
  BY WordAssumption DEF Balanced, Work, TypeOK
<1>3. \A o \in Objs : "object" \in Returned(o)
  BY DEF Returned, Parts
<1>4. ASSUME NEW o \in Objs
      PROVE  IF r[o] > 0 THEN "object" \in blocks'[o] /\ o \notin freed'
             ELSE "object" \notin blocks'[o] /\ (o \notin freed' => blocks'[o] = {})
  <2>1. CASE r[o] > 0
    <3>1. rc[o] > 0 /\ o \notin c.freed
      BY <1>2, <2>1
    <3>2. QED
      BY <1>1, <2>1, <3>1 DEF Lifecycle, Live
  <2>2. CASE ~ (r[o] > 0) /\ rc[o] > 0
    <3>1. o \in c.freed
      BY <1>2, <2>2
    <3>2. QED
      BY <1>1, <1>3, <2>2, <3>1
  <2>3. CASE ~ (r[o] > 0) /\ ~ (rc[o] > 0)
    <3>1. o \notin c.freed
      BY <1>2, <2>3
    <3>2. QED
      BY <1>1, <2>3, <3>1 DEF Lifecycle, Live
  <2>4. QED
    BY <2>1, <2>2, <2>3
<1>5. Lifecycle'
  BY <1>1, <1>4 DEF Lifecycle, Live
<1>6. \A o \in Objs : "object" \in blocks'[o] <=> "object" \in blocks[o] /\ o \notin c.freed
  BY <1>1, <1>3
<1>7. LiveArrays' = LiveArrays \ c.freed
  BY <1>6, KindsOfValues DEF LiveArrays, Live
<1>8. QED
  BY <1>1, <1>5, <1>7
-----------------------------------------------------------------------------
(* Exact counts *)

(* The inductive invariant; B bounds what clients hold to one object.        *)
IInv(B) == TypeOK /\ Within(B) /\ ReferencesCounted /\ Lifecycle

(* No count reaches the width of ref_count: the references of all clients    *)
(* and of all the slots that arrays can have are fewer.                      *)
Fits(B) == B + Cardinality(Arrays) * MaxCapacity < Word

LEMMA CountsOfPlaces ==
  ASSUME NEW B \in Nat, IInv(B), NEW S \in SUBSET Places, NEW el, NEW o
  PROVE  /\ IsFiniteSet(Places) /\ IsFiniteSet(S)
         /\ Cardinality(Refer(S, el, o)) \in Nat
         /\ Refer(S, el, o) # {} => Cardinality(Refer(S, el, o)) > 0
         /\ Cardinality(S) \in Nat /\ Cardinality(Refer(S, el, o)) <= Cardinality(S)
         /\ Cardinality(S) <= Cardinality(Arrays) * MaxCapacity
         /\ References(o) = held[o] + Cardinality(Refer(Places, elems, o))
<1>1. /\ IsFiniteSet(Places)
      /\ Cardinality(Places) \in Nat
      /\ Cardinality(Places) <= Cardinality(Arrays) * MaxCapacity
  BY PlacesBounded DEF IInv, Within
<1>2. /\ IsFiniteSet(S) /\ Cardinality(S) \in Nat /\ Cardinality(S) <= Cardinality(Places)
      /\ Cardinality(Refer(S, el, o)) \in Nat
      /\ Cardinality(Refer(S, el, o)) <= Cardinality(S)
      /\ Refer(S, el, o) # {} => Cardinality(Refer(S, el, o)) > 0
  BY <1>1, ReferFinite
<1>3. References(o) = held[o] + Cardinality(Refer(Places, elems, o))
  BY DEF References, Refer
<1>4. QED
  BY <1>1, <1>2, <1>3, CallsIsNat

(* Who is found in a place, or held, has a count and is in memory. *)
LEMMA FoundIsLive ==
  ASSUME NEW B \in Nat, IInv(B), NEW o \in Objs,
         held[o] > 0 \/ \E p \in Places : elems[p[1]][p[2]] = o
  PROVE  rc[o] > 0 /\ Live(o) /\ o \notin freed
<1>1. rc[o] = held[o] + Cardinality(Refer(Places, elems, o))
  BY CountsOfPlaces DEF IInv, ReferencesCounted
<1>2. held[o] \in Nat /\ Cardinality(Refer(Places, elems, o)) \in Nat
      /\ (Refer(Places, elems, o) # {} => Cardinality(Refer(Places, elems, o)) > 0)
  BY CountsOfPlaces DEF IInv, TypeOK
<1>3. rc[o] > 0
  <2>1. CASE held[o] > 0
    BY <1>1, <1>2, <2>1
  <2>2. CASE \E p \in Places : elems[p[1]][p[2]] = o
    <3>1. Refer(Places, elems, o) # {}
      BY <2>2 DEF Refer
    <3>2. QED
      BY <1>1, <1>2, <3>1
  <2>3. QED
    BY <2>1, <2>2
<1>4. QED
  BY <1>3 DEF IInv, Lifecycle

LEMMA BorrowedIsPlaced ==
  ASSUME TypeOK, NEW v, Borrowed(v)
  PROVE  \E p \in Places : held[p[1]] > 0 /\ elems[p[1]][p[2]] = v
<1>1. PICK a \in Arrays : held[a] > 0 /\ Readable(a) /\ v \in ToSet(elems[a])
  BY DEF Borrowed
<1>2. PICK i \in DOMAIN elems[a] : elems[a][i] = v
  BY <1>1 DEF ToSet
<1>3. a \in LiveArrays
  BY <1>1 DEF Readable, LiveArrays
<1>4. <<a, i>> \in Places
  <2>1. <<a, i>> \in {a} \X DOMAIN elems[a]
    BY <1>2
  <2>2. QED
    BY <1>3, <2>1, PlaceParts
<1>5. QED
  BY <1>1, <1>2, <1>4

LEMMA UsableIsLive ==
  ASSUME NEW B \in Nat, IInv(B), NEW v \in Objs, Usable(v)
  PROVE  rc[v] > 0 /\ Live(v) /\ v \notin freed
<1>1. TypeOK
  BY DEF IInv
<1>2. held[v] > 0 \/ \E p \in Places : elems[p[1]][p[2]] = v
  BY <1>1, BorrowedIsPlaced DEF Usable
<1>3. QED
  BY <1>2, FoundIsLive

(* A reference more still fits. *)
LEMMA OneMoreFits ==
  ASSUME NEW B \in Nat, IInv(B), Fits(B), NEW m \in Nat, NEW k \in Nat,
         m <= B, k <= Cardinality(Arrays) * MaxCapacity
  PROVE  m + k < Word /\ (m + k) % Word = m + k
<1>1. Word \in Nat /\ Cardinality(Arrays) * MaxCapacity \in Nat
  BY WordAssumption, CallsIsNat
<1> DEFINE all == Cardinality(Arrays) * MaxCapacity
<1>2. all \in Nat /\ k <= all /\ B + all < Word
  BY <1>1 DEF Fits
<1> HIDE DEF all
<1>3. m + k < Word
  BY <1>1, <1>2
<1>4. QED
  BY <1>1, <1>3

(* When neither places nor what they hold change, counts follow held. *)
LEMMA PlacesKept ==
  ASSUME NEW B \in Nat, IInv(B), Places' = Places,
         \A p \in Places : elems'[p[1]][p[2]] = elems[p[1]][p[2]],
         \A o \in Objs : held'[o] \in Nat /\ rc'[o] - held'[o] = rc[o] - held[o],
         \A o \in Objs : rc'[o] \in Nat
  PROVE  ReferencesCounted'
<1>1. \A o : Refer(Places', elems', o) = Refer(Places, elems, o)
  BY DEF Refer
<1>2. \A o : References(o)' = held'[o] + Cardinality(Refer(Places', elems', o))
  BY DEF References, Refer
<1>3. ASSUME NEW o \in Objs
      PROVE  rc'[o] = held'[o] + Cardinality(Refer(Places, elems, o))
  <2>1. rc[o] = held[o] + Cardinality(Refer(Places, elems, o))
        /\ Cardinality(Refer(Places, elems, o)) \in Nat
    BY CountsOfPlaces DEF IInv, ReferencesCounted
  <2>2. held[o] \in Nat
    BY DEF IInv, TypeOK
  <2>3. QED
    BY <2>1, <2>2
<1>4. QED
  BY <1>1, <1>2, <1>3 DEF ReferencesCounted
PlacesOf(live, el) == UNION {{a} \X DOMAIN el[a] : a \in live}

LEMMA InPlacesOf ==
  ASSUME NEW live, NEW el
  PROVE  \A p : p \in PlacesOf(live, el)
                  <=> p[1] \in live /\ p[2] \in DOMAIN el[p[1]] /\ p = <<p[1], p[2]>>
<1>1. ASSUME NEW p, p \in PlacesOf(live, el)
      PROVE  p[1] \in live /\ p[2] \in DOMAIN el[p[1]] /\ p = <<p[1], p[2]>>
  <2>1. PICK a \in live : p \in {a} \X DOMAIN el[a]
    BY <1>1 DEF PlacesOf
  <2>2. QED
    BY <2>1
<1>2. ASSUME NEW p, p[1] \in live, p[2] \in DOMAIN el[p[1]], p = <<p[1], p[2]>>
      PROVE  p \in PlacesOf(live, el)
  <2>1. p \in {p[1]} \X DOMAIN el[p[1]]
    BY <1>2
  <2>2. QED
    BY <1>2, <2>1 DEF PlacesOf
<1>3. QED
  BY <1>1, <1>2

LEMMA PlacesAreOf ==
  /\ Places = PlacesOf(LiveArrays, elems)
  /\ Places' = PlacesOf(LiveArrays', elems')
BY DEF Places, PlacesOf

LEMMA ReferAgrees ==
  ASSUME NEW S, NEW el, NEW fl, \A p \in S : el[p[1]][p[2]] = fl[p[1]][p[2]], NEW v
  PROVE  Refer(S, el, v) = Refer(S, fl, v)
BY DEF Refer

LEMMA ReferOneMore ==
  ASSUME NEW S, IsFiniteSet(S), NEW q, q \notin S, NEW T, T = S \union {q},
         NEW el, NEW v
  PROVE  Cardinality(Refer(T, el, v))
           = Cardinality(Refer(S, el, v)) + (IF v = el[q[1]][q[2]] THEN 1 ELSE 0)
<1> DEFINE R == Refer(S, el, v)
<1>1. IsFiniteSet(R) /\ Cardinality(R) \in Nat /\ q \notin R
  BY ReferFinite DEF Refer
<1>2. CASE el[q[1]][q[2]] = v
  <2>1. Refer(T, el, v) = R \union {q}
    BY <1>2 DEF Refer
  <2> HIDE DEF R
  <2>2. QED
    BY <1>1, <1>2, <2>1, FS_AddElement DEF R
<1>3. CASE el[q[1]][q[2]] # v
  <2>1. Refer(T, el, v) = R
    BY <1>3 DEF Refer
  <2> HIDE DEF R
  <2>2. QED
    BY <1>1, <1>3, <2>1 DEF R
<1>4. QED
  BY <1>2, <1>3

LEMMA CrashKeepsCounts ==
  ASSUME NEW B \in Nat, IInv(B), Crash
  PROVE  IInv(B)'
<1>1. UNCHANGED <<rc, freed, blocks, elems, capacity, data, text, room, held>>
  BY DEF Crash, heap, contents
<1>2. TypeOK'
  BY CrashKeepsTypes DEF IInv
<1>3. LiveArrays' = LiveArrays /\ Places' = Places
  BY <1>1 DEF LiveArrays, Places, Live
<1>4. QED
  BY <1>1, <1>2, <1>3
     DEF IInv, Within, ReferencesCounted, References, Lifecycle, Live

LEMMA RetainKeepsCounts ==
  ASSUME NEW B \in Nat, IInv(B), Fits(B), MaxHeld <= B, NEW o \in Objs, Retain(o)
  PROVE  IInv(B)'
<1>1. /\ Usable(o) /\ held[o] < MaxHeld
      /\ rc' = [rc EXCEPT ![o] = (@ + 1) % Word]
      /\ held' = [held EXCEPT ![o] = @ + 1]
      /\ UNCHANGED <<freed, blocks, elems, capacity, data, text, room, crashed>>
  BY DEF Retain, Bounded, zynk_retain, Own, contents
<1>2. TypeOK /\ TypeOK'
  BY RetainKeepsTypes DEF IInv
<1>3. LiveArrays' = LiveArrays /\ Places' = Places
  BY <1>1 DEF LiveArrays, Places, Live
<1>4. held[o] \in Nat /\ held[o] + 1 <= B /\ rc[o] \in Nat /\ rc[o] > 0
  BY <1>1, <1>2, BoundsAssumption, UsableIsLive, WordAssumption DEF TypeOK
<1>5. (rc[o] + 1) % Word = rc[o] + 1
  <2> DEFINE k == Cardinality(Refer(Places, elems, o))
  <2>1. k \in Nat /\ k <= Cardinality(Places) /\ Cardinality(Places) \in Nat
        /\ Cardinality(Places) <= Cardinality(Arrays) * MaxCapacity
        /\ rc[o] = held[o] + k
    BY CountsOfPlaces DEF IInv, ReferencesCounted
  <2>2. k <= Cardinality(Arrays) * MaxCapacity
    BY <2>1, CallsIsNat
  <2> DEFINE m == held[o] + 1
  <2>3. m \in Nat /\ m <= B /\ k \in Nat
    BY <1>4, <2>1
  <2> HIDE DEF k, m
  <2>4. (m + k) % Word = m + k
    BY <2>2, <2>3, OneMoreFits
  <2>5. m + k = rc[o] + 1
    BY <1>4, <2>1 DEF m
  <2>6. QED
    BY <2>4, <2>5
<1>6. \A q \in Objs : /\ rc'[q] = IF q = o THEN rc[q] + 1 ELSE rc[q]
                      /\ held'[q] = IF q = o THEN held[q] + 1 ELSE held[q]
                      /\ rc[q] \in Nat /\ held[q] \in Nat
  BY <1>1, <1>2, <1>5, WordAssumption DEF TypeOK
<1>7. ReferencesCounted'
  BY <1>1, <1>3, <1>6, PlacesKept
<1>8. Lifecycle'
  <2>1. \A q \in Objs : rc'[q] > 0 <=> rc[q] > 0
    BY <1>4, <1>6
  <2>2. QED
    BY <1>1, <2>1 DEF IInv, Lifecycle, Live
<1>9. Within(B)'
  BY <1>1, <1>4, <1>6 DEF IInv, Within
<1>10. QED
  BY <1>2, <1>7, <1>8, <1>9 DEF IInv

LEMMA CreateKeepsCounts ==
  ASSUME NEW B \in Nat, IInv(B), MaxHeld <= B, NEW o \in Objs, Create(o),
         \A a \in Arrays : IF a = o THEN elems'[a] = <<>> ELSE elems'[a] = elems[a]
  PROVE  ReferencesCounted' /\ Lifecycle' /\ \A q \in Objs : held'[q] <= B
<1>1. ~ Live(o) /\ o \notin freed /\ freed' = freed
  BY DEF Create
<1>2. TypeOK /\ rc[o] = 0 /\ blocks[o] = {}
  BY <1>1, WordAssumption DEF IInv, TypeOK, Lifecycle
<1>3. \A q \in Objs : rc[q] \in Nat /\ held[q] \in Nat
  BY <1>2, WordAssumption DEF TypeOK
<1>4. held[o] = 0
  <2>1. rc[o] = held[o] + Cardinality(Refer(Places, elems, o))
        /\ Cardinality(Refer(Places, elems, o)) \in Nat
    BY CountsOfPlaces DEF IInv, ReferencesCounted
  <2>2. QED
    BY <1>2, <1>3, <2>1
<1> DEFINE n == Cardinality(PartsOf(o))
<1>5. \/ /\ blocks' = [blocks EXCEPT ![o] = PartsOf(o)]
         /\ rc' = [rc EXCEPT ![o] = 1]
         /\ held' = [held EXCEPT ![o] = @ + 1]
      \/ /\ blocks' = [blocks EXCEPT ![o] = {}]
         /\ rc' = rc /\ held' = held
  BY <1>2, AllocatedAll DEF Create, Own
<1>6. \A q \in Objs : q # o => blocks'[q] = blocks[q] /\ rc'[q] = rc[q] /\ held'[q] = held[q]
  BY <1>2, <1>5 DEF TypeOK
<1>7. \/ rc'[o] = 1 /\ held'[o] = 1 /\ "object" \in blocks'[o]
      \/ rc'[o] = 0 /\ held'[o] = 0 /\ blocks'[o] = {}
  <2>1. "object" \in PartsOf(o)
    BY DEF PartsOf, Parts
  <2>2. QED
    BY <1>2, <1>4, <1>5, <2>1 DEF TypeOK
<1>8. Places' = Places /\ \A p \in Places : elems'[p[1]][p[2]] = elems[p[1]][p[2]]
  <2>1. \A a \in Arrays : a # o => (a \in LiveArrays' <=> a \in LiveArrays)
    BY <1>6, KindsOfValues DEF LiveArrays, Live
  <2>2. o \notin LiveArrays /\ LiveArrays \subseteq Arrays /\ LiveArrays' \subseteq Arrays
    BY <1>1 DEF LiveArrays
  <2>3. o \in Arrays => DOMAIN elems'[o] = {}
    <3>1. DOMAIN <<>> = {}
      OBVIOUS
    <3>2. QED
      BY <3>1
  <2>4. \A p : p \in PlacesOf(LiveArrays', elems') <=> p \in PlacesOf(LiveArrays, elems)
    BY <2>1, <2>2, <2>3, InPlacesOf
  <2>5. Places' = Places
    BY <2>4, PlacesAreOf
  <2>6. \A p \in Places : p[1] \in LiveArrays
    BY <1>2, PlaceParts
  <2>7. QED
    BY <2>2, <2>5, <2>6
<1>9. \A q \in Objs : held'[q] \in Nat /\ rc'[q] - held'[q] = rc[q] - held[q] /\ rc'[q] \in Nat
  BY <1>2, <1>3, <1>4, <1>6, <1>7
<1>10. ReferencesCounted'
  BY <1>8, <1>9, PlacesKept
<1>11. Lifecycle'
  <2>1. ASSUME NEW q \in Objs
        PROVE  IF rc'[q] > 0 THEN "object" \in blocks'[q] /\ q \notin freed'
               ELSE "object" \notin blocks'[q] /\ (q \notin freed' => blocks'[q] = {})
    <3>1. CASE q = o
      BY <1>1, <1>7, <3>1
    <3>2. CASE q # o
      BY <1>1, <1>6, <3>2 DEF IInv, Lifecycle, Live
    <3>3. QED
      BY <3>1, <3>2
  <2>2. QED
    BY <2>1 DEF Lifecycle, Live
<1>12. \A q \in Objs : held'[q] <= B
  <2>1. 1 <= B
    BY BoundsAssumption
  <2>2. QED
    BY <1>6, <1>7, <2>1 DEF IInv, Within
<1>13. QED
  BY <1>10, <1>11, <1>12

LEMMA CreateStringKeepsCounts ==
  ASSUME NEW B \in Nat, IInv(B), MaxHeld <= B, NEW o \in Objs, NEW str,
         zynkCreateString(o, str)
  PROVE  IInv(B)'
<1>1. o \notin Arrays /\ Create(o) /\ UNCHANGED <<elems, capacity, data>>
  BY KindsAssumption DEF zynkCreateString, arrays
<1>2. ReferencesCounted' /\ Lifecycle' /\ \A q \in Objs : held'[q] <= B
  BY <1>1, CreateKeepsCounts
<1>3. TypeOK'
  BY CreateStringKeepsTypes DEF IInv
<1>4. QED
  BY <1>1, <1>2, <1>3 DEF IInv, Within

LEMMA CreateNativeKeepsCounts ==
  ASSUME NEW B \in Nat, IInv(B), MaxHeld <= B, NEW o \in Objs, zynkCreateNativeFunction(o)
  PROVE  IInv(B)'
<1>1. o \notin Arrays /\ Create(o) /\ UNCHANGED <<elems, capacity, data>>
  BY KindsAssumption DEF zynkCreateNativeFunction, contents
<1>2. ReferencesCounted' /\ Lifecycle' /\ \A q \in Objs : held'[q] <= B
  BY <1>1, CreateKeepsCounts
<1>3. TypeOK'
  BY CreateNativeKeepsTypes DEF IInv
<1>4. QED
  BY <1>1, <1>2, <1>3 DEF IInv, Within

LEMMA CreateArrayKeepsCounts ==
  ASSUME NEW B \in Nat, IInv(B), MaxHeld <= B, NEW o \in Objs, NEW n \in Requests,
         zynkCreateArray(o, n)
  PROVE  IInv(B)'
<1>1. /\ o \in Arrays /\ Create(o)
      /\ elems' = [elems EXCEPT ![o] = <<>>]
      /\ capacity' = [capacity EXCEPT ![o] = IF n = 0 THEN MinCapacity ELSE n]
  BY DEF zynkCreateArray
<1>2. \A a \in Arrays : IF a = o THEN elems'[a] = <<>> ELSE elems'[a] = elems[a]
  BY <1>1 DEF IInv, TypeOK
<1>3. ReferencesCounted' /\ Lifecycle' /\ \A q \in Objs : held'[q] <= B
  BY <1>1, <1>2, CreateKeepsCounts
<1>4. TypeOK'
  BY CreateArrayKeepsTypes DEF IInv
<1>5. \A a \in Arrays : capacity'[a] <= MaxCapacity
  BY <1>1, MaxCapacityIsMax DEF IInv, Within, TypeOK
<1>6. QED
  BY <1>3, <1>4, <1>5 DEF IInv, Within
LEMMA PlacesOfBounded ==
  ASSUME NEW live, live \subseteq Arrays, NEW el,
         \A a \in Arrays : /\ DOMAIN el[a] = 1 .. Len(el[a]) /\ Len(el[a]) \in Nat
                           /\ Len(el[a]) <= MaxCapacity
  PROVE  /\ IsFiniteSet(PlacesOf(live, el))
         /\ Cardinality(PlacesOf(live, el)) \in Nat
         /\ Cardinality(PlacesOf(live, el)) <= Cardinality(Arrays) * MaxCapacity
<1> DEFINE All == Arrays \X (1 .. MaxCapacity)
           P == PlacesOf(live, el)
<1>1. MaxCapacity \in Nat /\ IsFiniteSet(Arrays)
  BY MaxCapacityIsMax, ArraysAreFinite
<1>2. IsFiniteSet(1 .. MaxCapacity) /\ Cardinality(1 .. MaxCapacity) = MaxCapacity
  BY <1>1, FS_Interval
<1>3. IsFiniteSet(All) /\ Cardinality(All) = Cardinality(Arrays) * MaxCapacity
  BY <1>1, <1>2, FS_Product
<1>4. ASSUME NEW p \in P
      PROVE  p \in All
  <2>1. p[1] \in live /\ p[2] \in DOMAIN el[p[1]] /\ p = <<p[1], p[2]>>
    BY InPlacesOf
  <2>2. p[1] \in Arrays /\ p[2] \in 1 .. MaxCapacity
    BY <1>1, <2>1
  <2>3. QED
    BY <2>1, <2>2
<1>5. P \in SUBSET All
  BY <1>4
<1> HIDE DEF All, P
<1>6. IsFiniteSet(P) /\ Cardinality(P) \in Nat /\ Cardinality(P) <= Cardinality(All)
  BY <1>3, <1>5, FS_Subset, FS_CardinalityType
<1>7. QED
  BY <1>3, <1>6 DEF P

LEMMA PushKeepsCounts ==
  ASSUME NEW B \in Nat, IInv(B), Fits(B), NEW a \in Arrays, NEW v \in Values,
         zynkArrayPush(a, v)
  PROVE  IInv(B)'
<1>1. TypeOK /\ TypeOK'
  BY PushKeepsTypes DEF IInv
<1>2. CASE ~ data[a]
  BY <1>2, CrashKeepsCounts DEF zynkArrayPush
<1>3. CASE data[a]
  <2> DEFINE n == Len(elems[a]) + 1
             q == <<a, n>>
  <2>1. /\ elems' = [elems EXCEPT ![a] = Append(@, v)]
        /\ rc' = zynk_retain(rc, v)
        /\ capacity' = capacity
        /\ UNCHANGED <<freed, blocks, data, text, room, crashed, held>>
        /\ Live(a) /\ Usable(v) /\ Len(elems[a]) < capacity[a]
    <3>1. ~ Full(a)
      BY PushHasRoom
    <3>2. /\ elems' = [elems EXCEPT ![a] = Append(@, v)]
          /\ rc' = zynk_retain(rc, v)
          /\ capacity' = [capacity EXCEPT ![a] = @]
          /\ UNCHANGED <<freed, blocks, data, text, room, crashed, held>>
          /\ Live(a) /\ Usable(v)
      BY <1>3, <3>1 DEF zynkArrayPush
    <3>3. capacity' = capacity /\ capacity[a] \in Nat /\ elems[a] \in Seq(Values)
      BY <1>1, <3>2 DEF TypeOK
    <3>4. Len(elems[a]) < capacity[a]
      BY <3>1, <3>3 DEF Full
    <3>5. QED
      BY <3>2, <3>3, <3>4
  <2>2. elems[a] \in Seq(Values) /\ Len(elems[a]) \in Nat /\ elems'[a] = Append(elems[a], v)
    BY <1>1, <2>1 DEF TypeOK
  <2>3. /\ DOMAIN elems[a] = 1 .. n - 1 /\ DOMAIN elems'[a] = 1 .. n /\ n \in Nat \ {0}
        /\ elems'[a][n] = v
        /\ \A i \in DOMAIN elems[a] : elems'[a][i] = elems[a][i]
    BY <2>2
  <2>4. \A b \in Arrays : b # a => elems'[b] = elems[b]
    BY <1>1, <2>1 DEF TypeOK
  <2>5. LiveArrays' = LiveArrays /\ a \in LiveArrays /\ LiveArrays \subseteq Arrays
    BY <2>1 DEF LiveArrays, Live
  <2>6. Places' = Places \union {q} /\ q \notin Places
    <3>1. \A p : p \in PlacesOf(LiveArrays', elems')
                   <=> p \in PlacesOf(LiveArrays, elems) \/ p = q
      <4>1. ASSUME NEW p, p \in PlacesOf(LiveArrays', elems')
            PROVE  p \in PlacesOf(LiveArrays, elems) \/ p = q
        <5>1. p[1] \in LiveArrays /\ p[2] \in DOMAIN elems'[p[1]] /\ p = <<p[1], p[2]>>
          BY <2>5, <4>1, InPlacesOf
        <5>2. CASE p[1] = a
          <6>1. p[2] \in 1 .. n /\ (p[2] \in 1 .. n - 1 \/ p[2] = n)
            BY <2>3, <5>1, <5>2
          <6> HIDE DEF n
          <6>2. QED
            BY <2>3, <5>1, <5>2, <6>1, InPlacesOf
        <5>3. CASE p[1] # a
          BY <2>4, <2>5, <5>1, <5>3, InPlacesOf
        <5>4. QED
          BY <5>2, <5>3
      <4>2. ASSUME NEW p, p \in PlacesOf(LiveArrays, elems)
            PROVE  p \in PlacesOf(LiveArrays', elems')
        <5>1. p[1] \in LiveArrays /\ p[2] \in DOMAIN elems[p[1]] /\ p = <<p[1], p[2]>>
          BY <4>2, InPlacesOf
        <5>2. p[2] \in DOMAIN elems'[p[1]]
          BY <2>3, <2>4, <2>5, <5>1
        <5>3. QED
          BY <2>5, <5>1, <5>2, InPlacesOf
      <4>3. q \in PlacesOf(LiveArrays', elems')
        <5>1. q[1] = a /\ q[2] = n /\ n \in DOMAIN elems'[a]
          BY <2>3
        <5>2. QED
          BY <2>5, <5>1, InPlacesOf
      <4>4. QED
        BY <4>1, <4>2, <4>3
    <3>2. q \notin PlacesOf(LiveArrays, elems)
      <4>1. q[1] = a /\ q[2] = n /\ n \notin DOMAIN elems[a]
        BY <2>3
      <4>2. QED
        BY <4>1, InPlacesOf
    <3>3. QED
      BY <3>1, <3>2, PlacesAreOf
  <2> HIDE DEF n
  <2>7. \A p \in Places : elems[p[1]][p[2]] = elems'[p[1]][p[2]]
    BY <1>1, <2>3, <2>4, PlaceParts
  <2>8. /\ IsFiniteSet(Places) /\ Cardinality(Places) \in Nat
        /\ Cardinality(Places) + 1 <= Cardinality(Arrays) * MaxCapacity
    <3>1. IsFiniteSet(Places) /\ Cardinality(Places) \in Nat
      BY <1>1, PlacesBounded DEF IInv, Within
    <3>2. \A b \in Arrays : /\ DOMAIN elems'[b] = 1 .. Len(elems'[b]) /\ Len(elems'[b]) \in Nat
                            /\ Len(elems'[b]) <= MaxCapacity
      <4>1. SUFFICES ASSUME NEW b \in Arrays
                     PROVE  /\ DOMAIN elems'[b] = 1 .. Len(elems'[b]) /\ Len(elems'[b]) \in Nat
                            /\ Len(elems'[b]) <= MaxCapacity
        OBVIOUS
      <4>2. elems'[b] \in Seq(Values) /\ Len(elems'[b]) <= capacity'[b] /\ capacity'[b] \in Nat
        BY <1>1 DEF TypeOK
      <4>3. capacity'[b] <= MaxCapacity /\ MaxCapacity \in Nat
        BY <2>1, MaxCapacityIsMax DEF IInv, Within
      <4>4. Len(elems'[b]) \in Nat /\ DOMAIN elems'[b] = 1 .. Len(elems'[b])
        BY <4>2
      <4>5. QED
        BY <4>2, <4>3, <4>4
    <3>3. Cardinality(Places') <= Cardinality(Arrays) * MaxCapacity
      BY <2>5, <3>2, PlacesOfBounded, PlacesAreOf
    <3>4. Cardinality(Places') = Cardinality(Places) + 1
      BY <2>6, <3>1, FS_AddElement
    <3>5. QED
      BY <3>1, <3>3, <3>4
  <2>9. \A o \in Objs : /\ rc[o] = held[o] + Cardinality(Refer(Places, elems, o))
                        /\ held[o] \in Nat /\ held[o] <= B
                        /\ Cardinality(Refer(Places, elems, o)) \in Nat
                        /\ Cardinality(Refer(Places, elems, o)) <= Cardinality(Places)
    BY <1>1, CountsOfPlaces DEF IInv, ReferencesCounted, Within, TypeOK
  <2>10. \A o : Cardinality(Refer(Places', elems', o))
                  = Cardinality(Refer(Places, elems, o)) + (IF o = v THEN 1 ELSE 0)
    <3>1. \A o : Refer(Places, elems', o) = Refer(Places, elems, o)
      BY <2>7, ReferAgrees
    <3>2. elems'[q[1]][q[2]] = v
      BY <2>3
    <3> DEFINE el == elems'
    <3> HIDE DEF q, el
    <3>3. \A o : Cardinality(Refer(Places', el, o))
                   = Cardinality(Refer(Places, el, o))
                     + (IF o = el[q[1]][q[2]] THEN 1 ELSE 0)
      BY <2>6, <2>8, ReferOneMore
    <3> USE DEF el
    <3>4. QED
      BY <3>1, <3>2, <3>3
  <2>11. v \in Objs => rc[v] > 0 /\ (rc[v] + 1) % Word = rc[v] + 1
    <3>1. SUFFICES ASSUME v \in Objs
                   PROVE  rc[v] > 0 /\ (rc[v] + 1) % Word = rc[v] + 1
      OBVIOUS
    <3>2. rc[v] > 0
      BY <2>1, <3>1, UsableIsLive
    <3> DEFINE m == held[v]
               k == Cardinality(Refer(Places, elems, v)) + 1
    <3>3. m \in Nat /\ m <= B /\ k \in Nat /\ k <= Cardinality(Arrays) * MaxCapacity
          /\ rc[v] + 1 = m + k
      BY <2>8, <2>9, <3>1, CallsIsNat
    <3> HIDE DEF m, k
    <3>4. (m + k) % Word = m + k
      BY <3>3, OneMoreFits
    <3>5. QED
      BY <3>2, <3>3, <3>4
  <2>12. \A o \in Objs : rc'[o] = rc[o] + (IF o = v THEN 1 ELSE 0) /\ rc[o] \in Nat
    <3>1. rc' = zynk_retain(rc, v) /\ rc \in [Objs -> 0 .. Word - 1]
      BY <1>1, <2>1 DEF TypeOK
    <3>2. \A o \in Objs : rc'[o] = IF o = v THEN (rc[o] + 1) % Word ELSE rc[o]
      BY <3>1 DEF zynk_retain
    <3>3. \A o \in Objs : rc[o] \in Nat
      BY <3>1, WordAssumption
    <3>4. QED
      BY <2>11, <3>2, <3>3
  <2>13. ReferencesCounted'
    <3>1. ASSUME NEW o \in Objs
          PROVE  rc'[o] = held'[o] + Cardinality(Refer(Places', elems', o))
      <4> DEFINE one == IF o = v THEN 1 ELSE 0
                 k == Cardinality(Refer(Places, elems, o))
      <4>1. /\ rc'[o] = rc[o] + one /\ rc[o] = held[o] + k /\ held'[o] = held[o]
            /\ Cardinality(Refer(Places', elems', o)) = k + one
            /\ held[o] \in Nat /\ k \in Nat /\ one \in Nat
        BY <2>1, <2>9, <2>10, <2>12
      <4> HIDE DEF one, k
      <4>2. QED
        BY <4>1
    <3>2. QED
      BY <3>1 DEF ReferencesCounted, References, Refer
  <2>14. Lifecycle'
    <3>1. \A o \in Objs : rc'[o] > 0 <=> rc[o] > 0
      BY <2>11, <2>12
    <3>2. QED
      BY <2>1, <3>1 DEF IInv, Lifecycle, Live
  <2>15. Within(B)'
    BY <2>1 DEF IInv, Within
  <2>16. QED
    BY <1>1, <2>13, <2>14, <2>15 DEF IInv
<1>4. QED
  BY <1>2, <1>3

LEMMA PopKeepsCounts ==
  ASSUME NEW B \in Nat, IInv(B), MaxHeld <= B, NEW a \in Arrays, zynkArrayPop(a)
  PROVE  IInv(B)'
<1>1. TypeOK /\ TypeOK'
  BY PopKeepsTypes DEF IInv
<1>2. CASE ~ data[a]
  BY <1>2, CrashKeepsCounts DEF zynkArrayPop
<1>3. CASE data[a]
  <2> DEFINE n == Len(elems[a])
             q == <<a, n>>
             v == elems[a][n]
  <2>1. /\ elems' = [elems EXCEPT ![a] = Front(@)]
        /\ blocks' \in {blocks, [blocks EXCEPT ![a] = @ \ {"data"}]}
        /\ Own(Last(elems[a])) /\ Bounded(Last(elems[a]))
        /\ UNCHANGED <<rc, freed, capacity>>
        /\ Live(a) /\ elems[a] # <<>>
    BY <1>3 DEF zynkArrayPop, reallocate
  <2>2. /\ elems[a] \in Seq(Values) /\ n \in Nat \ {0} /\ Last(elems[a]) = v
        /\ DOMAIN elems[a] = 1 .. n
        /\ elems'[a] = Front(elems[a]) /\ v \in Values
    <3>1. elems[a] \in Seq(Values) /\ elems'[a] = Front(elems[a])
      BY <1>1, <2>1 DEF TypeOK
    <3>2. n \in Nat \ {0} /\ Last(elems[a]) = v /\ v \in Values
      BY <2>1, <3>1, FrontAndLast
    <3>3. QED
      BY <3>1, <3>2
  <2>3. /\ DOMAIN elems'[a] = 1 .. n - 1
        /\ \A i \in DOMAIN elems'[a] : elems'[a][i] = elems[a][i]
    <3>1. Front(elems[a]) \in Seq(Values) /\ Len(Front(elems[a])) = n - 1
          /\ \A i \in 1 .. n - 1 : Front(elems[a])[i] = elems[a][i]
      BY <2>1, <2>2, FrontAndLast
    <3>2. DOMAIN elems'[a] = 1 .. n - 1
      BY <2>2, <3>1
    <3>3. QED
      BY <2>2, <3>1, <3>2
  <2>4. \A b \in Arrays : b # a => elems'[b] = elems[b]
    BY <1>1, <2>1 DEF TypeOK
  <2>5. \A o \in Objs : /\ "object" \in blocks'[o] <=> "object" \in blocks[o]
                        /\ blocks[o] = {} => blocks'[o] = {}
    <3>1. \A o \in Objs : blocks'[o] = blocks[o] \/ blocks'[o] = blocks[o] \ {"data"}
      BY <1>1, <2>1 DEF TypeOK
    <3>2. QED
      BY <3>1
  <2>6. LiveArrays' = LiveArrays /\ a \in LiveArrays /\ LiveArrays \subseteq Arrays
    BY <2>1, <2>5, KindsOfValues DEF LiveArrays, Live
  <2>7. Places = Places' \union {q} /\ q \notin Places'
    <3>1. \A p : p \in PlacesOf(LiveArrays, elems)
                   <=> p \in PlacesOf(LiveArrays', elems') \/ p = q
      <4>1. ASSUME NEW p, p \in PlacesOf(LiveArrays, elems)
            PROVE  p \in PlacesOf(LiveArrays', elems') \/ p = q
        <5>1. p[1] \in LiveArrays /\ p[2] \in DOMAIN elems[p[1]] /\ p = <<p[1], p[2]>>
          BY <4>1, InPlacesOf
        <5>2. CASE p[1] = a
          <6>1. p[2] \in 1 .. n - 1 \/ p[2] = n
            BY <2>2, <5>1, <5>2
          <6> HIDE DEF n
          <6>2. QED
            BY <2>3, <2>6, <5>1, <5>2, <6>1, InPlacesOf
        <5>3. CASE p[1] # a
          BY <2>4, <2>6, <5>1, <5>3, InPlacesOf
        <5>4. QED
          BY <5>2, <5>3
      <4>2. ASSUME NEW p, p \in PlacesOf(LiveArrays', elems')
            PROVE  p \in PlacesOf(LiveArrays, elems)
        <5>1. p[1] \in LiveArrays /\ p[2] \in DOMAIN elems'[p[1]] /\ p = <<p[1], p[2]>>
          BY <2>6, <4>2, InPlacesOf
        <5>2. p[2] \in DOMAIN elems[p[1]]
          <6>1. DOMAIN elems'[a] \subseteq DOMAIN elems[a]
            BY <2>2, <2>3
          <6>2. QED
            BY <2>4, <2>6, <5>1, <6>1
        <5>3. QED
          BY <5>1, <5>2, InPlacesOf
      <4>3. q \in PlacesOf(LiveArrays, elems)
        <5>1. q[1] = a /\ q[2] = n /\ n \in DOMAIN elems[a]
          BY <2>2
        <5>2. QED
          BY <2>6, <5>1, InPlacesOf
      <4>4. QED
        BY <4>1, <4>2, <4>3
    <3>2. q \notin PlacesOf(LiveArrays', elems')
      <4>1. q[1] = a /\ q[2] = n /\ n \notin DOMAIN elems'[a]
        BY <2>2, <2>3
      <4>2. QED
        BY <4>1, InPlacesOf
    <3>3. QED
      BY <3>1, <3>2, PlacesAreOf
  <2> HIDE DEF n
  <2>8. \A p \in Places' : elems[p[1]][p[2]] = elems'[p[1]][p[2]]
    <3>1. \A p \in Places' : p[1] \in LiveArrays /\ p[2] \in DOMAIN elems'[p[1]]
      BY <2>6, PlacesAreOf, InPlacesOf
    <3>2. ASSUME NEW p \in Places'
          PROVE  elems[p[1]][p[2]] = elems'[p[1]][p[2]]
      <4>1. CASE p[1] = a
        BY <2>3, <3>1, <4>1
      <4>2. CASE p[1] # a
        BY <2>4, <2>6, <3>1, <4>2
      <4>3. QED
        BY <4>1, <4>2
    <3>3. QED
      BY <3>2
  <2>9. IsFiniteSet(Places) /\ IsFiniteSet(Places')
    <3>1. IsFiniteSet(Places)
      BY <1>1, PlacesBounded DEF IInv, Within
    <3>2. QED
      BY <2>7, <3>1, FS_Subset
  <2>10. \A o \in Objs : /\ rc[o] = held[o] + Cardinality(Refer(Places, elems, o))
                         /\ held[o] \in Nat /\ held[o] <= B
                         /\ Cardinality(Refer(Places', elems', o)) \in Nat
    <3>1. \A o \in Objs : rc[o] = held[o] + Cardinality(Refer(Places, elems, o))
      BY CountsOfPlaces DEF IInv, ReferencesCounted
    <3>2. \A o : Cardinality(Refer(Places', elems', o)) \in Nat
      BY <2>9, ReferFinite
    <3>3. QED
      BY <1>1, <3>1, <3>2 DEF IInv, Within, TypeOK
  <2>11. \A o : Cardinality(Refer(Places, elems, o))
                  = Cardinality(Refer(Places', elems', o)) + (IF o = v THEN 1 ELSE 0)
    <3>1. \A o : Refer(Places', elems, o) = Refer(Places', elems', o)
      BY <2>8, ReferAgrees
    <3>2. elems[q[1]][q[2]] = v
      OBVIOUS
    <3> DEFINE S == Places'
    <3>3. IsFiniteSet(S) /\ q \notin S /\ Places = S \union {q}
      BY <2>7, <2>9
    <3> HIDE DEF q, v, S
    <3>4. \A o : Cardinality(Refer(Places, elems, o))
                   = Cardinality(Refer(S, elems, o))
                     + (IF o = elems[q[1]][q[2]] THEN 1 ELSE 0)
      BY <3>3, ReferOneMore
    <3>5. QED
      BY <3>1, <3>2, <3>4 DEF S
  <2> HIDE DEF v
  <2>12. \A o \in Objs : /\ held'[o] = held[o] + (IF o = v THEN 1 ELSE 0)
                         /\ held'[o] <= B
    <3>1. v \in Objs => held[v] < MaxHeld
      BY <2>1, <2>2 DEF Bounded
    <3>2. \A o \in Objs : held'[o] = held[o] + (IF o = v THEN 1 ELSE 0)
      BY <1>1, <2>1, <2>2 DEF Own, TypeOK
    <3>3. QED
      BY <2>10, <3>1, <3>2, BoundsAssumption
  <2>13. ReferencesCounted'
    <3>1. ASSUME NEW o \in Objs
          PROVE  rc'[o] = held'[o] + Cardinality(Refer(Places', elems', o))
      <4> DEFINE one == IF o = v THEN 1 ELSE 0
                 k == Cardinality(Refer(Places', elems', o))
      <4>1. /\ held'[o] = held[o] + one /\ rc'[o] = rc[o]
            /\ rc[o] = held[o] + Cardinality(Refer(Places, elems, o))
            /\ Cardinality(Refer(Places, elems, o)) = k + one
            /\ held[o] \in Nat /\ k \in Nat /\ one \in Nat
        BY <2>1, <2>10, <2>11, <2>12
      <4> HIDE DEF one, k
      <4>2. rc'[o] = held'[o] + k
        BY <4>1
      <4>3. QED
        BY <4>2 DEF k
    <3>2. QED
      BY <3>1 DEF ReferencesCounted, References, Refer
  <2>14. Lifecycle'
    BY <2>1, <2>5 DEF IInv, Lifecycle, Live
  <2>15. Within(B)'
    BY <2>1, <2>12 DEF IInv, Within
  <2>16. QED
    BY <1>1, <2>13, <2>14, <2>15 DEF IInv
<1>4. QED
  BY <1>2, <1>3
LEMMA StartBalanced ==
  ASSUME NEW C, NEW h, NEW v \in Values,
         \A o \in Objs : rc[o] = h[o] + Cardinality(Refer(C, elems, o))
                                 + (IF o = v THEN 1 ELSE 0),
         TypeOK
  PROVE  Balanced(Start(v), C, h)
<1>1. Start(v).rc = rc /\ Start(v).todo = <<v>> /\ Start(v).freed = {}
  BY DEF Start
<1>2. \A o \in Objs : rc[o] \in Nat
  BY WordAssumption DEF TypeOK
<1>3. Outside(C, {}) = C
  BY DEF Outside
<1>4. \A o : Occurrences(<<v>>, o) = IF o = v THEN 1 ELSE 0
  BY OccurrencesOne
<1>5. \A o \in Objs : o \notin {} /\ ~ (rc[o] = 0 /\ rc[o] > 0) /\ rc[o] <= rc[o]
  BY <1>2
<1>6. \A o \in Objs : rc[o] = h[o] + Cardinality(Refer(C, elems, o)) + Occurrences(<<v>>, o)
  BY <1>4
<1> DEFINE w == Start(v)
<1> HIDE DEF w
<1>7. QED
  BY <1>1, <1>3, <1>5, <1>6 DEF Balanced, w

(* What a cascade answers when nothing is left to do. *)
LEMMA CascadeCounts ==
  ASSUME NEW c \in Work, NEW C, NEW h, Balanced(c, C, h), c.todo = <<>>,
         IsFiniteSet(C), h \in [Objs -> Nat]
  PROVE  \A o \in Objs : c.rc[o] = h[o] + Cardinality(Refer(Outside(C, c.freed), elems, o))
<1>1. \A o \in Objs : c.rc[o] = h[o] + Cardinality(Refer(Outside(C, c.freed), elems, o))
                                + Occurrences(<<>>, o)
  BY DEF Balanced
<1>2. \A o : Occurrences(<<>>, o) = 0
  BY OccurrencesEmpty
<1>3. Outside(C, c.freed) \in SUBSET C
  BY DEF Outside
<1>4. \A o : Cardinality(Refer(Outside(C, c.freed), elems, o)) \in Nat
  BY <1>3, ReferFinite
<1>5. ASSUME NEW o \in Objs
      PROVE  c.rc[o] = h[o] + Cardinality(Refer(Outside(C, c.freed), elems, o))
  <2> DEFINE k == Cardinality(Refer(Outside(C, c.freed), elems, o))
  <2>1. c.rc[o] = h[o] + k + 0 /\ h[o] \in Nat /\ k \in Nat
    BY <1>1, <1>2, <1>4
  <2> HIDE DEF k
  <2>2. c.rc[o] = h[o] + k
    BY <2>1
  <2>3. QED
    BY <2>2 DEF k
<1>6. QED
  BY <1>5

LEMMA ReleaseKeepsCounts ==
  ASSUME NEW B \in Nat, IInv(B), NEW o \in Objs, Release(o)
  PROVE  IInv(B)'
<1> DEFINE c == Cascade(o)
           h == [held EXCEPT ![o] = @ - 1]
<1>1. /\ held[o] > 0 /\ After(c, c.rc) /\ held' = h
      /\ UNCHANGED <<elems, capacity, data, text, room>>
  BY DEF Release, contents
<1>2. TypeOK /\ TypeOK' /\ Lifecycle /\ \A a \in Arrays : capacity[a] <= MaxCapacity
  BY ReleaseKeepsTypes DEF IInv, Within
<1>3. h \in [Objs -> Nat] /\ \A q \in Objs : h[q] = held[q] - (IF q = o THEN 1 ELSE 0)
  BY <1>1, <1>2 DEF TypeOK
<1>4. Counting(Places, h)
  BY <1>3 DEF Counting
<1>5. o \in Values
  BY KindsOfValues
<1>6. \A q \in Objs : rc[q] = h[q] + Cardinality(Refer(Places, elems, q))
                              + (IF q = o THEN 1 ELSE 0)
  <2>1. SUFFICES ASSUME NEW q \in Objs
                 PROVE  rc[q] = h[q] + Cardinality(Refer(Places, elems, q))
                                + (IF q = o THEN 1 ELSE 0)
    OBVIOUS
  <2> DEFINE k == Cardinality(Refer(Places, elems, q))
  <2>2. rc[q] = held[q] + k /\ k \in Nat
    BY CountsOfPlaces DEF IInv, ReferencesCounted
  <2>3. held[q] \in Nat /\ h[q] = held[q] - (IF q = o THEN 1 ELSE 0)
    BY <1>2, <1>3 DEF TypeOK
  <2> HIDE DEF k, h
  <2>4. rc[q] = h[q] + k + (IF q = o THEN 1 ELSE 0)
    BY <2>2, <2>3
  <2>5. QED
    BY <2>4 DEF k
<1>7. Balanced(Start(o), Places, h)
  <2> HIDE DEF h
  <2>1. QED
    BY <1>2, <1>5, <1>6, StartBalanced
<1>8. c \in Work /\ c.todo = <<>> /\ Balanced(c, Places, h)
  <2> HIDE DEF h
  <2>1. QED
    BY <1>2, <1>4, <1>5, <1>7, CascadeGivesBack
<1> HIDE DEF c, h
<1>9. \A q \in Objs : c.rc[q] = h[q] + Cardinality(Refer(Outside(Places, c.freed), elems, q))
  <2>1. IsFiniteSet(Places)
    BY <1>2, PlacesBounded
  <2>2. QED
    BY <1>3, <1>8, <2>1, CascadeCounts
<1>10. Lifecycle' /\ LiveArrays' = LiveArrays \ c.freed
  <2>1. c.rc \in [Objs -> 0 .. Word - 1]
    BY <1>8 DEF Work
  <2>2. QED
    BY <1>1, <1>2, <1>8, <2>1, AfterKeepsLifecycle
<1>11. Places' = Outside(Places, c.freed)
  <2>1. \A p : p \in PlacesOf(LiveArrays', elems')
                 <=> p \in PlacesOf(LiveArrays, elems) /\ p[1] \notin c.freed
    BY <1>1, <1>10, InPlacesOf
  <2>2. QED
    BY <2>1, PlacesAreOf DEF Outside
<1>12. ReferencesCounted'
  <2>1. \A q : References(q)' = held'[q] + Cardinality(Refer(Places', elems', q))
    BY DEF References, Refer
  <2>2. \A q \in Objs : rc'[q] = held'[q] + Cardinality(Refer(Places', elems', q))
    BY <1>1, <1>9, <1>11 DEF After
  <2>3. QED
    BY <2>1, <2>2 DEF ReferencesCounted
<1>13. Within(B)'
  <2>1. \A q \in Objs : held[q] \in Nat /\ held[q] <= B
    BY <1>2 DEF IInv, Within, TypeOK
  <2>2. \A q \in Objs : held'[q] <= B
    BY <1>1, <1>3, <2>1
  <2>3. QED
    BY <1>1, <1>2, <2>2 DEF Within
<1>14. QED
  BY <1>2, <1>10, <1>12, <1>13 DEF IInv

(* The releases of a set end neither the array, which the client keeps in    *)
(* memory, nor, by the hypothesis, the new element.                          *)
(* What a cascade that has ended leaves to its holders: what h counts, and   *)
(* the values of arrays h counts, are still there.                           *)
LEMMA HeldSurvive ==
  ASSUME TypeOK, NEW C, NEW h, C \subseteq Places, IsFiniteSet(C), h \in [Objs -> Nat],
         NEW c \in Work, c.todo = <<>>, Balanced(c, C, h)
  PROVE  /\ \A o \in Objs : h[o] > 0 => o \notin c.freed
         /\ \A p \in C : h[p[1]] > 0 => elems[p[1]][p[2]] \notin c.freed
<1> DEFINE K == Outside(C, c.freed)
<1>1. \A o \in Objs : c.rc[o] = h[o] + Cardinality(Refer(K, elems, o))
  BY CascadeCounts
<1>2. K \in SUBSET C
  BY DEF Outside
<1>3. \A o : Cardinality(Refer(K, elems, o)) \in Nat
             /\ (Refer(K, elems, o) # {} => Cardinality(Refer(K, elems, o)) > 0)
  BY <1>2, ReferFinite
<1>4. c.freed \subseteq Objs /\ \A o \in c.freed : c.rc[o] = 0
  BY DEF Work, Balanced
<1>5. ASSUME NEW o \in Objs, h[o] > 0 \/ Refer(K, elems, o) # {}
      PROVE  o \notin c.freed
  <2> DEFINE k == Cardinality(Refer(K, elems, o))
  <2>1. c.rc[o] = h[o] + k /\ h[o] \in Nat /\ k \in Nat /\ (h[o] > 0 \/ k > 0)
    BY <1>1, <1>3, <1>5
  <2> HIDE DEF k
  <2>2. c.rc[o] # 0
    BY <2>1
  <2>3. QED
    BY <1>4, <2>2
<1>6. ASSUME NEW p \in C, h[p[1]] > 0
      PROVE  elems[p[1]][p[2]] \notin c.freed
  <2>1. p[1] \in Objs
    BY PlaceParts
  <2>2. p \in K
    BY <1>5, <1>6, <2>1 DEF Outside
  <2>3. p \in Refer(K, elems, elems[p[1]][p[2]])
    BY <2>2 DEF Refer
  <2>4. QED
    BY <1>4, <1>5, <2>3
<1>7. QED
  BY <1>5, <1>6

(* The release of an element, while its array keeps the place.               *)
LEMMA CascadeOfElement ==
  ASSUME NEW B \in Nat, IInv(B), NEW a \in Arrays, NEW i \in DOMAIN elems[a],
         Live(a), Usable(a)
  PROVE  LET q == <<a, i>>
             C == Places \ {q}
             c == Cascade(elems[a][i])
         IN  /\ IsFiniteSet(Places) /\ IsFiniteSet(C) /\ held \in [Objs -> Nat]
             /\ q \in Places /\ Counting(C, held)
             /\ c \in Work /\ c.todo = <<>> /\ Balanced(c, C, held)
<1> DEFINE old == elems[a][i]
           c == Cascade(old)
           q == <<a, i>>
           C == Places \ {q}
<1>1. TypeOK /\ Lifecycle /\ \A b \in Arrays : capacity[b] <= MaxCapacity
  BY DEF IInv, Within
<1>2. old \in Values
  BY <1>1 DEF TypeOK
<1>3. IsFiniteSet(Places) /\ IsFiniteSet(C) /\ held \in [Objs -> Nat] /\ a \in Objs
  <2>1. IsFiniteSet(Places)
    BY <1>1, PlacesBounded
  <2>2. C \in SUBSET Places
    OBVIOUS
  <2>3. QED
    BY <1>1, <2>1, <2>2, FS_Subset, KindsOfValues DEF TypeOK
<1>4. a \in LiveArrays /\ q \in Places /\ Places = C \union {q} /\ q \notin C
  <2>1. a \in LiveArrays
    BY DEF LiveArrays
  <2>2. q[1] = a /\ q[2] = i
    OBVIOUS
  <2>3. q \in PlacesOf(LiveArrays, elems)
    BY <1>2, <2>1, <2>2, InPlacesOf
  <2>4. QED
    BY <2>1, <2>3, PlacesAreOf
<1>5. Counting(C, held)
  <2>1. Pinned(a, C, held)
    <3>1. CASE held[a] > 0
      BY <3>1 DEF Pinned
    <3>2. CASE ~ (held[a] > 0)
      <4>1. PICK p \in Places : held[p[1]] > 0 /\ elems[p[1]][p[2]] = a
        BY <1>1, <1>3, <3>2, BorrowedIsPlaced DEF Usable
      <4>2. p \in C
        BY <3>2, <4>1
      <4>3. QED
        BY <4>1, <4>2 DEF Pinned
    <3>3. QED
      BY <3>1, <3>2
  <2>2. \A p \in Places \ C : p[1] = a
    BY <1>4
  <2>3. QED
    BY <1>3, <2>1, <2>2 DEF Counting
<1>6. \A o \in Objs : rc[o] = held[o] + Cardinality(Refer(C, elems, o))
                              + (IF o = old THEN 1 ELSE 0)
  <2>1. \A o : Cardinality(Refer(Places, elems, o))
                 = Cardinality(Refer(C, elems, o)) + (IF o = elems[q[1]][q[2]] THEN 1 ELSE 0)
    <3> HIDE DEF C, q
    <3>1. QED
      BY <1>3, <1>4, ReferOneMore
  <2>2. elems[q[1]][q[2]] = old
    OBVIOUS
  <2>3. ASSUME NEW o \in Objs
        PROVE  rc[o] = held[o] + Cardinality(Refer(C, elems, o)) + (IF o = old THEN 1 ELSE 0)
    <3> DEFINE k == Cardinality(Refer(C, elems, o))
               one == IF o = old THEN 1 ELSE 0
    <3> HIDE DEF C, q, old
    <3>1. /\ rc[o] = held[o] + Cardinality(Refer(Places, elems, o))
          /\ Cardinality(Refer(Places, elems, o)) = k + one
          /\ k \in Nat /\ one \in Nat /\ held[o] \in Nat
      <4>1. rc[o] = held[o] + Cardinality(Refer(Places, elems, o))
        BY CountsOfPlaces DEF IInv, ReferencesCounted
      <4>2. k \in Nat
        BY <1>3, ReferFinite
      <4>3. QED
        BY <1>3, <2>1, <2>2, <4>1, <4>2
    <3> HIDE DEF k, one
    <3>2. rc[o] = held[o] + k + one
      BY <3>1
    <3>3. QED
      BY <3>2 DEF k, one
  <2>4. QED
    BY <2>3
<1>7. c \in Work /\ c.todo = <<>> /\ Balanced(c, C, held)
  <2> HIDE DEF C, q, old
  <2>1. Balanced(Start(old), C, held)
    BY <1>1, <1>2, <1>6, StartBalanced
  <2>2. QED
    BY <1>1, <1>2, <1>5, <2>1, CascadeGivesBack
<1>8. QED
  BY <1>3, <1>4, <1>5, <1>7

LEMMA SetElementKeepsCounts ==
  ASSUME NEW B \in Nat, IInv(B), Fits(B), NEW a \in Arrays, NEW index \in Nat,
         NEW v \in Values, Live(a), Usable(a), v \in Objs => rc[v] > 0,
         ~ EndsNew(a, index, v), SetElement(a, index, v)
  PROVE  IInv(B)'
<1>1. TypeOK /\ TypeOK' /\ Lifecycle /\ \A b \in Arrays : capacity[b] <= MaxCapacity
  BY SetElementKeepsTypes DEF IInv, Within
<1>2. CASE elems[a] = <<>> \/ ~ data[a]
  BY <1>2, CrashKeepsCounts DEF SetElement
<1>3. CASE ~ (elems[a] = <<>> \/ ~ data[a])
  <2> DEFINE i == Locate(Len(elems[a]), index)
             old == elems[a][i]
             c == Cascade(old)
             q == <<a, i>>
             C == Places \ {q}
  <2>1. /\ After(c, zynk_retain(c.rc, v))
        /\ elems' = [elems EXCEPT ![a][i] = v]
        /\ UNCHANGED <<capacity, data, text, room, held>>
        /\ v \notin c.freed
    BY <1>3 DEF SetElement, Retained, EndsNew
  <2>2. /\ elems[a] \in Seq(Values) /\ DOMAIN elems[a] = 1 .. Len(elems[a])
        /\ i \in DOMAIN elems[a] /\ old \in Values
    <3>1. elems[a] \in Seq(Values) /\ elems[a] # <<>>
      BY <1>1, <1>3 DEF TypeOK
    <3>2. Len(elems[a]) \in Nat \ {0} /\ DOMAIN elems[a] = 1 .. Len(elems[a])
      BY <3>1
    <3>3. i \in 1 .. Len(elems[a])
      BY <3>2, LocateIsSlot
    <3>4. QED
      BY <3>1, <3>2, <3>3
  <2> HIDE DEF i
  <2>3. /\ IsFiniteSet(Places) /\ IsFiniteSet(C) /\ held \in [Objs -> Nat] /\ a \in Objs
        /\ q \in Places /\ Counting(C, held)
        /\ c \in Work /\ c.todo = <<>> /\ Balanced(c, C, held)
    BY <2>2, CascadeOfElement, KindsOfValues
  <2>4. a \in LiveArrays /\ Places = C \union {q} /\ q \notin C
    BY <2>3 DEF LiveArrays
  <2> HIDE DEF C, c, old
  <2> DEFINE K == Outside(C, c.freed)
  <2>5. \A o \in Objs : c.rc[o] = held[o] + Cardinality(Refer(K, elems, o))
    BY <2>3, CascadeCounts
  <2>6. \A o \in Objs : /\ c.rc[o] \in Nat /\ rc[o] \in Nat /\ c.rc[o] <= rc[o]
                        /\ o \in c.freed <=> c.rc[o] = 0 /\ rc[o] > 0
    BY <1>1, <2>3, WordAssumption DEF Balanced, Work, TypeOK
  <2>7. v \in Objs => c.rc[v] > 0
    BY <2>1, <2>6
  <2>8. a \notin c.freed
    <3>1. Pinned(a, C, held)
      BY <2>3, <2>4 DEF Counting
    <3>2. C \subseteq Places
      BY <2>4
    <3>3. QED
      BY <1>1, <2>3, <3>1, <3>2, HeldSurvive DEF Pinned
  <2>9. /\ elems'[a][i] = v /\ DOMAIN elems'[a] = DOMAIN elems[a]
        /\ \A j \in DOMAIN elems[a] : j # i => elems'[a][j] = elems[a][j]
        /\ \A b \in Arrays : b # a => elems'[b] = elems[b]
    BY <1>1, <2>1, <2>2 DEF TypeOK
  <2> DEFINE r == zynk_retain(c.rc, v)
  <2>10. r \in [Objs -> 0 .. Word - 1] /\ rc' = r
    BY <2>1, <2>3, RetainTyped DEF Work, After
  <2>11. Places' \subseteq Places /\ Places' = K \union {q} /\ q \notin K /\ IsFiniteSet(K)
         /\ IsFiniteSet(Places')
         /\ \A p \in K : elems[p[1]][p[2]] = elems'[p[1]][p[2]]
    <3>1. LiveArrays' = LiveArrays \ c.freed /\ LiveArrays \subseteq Arrays
      <4>1. \A o \in Objs : "object" \in blocks'[o] <=> "object" \in blocks[o] /\ o \notin c.freed
        <5>1. \A o \in Objs : blocks'[o] = IF o \in c.freed THEN blocks[o] \ Returned(o)
                                           ELSE blocks[o]
          BY <2>1 DEF After
        <5>2. \A o \in Objs : "object" \in Returned(o)
          BY DEF Returned, Parts
        <5>3. QED
          BY <5>1, <5>2
      <4>2. QED
        BY <4>1, KindsOfValues DEF LiveArrays, Live
    <3>2. \A p : p \in PlacesOf(LiveArrays', elems')
                   <=> p \in PlacesOf(LiveArrays, elems) /\ p[1] \notin c.freed
      <4>1. \A b \in Arrays : DOMAIN elems'[b] = DOMAIN elems[b]
        BY <2>9
      <4>2. QED
        BY <3>1, <4>1, InPlacesOf
    <3>3. Places' = Outside(Places, c.freed)
      BY <3>2, PlacesAreOf DEF Outside
    <3>4. q[1] = a
      OBVIOUS
    <3>5. Outside(Places, c.freed) = K \union {q} /\ q \notin K
      BY <2>4, <2>8, <3>4 DEF Outside
    <3>6. IsFiniteSet(K) /\ IsFiniteSet(Places') /\ Places' \subseteq Places
      <4>1. K \in SUBSET C /\ Places' \in SUBSET Places
        BY <3>3 DEF Outside
      <4>2. QED
        BY <2>3, <4>1, FS_Subset
    <3>7. ASSUME NEW p \in K
          PROVE  elems[p[1]][p[2]] = elems'[p[1]][p[2]]
      <4>1. p \in Places /\ p # q
        BY <2>4 DEF Outside
      <4>2. p[1] \in Arrays /\ p[2] \in DOMAIN elems[p[1]] /\ p = <<p[1], p[2]>>
        BY <1>1, <4>1, PlaceParts
      <4>3. CASE p[1] = a
        <5>1. p[2] # i /\ p[2] \in DOMAIN elems[a]
          BY <4>1, <4>2, <4>3
        <5>2. elems[a][p[2]] = elems'[a][p[2]]
          BY <2>9, <5>1
        <5>3. QED
          BY <4>3, <5>2
      <4>4. CASE p[1] # a
        BY <2>9, <4>2, <4>4
      <4>5. QED
        BY <4>3, <4>4
    <3>8. QED
      BY <3>3, <3>5, <3>6, <3>7
  <2>12. \A o : Cardinality(Refer(Places', elems', o))
                  = Cardinality(Refer(K, elems, o)) + (IF o = v THEN 1 ELSE 0)
    <3> DEFINE el == elems'
               S == Places'
    <3>1. S = K \union {q} /\ q \notin K /\ IsFiniteSet(K)
      BY <2>11
    <3>2. \A p \in K : elems[p[1]][p[2]] = el[p[1]][p[2]]
      BY <2>11
    <3>3. el[q[1]][q[2]] = v
      BY <2>9
    <3> HIDE DEF el, S, K, q
    <3>4. \A o : Cardinality(Refer(S, el, o))
                   = Cardinality(Refer(K, el, o)) + (IF o = el[q[1]][q[2]] THEN 1 ELSE 0)
      BY <3>1, ReferOneMore
    <3>5. \A o : Refer(K, elems, o) = Refer(K, el, o)
      BY <3>2, ReferAgrees
    <3>6. QED
      BY <3>3, <3>4, <3>5 DEF el, S
  <2>13. \A o : Cardinality(Refer(K, elems, o)) \in Nat
    BY <2>11, ReferFinite
  <2>14. v \in Objs => (c.rc[v] + 1) % Word = c.rc[v] + 1
    <3>1. SUFFICES ASSUME v \in Objs
                   PROVE  (c.rc[v] + 1) % Word = c.rc[v] + 1
      OBVIOUS
    <3> DEFINE m == held[v]
               k == Cardinality(Refer(Places', elems', v))
               k0 == Cardinality(Refer(K, elems, v))
    <3>2. m \in Nat /\ m <= B
      BY <2>3, <3>1 DEF IInv, Within
    <3>3. k = k0 + 1 /\ k0 \in Nat /\ c.rc[v] = m + k0
      BY <2>5, <2>12, <2>13, <3>1
    <3>4. k <= Cardinality(Arrays) * MaxCapacity
      <4> DEFINE S == Places'
                 el == elems'
      <4>1. S \in SUBSET Places
        BY <2>11
      <4> HIDE DEF S, el
      <4>2. /\ Cardinality(Refer(S, el, v)) <= Cardinality(S)
            /\ Cardinality(S) <= Cardinality(Arrays) * MaxCapacity
            /\ Cardinality(S) \in Nat /\ Cardinality(Refer(S, el, v)) \in Nat
        BY <4>1, CountsOfPlaces
      <4>3. Cardinality(Refer(S, el, v)) <= Cardinality(Arrays) * MaxCapacity
        BY <4>2, CallsIsNat
      <4>4. QED
        BY <4>3 DEF S, el
    <3> HIDE DEF m, k, k0
    <3>5. k \in Nat
      BY <3>3
    <3>6. (m + k) % Word = m + k
      BY <3>2, <3>4, <3>5, OneMoreFits
    <3>7. m + k = c.rc[v] + 1
      BY <3>2, <3>3
    <3>8. QED
      BY <3>6, <3>7
  <2>15. \A o \in Objs : r[o] = c.rc[o] + (IF o = v THEN 1 ELSE 0)
    <3>1. c.rc \in [Objs -> 0 .. Word - 1]
      BY <2>3 DEF Work
    <3>2. QED
      BY <2>6, <2>14, <3>1 DEF zynk_retain
  <2> HIDE DEF r
  <2>16. Lifecycle'
    <3>1. \A o \in Objs : r[o] > 0 <=> c.rc[o] > 0
      BY <2>6, <2>7, <2>15
    <3>2. After(c, r)
      BY <2>1 DEF r
    <3>3. QED
      BY <1>1, <2>3, <2>10, <3>1, <3>2, AfterKeepsLifecycle
  <2>17. ReferencesCounted'
    <3>1. ASSUME NEW o \in Objs
          PROVE  rc'[o] = held'[o] + Cardinality(Refer(Places', elems', o))
      <4> DEFINE one == IF o = v THEN 1 ELSE 0
                 k == Cardinality(Refer(K, elems, o))
      <4>1. /\ rc'[o] = c.rc[o] + one /\ c.rc[o] = held[o] + k /\ held'[o] = held[o]
            /\ Cardinality(Refer(Places', elems', o)) = k + one
            /\ held[o] \in Nat /\ k \in Nat /\ one \in Nat
        BY <2>1, <2>3, <2>5, <2>10, <2>12, <2>13, <2>15
      <4> HIDE DEF one, k
      <4>2. QED
        BY <4>1
    <3>2. QED
      BY <3>1 DEF ReferencesCounted, References, Refer
  <2>18. Within(B)'
    BY <2>1 DEF IInv, Within
  <2>19. QED
    BY <1>1, <2>16, <2>17, <2>18 DEF IInv
<1>4. QED
  BY <1>2, <1>3
LEMMA InitCounted ==
  ASSUME NEW B \in Nat, Init
  PROVE  IInv(B)
<1>1. TypeOK
  BY InitTyped
<1>2. \A o \in Objs : rc[o] = 0 /\ held[o] = 0 /\ blocks[o] = {} /\ o \notin freed
  BY DEF Init
<1>3. LiveArrays = {}
  BY <1>2, KindsOfValues DEF LiveArrays, Live
<1>4. \A o : {p \in Places : elems[p[1]][p[2]] = o} = {}
  BY <1>3 DEF Places
<1>5. ReferencesCounted
  <2>1. \A o : Cardinality({p \in Places : elems[p[1]][p[2]] = o}) = 0
    BY <1>4, FS_EmptySet
  <2>2. QED
    BY <1>2, <2>1 DEF ReferencesCounted, References
<1>6. Within(B)
  BY <1>2, MaxCapacityIsMax DEF Within, Init
<1>7. Lifecycle
  BY <1>2 DEF Lifecycle, Live
<1>8. QED
  BY <1>1, <1>5, <1>6, <1>7 DEF IInv

LEMMA StepCounted ==
  ASSUME ~ SelfAssign, Fits(MaxHeld), IInv(MaxHeld), [Next]_state
  PROVE  IInv(MaxHeld)'
<1>1. MaxHeld \in Nat /\ MaxHeld <= MaxHeld /\ Fits(MaxHeld) /\ IInv(MaxHeld)
  BY BoundsAssumption
<1>2. ASSUME NEW o \in Objs, NEW str \in Texts, zynkCreateString(o, str)
      PROVE  IInv(MaxHeld)'
  BY <1>1, <1>2, CreateStringKeepsCounts
<1>3. ASSUME NEW o \in Objs, zynkCreateNativeFunction(o)
      PROVE  IInv(MaxHeld)'
  BY <1>1, <1>3, CreateNativeKeepsCounts
<1>4. ASSUME NEW o \in Objs, NEW n \in Requests, zynkCreateArray(o, n)
      PROVE  IInv(MaxHeld)'
  BY <1>1, <1>4, CreateArrayKeepsCounts
<1>5. ASSUME NEW o \in Objs, Retain(o)
      PROVE  IInv(MaxHeld)'
  BY <1>1, <1>5, RetainKeepsCounts
<1>6. ASSUME NEW o \in Objs, Release(o)
      PROVE  IInv(MaxHeld)'
  BY <1>1, <1>6, ReleaseKeepsCounts
<1>7. ASSUME NEW a \in Arrays, zynkArrayGet(a)
      PROVE  IInv(MaxHeld)'
  BY <1>1, <1>7, CrashKeepsCounts DEF zynkArrayGet
<1>8. ASSUME NEW a \in Arrays, NEW v \in Values, zynkArrayPush(a, v)
      PROVE  IInv(MaxHeld)'
  BY <1>1, <1>8, PushKeepsCounts
<1>9. ASSUME NEW a \in Arrays, NEW v \in Values, NEW i \in Indexes, zynkArraySet(a, i, v)
      PROVE  IInv(MaxHeld)'
  <2>1. /\ Live(a) /\ Usable(a) /\ Usable(v) /\ ~ EndsNew(a, i, v) /\ SetElement(a, i, v)
        /\ i \in Nat
    BY <1>9, WordAssumption DEF zynkArraySet
  <2>2. v \in Objs => rc[v] > 0
    BY <1>1, <2>1, UsableIsLive
  <2>3. QED
    BY <1>1, <2>1, <2>2, SetElementKeepsCounts
<1>10. ASSUME NEW a \in Arrays, zynkArrayPop(a)
      PROVE  IInv(MaxHeld)'
  BY <1>1, <1>10, PopKeepsCounts
<1>11. CASE UNCHANGED state
  <2>1. UNCHANGED <<rc, freed, blocks, elems, capacity, data, text, room, crashed, held>>
    BY <1>11 DEF state
  <2>2. LiveArrays' = LiveArrays /\ Places' = Places
    BY <2>1 DEF LiveArrays, Places, Live
  <2>3. TypeOK'
    BY <1>1, <2>1 DEF IInv, TypeOK
  <2>4. QED
    BY <1>1, <2>1, <2>2, <2>3
       DEF IInv, Within, ReferencesCounted, References, Lifecycle, Live
<1>12. CASE Next
  BY <1>2, <1>3, <1>4, <1>5, <1>6, <1>7, <1>8, <1>9, <1>10, <1>12 DEF Next
<1>13. QED
  BY <1>11, <1>12

(* While no client stores a value that only the slot's old value keeps       *)
(* alive, and no count can reach the width of ref_count, the inductive       *)
(* invariant holds in every reachable state.                                 *)
THEOREM InductiveInvariant ==
  ASSUME ~ SelfAssign, Fits(MaxHeld)
  PROVE  Spec => []IInv(MaxHeld)
<1>1. Init => IInv(MaxHeld)
  BY InitCounted, BoundsAssumption
<1>2. IInv(MaxHeld) /\ [Next]_state => IInv(MaxHeld)'
  BY StepCounted
<1>3. QED
  BY <1>1, <1>2, PTL DEF Spec

(* ref_count is exact through every push, set, pop and cascade, for any      *)
(* number of arrays in any arrangement, cycles included: zynk_retain and     *)
(* zynk_release never miss a reference of an array or of a client.           *)
THEOREM CountsExact ==
  ASSUME ~ SelfAssign, Fits(MaxHeld)
  PROVE  Spec => []ReferencesCounted
<1>1. IInv(MaxHeld) => ReferencesCounted
  BY DEF IInv
<1>2. QED
  BY <1>1, InductiveInvariant, PTL

LEMMA CountedAreLive ==
  ASSUME NEW B \in Nat, IInv(B)
  PROVE  StoredValuesLive
<1>1. TypeOK
  BY DEF IInv
<1>2. ASSUME NEW a \in LiveArrays, NEW v \in ToSet(elems[a]) \intersect Objs
      PROVE  Live(v)
  <2>1. PICK i \in DOMAIN elems[a] : elems[a][i] = v
    BY DEF ToSet
  <2>2. <<a, i>> \in Places
    <3>1. <<a, i>> \in {a} \X DOMAIN elems[a]
      OBVIOUS
    <3>2. QED
      BY <1>1, <3>1, PlaceParts
  <2>3. QED
    BY <2>1, <2>2, FoundIsLive
<1>3. QED
  BY <1>2 DEF StoredValuesLive

(* No array in memory has an element whose memory went back to the arena. *)
THEOREM ElementsLive ==
  ASSUME ~ SelfAssign, Fits(MaxHeld)
  PROVE  Spec => []StoredValuesLive
<1>1. IInv(MaxHeld) => StoredValuesLive
  BY CountedAreLive, BoundsAssumption
<1>2. QED
  BY <1>1, InductiveInvariant, PTL

-----------------------------------------------------------------------------
(* Blocks follow counts *)

(* The blocks that o may have when its count is positive, and when it is 0.  *)
Whole(o) ==
  /\ blocks[o] \subseteq PartsOf(o)
  /\ PartsOf(o) \subseteq blocks[o] \union {"data"}
  /\ o \in Strings \/ (o \in Arrays /\ data[o]) => "data" \in blocks[o]

Gone(o) == blocks[o] \subseteq (IF o \in freed THEN Forgotten(o) ELSE {})

LEMMA MemoryByObject ==
  /\ MemoryFollowsCounts <=> \A o \in Objs : IF rc[o] > 0 THEN Whole(o) ELSE Gone(o)
  /\ MemoryFollowsCounts' <=> \A o \in Objs : IF rc'[o] > 0 THEN Whole(o)' ELSE Gone(o)'
BY DEF MemoryFollowsCounts, Whole, Gone

(* A release gives back all parts but the forgotten ones. *)
LEMMA ReturnedOrForgotten ==
  ASSUME NEW o \in Objs
  PROVE  PartsOf(o) \ Returned(o) = Forgotten(o) /\ Forgotten(o) \subseteq PartsOf(o)
<1>1. CASE o \in Strings
  <2>1. o \notin Natives /\ o \notin Arrays
    BY <1>1, KindsAssumption
  <2>2. QED
    BY <1>1, <2>1 DEF PartsOf, Returned, Forgotten
<1>2. CASE o \in Arrays
  <2>1. o \notin Natives /\ o \notin Strings
    BY <1>2, KindsAssumption
  <2>2. QED
    BY <1>2, <2>1 DEF PartsOf, Returned, Forgotten, Parts
<1>3. CASE o \in Natives
  <2>1. o \notin Arrays /\ o \notin Strings
    BY <1>3, KindsAssumption
  <2>2. QED
    BY <1>3, <2>1 DEF PartsOf, Returned, Forgotten
<1>4. QED
  BY <1>1, <1>2, <1>3 DEF Objs

(* An object whose blocks, data and place in freed stay keeps its side. *)
LEMMA SideKept ==
  ASSUME Lifecycle, Lifecycle', MemoryFollowsCounts, NEW o \in Objs,
         blocks'[o] = blocks[o], o \in freed' <=> o \in freed,
         o \in Arrays => data'[o] = data[o]
  PROVE  IF rc'[o] > 0 THEN Whole(o)' ELSE Gone(o)'
<1>1. IF rc[o] > 0 THEN Whole(o) ELSE Gone(o)
  BY MemoryByObject
<1>2. Live(o)' <=> Live(o)
  BY DEF Live
<1>3. rc'[o] > 0 <=> rc[o] > 0
  BY <1>2 DEF Lifecycle
<1>4. Whole(o) => Whole(o)'
  BY DEF Whole
<1>5. Gone(o) => Gone(o)'
  BY DEF Gone
<1>6. QED
  BY <1>1, <1>3, <1>4, <1>5

LEMMA AfterKeepsMemory ==
  ASSUME Lifecycle, Lifecycle', MemoryFollowsCounts, NEW c, NEW r, After(c, r),
         UNCHANGED data
  PROVE  MemoryFollowsCounts'
<1>1. /\ freed' = freed \union c.freed
      /\ \A o \in Objs : blocks'[o] = IF o \in c.freed THEN blocks[o] \ Returned(o)
                                      ELSE blocks[o]
  BY DEF After
<1>2. ASSUME NEW o \in Objs
      PROVE  IF rc'[o] > 0 THEN Whole(o)' ELSE Gone(o)'
  <2>1. CASE o \notin c.freed
    BY <1>1, <2>1, SideKept
  <2>2. CASE o \in c.freed
    <3>1. o \in freed' /\ blocks'[o] = blocks[o] \ Returned(o)
      BY <1>1, <2>2
    <3>2. ~ (rc'[o] > 0)
      BY <3>1 DEF Lifecycle
    <3>3. blocks[o] \subseteq PartsOf(o)
      BY MemoryByObject, ReturnedOrForgotten DEF Whole, Gone
    <3>4. blocks'[o] \subseteq Forgotten(o)
      BY <3>1, <3>3, ReturnedOrForgotten
    <3>5. Gone(o)'
      BY <3>1, <3>4 DEF Gone, Forgotten
    <3>6. QED
      BY <3>2, <3>5
  <2>3. QED
    BY <2>1, <2>2
<1>3. QED
  BY <1>2, MemoryByObject

LEMMA CreateKeepsMemory ==
  ASSUME TypeOK, Lifecycle, Lifecycle', MemoryFollowsCounts, NEW o \in Objs, Create(o),
         \A a \in Arrays : a # o => data'[a] = data[a]
  PROVE  MemoryFollowsCounts'
<1>1. blocks' = [blocks EXCEPT ![o] = Allocated(o)] /\ freed' = freed /\ o \notin freed
  BY DEF Create
<1>2. /\ blocks'[o] = PartsOf(o) \/ blocks'[o] = {}
      /\ \A q \in Objs : q # o => blocks'[q] = blocks[q]
  BY <1>1, AllocatedAll DEF TypeOK
<1>3. CASE blocks'[o] = PartsOf(o)
  <2>1. rc'[o] > 0
    <3>1. "object" \in blocks'[o]
      BY <1>3 DEF PartsOf, Parts
    <3>2. QED
      BY <3>1 DEF Lifecycle, Live
  <2>2. o \in Strings \/ o \in Arrays => "data" \in PartsOf(o)
    BY KindsAssumption DEF PartsOf, Parts
  <2>3. Whole(o)'
    BY <1>3, <2>2 DEF Whole
  <2>4. QED
    BY <1>1, <1>2, <2>1, <2>3, SideKept, MemoryByObject
<1>4. CASE blocks'[o] = {}
  <2>1. ~ (rc'[o] > 0)
    BY <1>4 DEF Lifecycle, Live
  <2>2. Gone(o)'
    BY <1>4 DEF Gone
  <2>3. QED
    BY <1>1, <1>2, <2>1, <2>2, SideKept, MemoryByObject
<1>5. QED
  BY <1>2, <1>3, <1>4

(* The values of an array go back only when its pointer does. *)
LEMMA PopKeepsMemory ==
  ASSUME TypeOK, Lifecycle, Lifecycle', MemoryFollowsCounts,
         NEW a \in Arrays, zynkArrayPop(a), ~ Crash
  PROVE  MemoryFollowsCounts'
<1>1. /\ blocks' = blocks \/ blocks' = [blocks EXCEPT ![a] = @ \ {"data"}]
      /\ data' = [data EXCEPT ![a] = FALSE]
      /\ freed' = freed /\ rc' = rc /\ a \in Objs /\ Live(a)
  BY KindsOfValues DEF zynkArrayPop, reallocate
<1>2. /\ blocks'[a] = blocks[a] \/ blocks'[a] = blocks[a] \ {"data"}
      /\ ~ data'[a]
      /\ \A o \in Objs : o # a => blocks'[o] = blocks[o]
      /\ \A b \in Arrays : b # a => data'[b] = data[b]
  BY <1>1 DEF TypeOK
<1>3. rc[a] > 0 /\ rc'[a] > 0 /\ Whole(a)
  <2>1. rc[a] > 0
    BY <1>1 DEF Lifecycle
  <2>2. QED
    BY <1>1, <2>1, MemoryByObject
<1>4. Whole(a)'
  <2>1. a \notin Strings
    BY KindsAssumption
  <2>2. QED
    BY <1>2, <1>3, <2>1 DEF Whole
<1>5. QED
  BY <1>1, <1>2, <1>3, <1>4, SideKept, MemoryByObject

LEMMA StepKeepsMemory ==
  ASSUME IInv(MaxHeld), IInv(MaxHeld)', MemoryFollowsCounts, [Next]_state
  PROVE  MemoryFollowsCounts'
<1>1. TypeOK /\ Lifecycle /\ Lifecycle'
  BY DEF IInv
<1>2. ASSUME UNCHANGED <<blocks, freed, data>>
      PROVE  MemoryFollowsCounts'
  BY <1>1, <1>2, SideKept, MemoryByObject
<1>3. ASSUME NEW o \in Objs, NEW str \in Texts, zynkCreateString(o, str)
      PROVE  MemoryFollowsCounts'
  BY <1>1, <1>3, CreateKeepsMemory DEF zynkCreateString, arrays
<1>4. ASSUME NEW o \in Objs, zynkCreateNativeFunction(o)
      PROVE  MemoryFollowsCounts'
  BY <1>1, <1>4, CreateKeepsMemory DEF zynkCreateNativeFunction, contents
<1>5. ASSUME NEW o \in Objs, NEW n \in Requests, zynkCreateArray(o, n)
      PROVE  MemoryFollowsCounts'
  <2>1. Create(o) /\ \A a \in Arrays : a # o => data'[a] = data[a]
    BY <1>1, <1>5 DEF zynkCreateArray, TypeOK
  <2>2. QED
    BY <1>1, <2>1, CreateKeepsMemory
<1>6. ASSUME NEW o \in Objs, Retain(o)
      PROVE  MemoryFollowsCounts'
  BY <1>2, <1>6 DEF Retain, contents
<1>7. ASSUME NEW o \in Objs, Release(o)
      PROVE  MemoryFollowsCounts'
  <2>1. After(Cascade(o), Cascade(o).rc) /\ UNCHANGED data
    BY <1>7 DEF Release, contents
  <2>2. QED
    BY <1>1, <2>1, AfterKeepsMemory
<1>8. ASSUME Crash
      PROVE  MemoryFollowsCounts'
  BY <1>2, <1>8 DEF Crash, heap, contents
<1>9. ASSUME NEW a \in Arrays, NEW v \in Values, zynkArrayPush(a, v)
      PROVE  MemoryFollowsCounts'
  BY <1>2, <1>8, <1>9 DEF zynkArrayPush
<1>10. ASSUME NEW a \in Arrays, NEW v \in Values, NEW i \in Indexes, zynkArraySet(a, i, v)
       PROVE  MemoryFollowsCounts'
  <2>1. CASE elems[a] = <<>> \/ ~ data[a]
    BY <1>8, <1>10, <2>1 DEF zynkArraySet, SetElement
  <2>2. CASE ~ (elems[a] = <<>> \/ ~ data[a])
    <3> DEFINE c == Cascade(elems[a][Locate(Len(elems[a]), i)])
    <3>1. After(c, Retained(c, v)) /\ UNCHANGED data
      BY <1>10, <2>2 DEF zynkArraySet, SetElement
    <3> HIDE DEF c
    <3>2. QED
      BY <1>1, <3>1, AfterKeepsMemory
  <2>3. QED
    BY <2>1, <2>2
<1>11. ASSUME NEW a \in Arrays, zynkArrayPop(a)
       PROVE  MemoryFollowsCounts'
  BY <1>1, <1>8, <1>11, PopKeepsMemory
<1>12. ASSUME NEW a \in Arrays, zynkArrayGet(a)
       PROVE  MemoryFollowsCounts'
  BY <1>8, <1>12 DEF zynkArrayGet
<1>13. CASE UNCHANGED state
  BY <1>2, <1>13 DEF state
<1>14. CASE Next
  BY <1>3, <1>4, <1>5, <1>6, <1>7, <1>9, <1>10, <1>11, <1>12, <1>14 DEF Next
<1>15. QED
  BY <1>13, <1>14

(* The blocks of an object follow its count, whatever the order of pushes,   *)
(* pops, sets and releases and wherever the arena gave out during its        *)
(* creation: whole while it is counted, with nothing left afterwards but     *)
(* what freeArray and freeString forget.                                     *)
THEOREM MemoryExact ==
  ASSUME ~ SelfAssign, Fits(MaxHeld)
  PROVE  Spec => []MemoryFollowsCounts
<1>1. Init => MemoryFollowsCounts
  BY DEF Init, MemoryFollowsCounts
<1>2. IInv(MaxHeld) /\ IInv(MaxHeld)' /\ MemoryFollowsCounts /\ [Next]_state
        => MemoryFollowsCounts'
  BY StepKeepsMemory
<1>3. QED
  BY <1>1, <1>2, InductiveInvariant, PTL DEF Spec

-----------------------------------------------------------------------------
(* What is reached *)

Wider(S) == S \union UNION {Contents(o) : o \in S}

Closed(S) == \A o \in S : Contents(o) \subseteq S

LEMMA ReachRun ==
  ASSUME NEW from \in SUBSET Objs
  PROVE  \E g \in [0 .. Cardinality(Objs) -> SUBSET Objs] :
           /\ g[0] = from
           /\ \A n \in 0 .. Cardinality(Objs) - 1 : g[n + 1] = Wider(g[n])
           /\ Reach(from) = g[Cardinality(Objs)]
<1> DEFINE N == Cardinality(Objs)
           T == SUBSET Objs
           next == [S \in T |-> Wider(S)]
           Of(r, n) == IF n = 0 THEN from
                       ELSE r[n - 1] \union UNION {Contents(o) : o \in r[n - 1]}
           Run(r) == r = [n \in 0 .. N |-> Of(r, n)]
           run == CHOOSE r : Run(r)
<1>1. N \in Nat /\ from \in T
  BY ArraysAreFinite
<1>2. next \in [T -> T]
  BY DEF Wider, Contents
<1>3. PICK f \in [0 .. N -> T] :
         f[0] = from /\ \A n \in 0 .. N - 1 : f[n + 1] = next[f[n]]
  <2> DEFINE x == from
  <2>1. N \in Nat /\ x \in T /\ next \in [T -> T]
    BY <1>1, <1>2
  <2> HIDE DEF next, N, T, x, Of, Run, run
  <2>2. Repeats(N, T, x, next)
    BY <2>1, RecursionUpTo
  <2>3. QED
    BY <2>2 DEF Repeats, x
<1>4. Reach(from) = run[N]
  BY DEF Reach
<1> HIDE DEF N
<1>5. ASSUME NEW n \in 0 .. N
      PROVE  f[n] = Of(f, n)
  <2>1. CASE n = 0
    BY <1>3, <2>1
  <2>2. CASE n # 0
    <3>1. n - 1 \in 0 .. N - 1 /\ (n - 1) + 1 = n /\ n - 1 \in 0 .. N
      BY <1>1, <2>2
    <3>2. f[n] = next[f[n - 1]] /\ f[n - 1] \in T
      BY <1>3, <3>1
    <3>3. QED
      BY <2>2, <3>2 DEF Wider
  <2>3. QED
    BY <2>1, <2>2
<1>6. Run(f)
  <2> HIDE DEF Of
  <2>1. QED
    BY <1>5
<1>7. Run(run)
  <2> HIDE DEF Run
  <2>1. QED
    BY <1>6
<1> HIDE DEF run
<1>8. run = f
  <2> DEFINE D == {n \in 0 .. N : run[n] = f[n]}
  <2>1. \A n \in 0 .. N : run[n] = Of(run, n)
    <3> HIDE DEF Of
    <3>1. QED
      BY <1>7
  <2>2. 0 \in D
    <3>1. 0 \in 0 .. N
      BY <1>1
    <3>2. run[0] = Of(run, 0) /\ f[0] = Of(f, 0)
      BY <1>5, <2>1, <3>1
    <3>3. QED
      BY <3>1, <3>2
  <2>3. ASSUME NEW n \in 0 .. N - 1, n \in D
        PROVE  n + 1 \in D
    <3>1. n + 1 \in 0 .. N /\ n + 1 # 0 /\ (n + 1) - 1 = n /\ run[n] = f[n]
      BY <1>1, <2>3
    <3>2. run[n + 1] = Of(run, n + 1) /\ f[n + 1] = Of(f, n + 1)
      BY <1>5, <2>1, <3>1
    <3>3. QED
      BY <3>1, <3>2
  <2> HIDE DEF D
  <2>4. 0 .. N \subseteq D
    BY <1>1, <2>2, <2>3, InductionUpTo
  <2>5. \A n \in 0 .. N : run[n] = f[n]
    BY <2>4 DEF D
  <2>6. run = [n \in 0 .. N |-> run[n]]
    <3> HIDE DEF Of
    <3>1. QED
      BY <1>7
  <2>7. QED
    BY <2>5, <2>6
<1>9. ASSUME NEW n \in 0 .. N - 1
      PROVE  f[n + 1] = Wider(f[n])
  <2>1. n \in 0 .. N /\ f[n] \in T
    BY <1>1, <1>3
  <2>2. QED
    BY <1>3, <2>1
<1>10. f \in [0 .. N -> SUBSET Objs] /\ f[0] = from /\ Reach(from) = f[N]
  BY <1>3, <1>4, <1>8
<1> HIDE DEF T, next
<1>11. QED
  BY <1>9, <1>10 DEF N

(* What is reached from a set is the least closed set around it: a longer    *)
(* way than there are objects passes one of them twice.                      *)
LEMMA ReachIsLeastClosed ==
  ASSUME NEW from \in SUBSET Objs
  PROVE  /\ from \subseteq Reach(from) /\ Reach(from) \subseteq Objs
         /\ Closed(Reach(from))
         /\ \A S : from \subseteq S /\ Closed(S) => Reach(from) \subseteq S
<1> DEFINE N == Cardinality(Objs)
<1>1. PICK g \in [0 .. N -> SUBSET Objs] :
         /\ g[0] = from
         /\ \A n \in 0 .. N - 1 : g[n + 1] = Wider(g[n])
         /\ Reach(from) = g[N]
  BY ReachRun
<1>2. N \in Nat /\ IsFiniteSet(Objs)
  BY ArraysAreFinite
<1>3. ASSUME NEW S \in SUBSET Objs
      PROVE  IsFiniteSet(S) /\ Cardinality(S) \in Nat /\ Cardinality(S) <= N
             /\ (Cardinality(S) = N => S = Objs)
  BY <1>2, FS_Subset, FS_CardinalityType
<1> HIDE DEF N
<1> DEFINE Good(n) == from \subseteq g[n] /\ (Closed(g[n]) \/ Cardinality(g[n]) >= n)
           D == {n \in 0 .. N : Good(n)}
<1>4. 0 \in D
  <2>1. g[0] \in SUBSET Objs /\ 0 \in 0 .. N
    BY <1>2
  <2>2. Cardinality(g[0]) \in Nat
    BY <1>3, <2>1
  <2>3. QED
    BY <1>1, <2>1, <2>2
<1>5. ASSUME NEW n \in 0 .. N - 1, n \in D
      PROVE  n + 1 \in D
  <2>1. n + 1 \in 0 .. N /\ n \in 0 .. N /\ g[n] \in SUBSET Objs /\ g[n + 1] \in SUBSET Objs
    BY <1>2
  <2>2. Good(n) /\ g[n + 1] = Wider(g[n])
    BY <1>1, <1>5
  <2>3. g[n] \subseteq g[n + 1]
    BY <2>2 DEF Wider
  <2>4. CASE Closed(g[n])
    <3>1. g[n + 1] = g[n]
      BY <2>2, <2>4 DEF Wider, Closed
    <3>2. QED
      BY <2>1, <2>2, <2>4, <3>1
  <2>5. CASE ~ Closed(g[n])
    <3>1. g[n + 1] # g[n]
      BY <2>2, <2>5 DEF Wider, Closed
    <3>2. Cardinality(g[n]) \in Nat /\ Cardinality(g[n + 1]) \in Nat /\ IsFiniteSet(g[n + 1])
      BY <1>3, <2>1
    <3>3. Cardinality(g[n]) <= Cardinality(g[n + 1])
          /\ Cardinality(g[n]) # Cardinality(g[n + 1])
      BY <2>3, <3>1, <3>2, FS_Subset
    <3>4. Cardinality(g[n]) >= n
      BY <2>2, <2>5
    <3>5. \A i, j \in Nat : i <= j /\ i # j /\ i >= n => j >= n + 1
      BY <2>1
    <3>6. Cardinality(g[n + 1]) >= n + 1
      BY <3>2, <3>3, <3>4, <3>5
    <3>7. QED
      BY <2>1, <2>2, <2>3, <3>6
  <2>6. QED
    BY <2>4, <2>5
<1>6. N \in D
  <2> HIDE DEF D
  <2>1. 0 .. N \subseteq D
    BY <1>2, <1>4, <1>5, InductionUpTo
  <2>2. QED
    BY <1>2, <2>1
<1>7. Reach(from) \in SUBSET Objs /\ from \subseteq Reach(from)
  <2>1. N \in 0 .. N
    BY <1>2
  <2>2. QED
    BY <1>1, <1>6, <2>1
<1>8. Closed(Reach(from))
  <2>1. CASE Cardinality(Reach(from)) >= N
    <3>1. Cardinality(Reach(from)) = N
      BY <1>2, <1>3, <1>7, <2>1
    <3>2. Reach(from) = Objs
      BY <1>3, <1>7, <3>1
    <3>3. QED
      BY <3>2 DEF Closed, Contents
  <2>2. QED
    BY <1>1, <1>6, <2>1
<1>9. ASSUME NEW S, from \subseteq S, Closed(S)
      PROVE  Reach(from) \subseteq S
  <2> DEFINE E == {n \in 0 .. N : g[n] \subseteq S}
  <2>1. 0 \in E
    BY <1>1, <1>2, <1>9
  <2>2. ASSUME NEW n \in 0 .. N - 1, n \in E
        PROVE  n + 1 \in E
    <3>1. n + 1 \in 0 .. N /\ g[n + 1] = Wider(g[n]) /\ g[n] \subseteq S
      BY <1>1, <1>2, <2>2
    <3>2. Wider(g[n]) \subseteq S
      BY <1>9, <3>1 DEF Wider, Closed
    <3>3. QED
      BY <3>1, <3>2
  <2> HIDE DEF E
  <2>3. 0 .. N \subseteq E
    BY <1>2, <2>1, <2>2, InductionUpTo
  <2>4. N \in E
    BY <1>2, <2>3
  <2>5. QED
    BY <1>1, <2>4 DEF E
<1>10. QED
  BY <1>7, <1>8, <1>9

(***************************************************************************)
(* An unreached object in memory has a count, so an array in memory refers *)
(* to it, whose values can still be read, or the object would be stranded. *)
(* That array is unreached too and reaches more than the object does, or   *)
(* the object would be on a cycle.  Of the unreached objects one reaches   *)
(* the most: there is none.                                                *)
(***************************************************************************)
LEMMA CountedIsReached ==
  ASSUME NEW B \in Nat, IInv(B)
  PROVE  NothingElseLeaks
<1> DEFINE H == Owned \union Cycles \union Stranded
           R == Reach(H)
           U == {o \in Objs : Live(o)} \ R
           Size(o) == Cardinality(Reach(Contents(o)))
<1> SUFFICES ASSUME U # {}
             PROVE  FALSE
  BY DEF NothingElseLeaks
<1>1. TypeOK /\ H \in SUBSET Objs /\ IsFiniteSet(Objs)
  <2>1. Owned \subseteq Objs /\ Cycles \subseteq Objs /\ Stranded \subseteq Objs
    BY KindsOfValues DEF Owned, Cycles, Stranded, LiveArrays
  <2>2. QED
    BY <2>1, ArraysAreFinite DEF IInv
<1>2. H \subseteq R /\ Closed(R)
  BY <1>1, ReachIsLeastClosed
<1>3. ASSUME NEW o
      PROVE  Contents(o) \in SUBSET Objs
  BY DEF Contents
<1>4. ASSUME NEW o
      PROVE  /\ Reach(Contents(o)) \in SUBSET Objs
             /\ Contents(o) \subseteq Reach(Contents(o)) /\ Closed(Reach(Contents(o)))
             /\ IsFiniteSet(Reach(Contents(o)))
             /\ Size(o) \in Nat /\ Size(o) <= Cardinality(Objs)
  <2>1. /\ Reach(Contents(o)) \in SUBSET Objs
        /\ Contents(o) \subseteq Reach(Contents(o)) /\ Closed(Reach(Contents(o)))
    BY <1>3, ReachIsLeastClosed
  <2>2. QED
    BY <1>1, <2>1, FS_Subset, FS_CardinalityType
<1> HIDE DEF H, R
<1>5. PICK u \in U : \A o \in U : Size(o) <= Size(u)
  <2> DEFINE Sizes == {Size(o) : o \in U}
  <2>1. Sizes \in SUBSET Nat /\ Sizes # {} /\ \A n \in Sizes : n <= Cardinality(Objs)
    BY <1>4
  <2>2. Cardinality(Objs) \in Nat
    BY ArraysAreFinite
  <2> HIDE DEF Sizes
  <2>3. IsFiniteSet(Sizes)
    BY <2>1, <2>2, FS_BoundedSetOfNaturals
  <2>4. PICK m \in Sizes : \A n \in Sizes : n <= m
    BY <2>1, <2>3, GreatestNumber
  <2>5. QED
    BY <2>4 DEF Sizes
<1>6. u \in Objs /\ Live(u) /\ u \notin R
  OBVIOUS
<1>7. Refer(Places, elems, u) # {}
  <2>1. rc[u] > 0 /\ held[u] \in Nat
    BY <1>1, <1>6 DEF IInv, Lifecycle, TypeOK
  <2>2. held[u] = 0
    BY <1>2, <1>6, <2>1 DEF H, Owned
  <2>3. rc[u] = held[u] + Cardinality(Refer(Places, elems, u))
    BY <1>6, CountsOfPlaces DEF IInv, ReferencesCounted
  <2>4. Refer(Places, elems, u) = {} => Cardinality(Refer(Places, elems, u)) = 0
    BY FS_EmptySet
  <2>5. QED
    BY <2>1, <2>2, <2>3, <2>4
<1>8. PICK p \in Places : elems[p[1]][p[2]] = u
  BY <1>7 DEF Refer
<1> DEFINE b == p[1]
<1>9. b \in LiveArrays /\ b \in Objs /\ u \in Contents(b)
  <2>1. b \in LiveArrays /\ b \in Objs /\ p[2] \in DOMAIN elems[b]
    BY <1>1, PlaceParts
  <2>2. u \in ToSet(elems[b])
    BY <1>8, <2>1 DEF ToSet
  <2>3. CASE data[b]
    BY <1>6, <2>1, <2>2, <2>3 DEF Contents
  <2>4. CASE ~ data[b]
    <3>1. u \in Stranded
      BY <1>6, <2>1, <2>2, <2>4 DEF Stranded
    <3>2. QED
      BY <1>2, <1>6, <3>1 DEF H
  <2>5. QED
    BY <2>1, <2>3, <2>4
<1> HIDE DEF b
<1>10. b \in U
  <2>1. b \notin R
    BY <1>2, <1>6, <1>9 DEF Closed
  <2>2. QED
    BY <1>9, <2>1 DEF LiveArrays
<1>11. u \notin Reach(Contents(u))
  <2>1. CASE u \in LiveArrays
    <3>1. u \notin Cycles
      BY <1>2, <1>6 DEF H
    <3>2. QED
      BY <2>1, <3>1 DEF Cycles
  <2>2. CASE u \notin LiveArrays
    <3>1. Contents(u) \subseteq {} /\ Closed({})
      BY <2>2 DEF Contents, Closed
    <3>2. Reach(Contents(u)) \subseteq {}
      BY <1>3, <3>1, ReachIsLeastClosed
    <3>3. QED
      BY <3>2
  <2>3. QED
    BY <2>1, <2>2
<1>12. u \in Reach(Contents(b))
  BY <1>4, <1>9
<1>13. Reach(Contents(u)) \subseteq Reach(Contents(b))
  <2>1. Contents(u) \subseteq Reach(Contents(b)) /\ Closed(Reach(Contents(b)))
    BY <1>4, <1>12 DEF Closed
  <2>2. QED
    BY <1>3, <2>1, ReachIsLeastClosed
<1>14. Size(u) <= Size(b) /\ Size(u) # Size(b)
  BY <1>4, <1>11, <1>12, <1>13, FS_Subset
<1>15. Size(b) <= Size(u)
  BY <1>5, <1>10
<1>16. Size(u) \in Nat /\ Size(b) \in Nat
  BY <1>4
<1> HIDE DEF Size
<1>17. QED
  BY <1>14, <1>15, <1>16

(* What the cascade leaves behind has one of two reasons: a cycle of arrays, *)
(* or a pop from two or more elements, whose rest no release comes to.       *)
(* Everything else in memory is reached from what clients hold.              *)
THEOREM NoLeak ==
  ASSUME ~ SelfAssign, Fits(MaxHeld)
  PROVE  Spec => []NothingElseLeaks
<1>1. IInv(MaxHeld) => NothingElseLeaks
  BY CountedIsReached, BoundsAssumption
<1>2. QED
  BY <1>1, InductiveInvariant, PTL

LEMMA CountedKeepsReachable ==
  ASSUME NEW B \in Nat, IInv(B)
  PROVE  ReachableLive
<1> DEFINE H == Owned
           L == {o \in Objs : Live(o)}
<1>1. TypeOK /\ H \in SUBSET Objs
  BY DEF IInv, Owned
<1>2. H \subseteq L
  <2>1. ASSUME NEW o \in H
        PROVE  rc[o] > 0
    <3>1. rc[o] = held[o] + Cardinality(Refer(Places, elems, o))
      BY CountsOfPlaces DEF IInv, ReferencesCounted, Owned
    <3>2. held[o] \in Nat /\ held[o] > 0 /\ Cardinality(Refer(Places, elems, o)) \in Nat
      BY <1>1, CountsOfPlaces DEF TypeOK, Owned
    <3>3. QED
      BY <3>1, <3>2
  <2>2. QED
    BY <2>1 DEF IInv, Lifecycle, Owned
<1>3. Closed(L)
  BY CountedAreLive DEF Closed, Contents, StoredValuesLive
<1> HIDE DEF H, L
<1>4. Reach(H) \subseteq L
  BY <1>1, <1>2, <1>3, ReachIsLeastClosed
<1>5. QED
  BY <1>4 DEF ReachableLive, H, L

(* Whatever a client reaches from an object it holds, through any number of  *)
(* arrays, is in memory: the cascade frees nothing too early.                *)
THEOREM ReachableExists ==
  ASSUME ~ SelfAssign, Fits(MaxHeld)
  PROVE  Spec => []ReachableLive
<1>1. IInv(MaxHeld) => ReachableLive
  BY CountedKeepsReachable, BoundsAssumption
<1>2. QED
  BY <1>1, InductiveInvariant, PTL
=============================================================================
