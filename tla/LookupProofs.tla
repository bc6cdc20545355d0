---------------------------- MODULE LookupProofs ----------------------------
(***************************************************************************)
(* Proofs about one search, step by step: for every width of the integer   *)
(* types, every set of names and every table, the loop ends with the       *)
(* answer of Probing, and its hash is one of 32 bits.                      *)
(***************************************************************************)
EXTENDS Lookup, LeastNumbers, TLAPS

-----------------------------------------------------------------------------
(* Remainders *)

LEMMA RemainderOfSum ==
  ASSUME NEW K \in Nat \ {0}, NEW z \in Nat, NEW y \in Nat
  PROVE  (K * z + y) % K = y % K
<1> DEFINE t == y % K
           q == z + (y \div K)
<1>1. t \in 0 .. K - 1 /\ q \in Nat /\ K * z + y = K * q + t
  OBVIOUS
<1> HIDE DEF t, q
<1>2. (K * q + t) % K = t
  BY <1>1
<1>3. QED
  BY <1>1, <1>2 DEF t

LEMMA RemainderOfRemainder ==
  ASSUME NEW K \in Nat \ {0}, NEW L \in Nat \ {0}, L % K = 0, NEW x \in Nat
  PROVE  (x % L) % K = x % K
<1> DEFINE p == L \div K
           q == x \div L
           r == x % L
<1>1. L = K * p /\ p \in Nat
  OBVIOUS
<1>2. x = L * q + r /\ q \in Nat /\ r \in Nat
  OBVIOUS
<1> HIDE DEF p, q, r
<1> DEFINE z == p * q
<1>3. z \in Nat /\ x = K * z + r
  BY <1>1, <1>2
<1> HIDE DEF z
<1>4. (K * z + r) % K = r % K
  BY <1>2, <1>3, RemainderOfSum
<1>5. QED
  BY <1>3, <1>4 DEF r

LEMMA SizesAreWhole ==
  /\ IntSize \in Nat \ {0} /\ LongSize \in Nat \ {0} /\ LongSize % IntSize = 0
  /\ IntSize <= LongSize
  /\ CharSize \in Nat \ {0}
<1>1. CharSize \in Nat /\ CharSize > 0
  BY WidthAssumption
<1>2. CharSize * CharSize \in Nat /\ CharSize * CharSize > 0
  BY <1>1
<1>3. \A s \in Nat : s > 0 => s * CharSize \in Nat /\ s * CharSize > 0
  BY <1>1
<1>4. IntSize \in Nat /\ IntSize > 0
  BY <1>2, <1>3, WidthAssumption
<1>5. LongSize \in Nat /\ LongSize > 0 /\ LongSize % IntSize = 0
  BY WidthAssumption
<1>6. IntSize <= LongSize
  <2>1. LongSize < IntSize => LongSize % IntSize = LongSize
    BY <1>4, <1>5
  <2>2. QED
    BY <1>4, <1>5, <2>1
<1>7. QED
  BY <1>1, <1>4, <1>5, <1>6

LEMMA CutIsInt ==
  ASSUME NEW x \in Nat
  PROVE  Cut(x) \in Ints /\ Cut(x) \in Longs /\ Cut(x) \in Nat
BY SizesAreWhole DEF Cut, Ints, Longs

(* Multiplication in 64 bits and in 32 agree in the low 32.                  *)
LEMMA CutTimes33 ==
  ASSUME NEW h \in Nat
  PROVE  /\ Times33(h) \in Longs
         /\ Cut(Times33(h)) = (Cut(h) * 33) % IntSize
<1> DEFINE c == h % IntSize
           q == h \div IntSize
           y == h * 33
<1>1. IntSize \in Nat \ {0} /\ LongSize \in Nat \ {0} /\ LongSize % IntSize = 0
  BY SizesAreWhole
<1>2. h = IntSize * q + c /\ q \in Nat /\ c \in Nat
  BY <1>1
<1>3. y \in Nat
  OBVIOUS
<1>4. (y % LongSize) % IntSize = y % IntSize
  <2> HIDE DEF y
  <2>1. QED
    BY <1>1, <1>3, RemainderOfRemainder
<1>5. y = IntSize * (33 * q) + c * 33
  <2> HIDE DEF q, c
  <2>1. QED
    BY <1>1, <1>2
<1>6. y % IntSize = (c * 33) % IntSize
  <2> HIDE DEF q, c, y
  <2>1. 33 * q \in Nat /\ c * 33 \in Nat
    BY <1>2
  <2>2. QED
    BY <1>1, <1>5, <2>1, RemainderOfSum
<1>7. y % LongSize \in 0 .. LongSize - 1
  BY <1>1, <1>3
<1>8. QED
  BY <1>4, <1>6, <1>7 DEF Times33, Cut, Longs

-----------------------------------------------------------------------------
(* The hash *)

(* The sign an int is extended with is cut off again.                        *)
LEMMA CutOfMixed ==
  ASSUME NEW c \in Chars
  PROVE  MixedInt(c) \in Ints /\ Mixed(c) \in Longs /\ Cut(Mixed(c)) = MixedInt(c)
<1>1. c \in Int /\ IntSize \in Nat \ {0} /\ CharSize \in Nat /\ IntSize <= LongSize
  BY SizesAreWhole DEF Chars
<1>2. CharSize * CharSize \in Nat /\ CharSize * CharSize * CharSize \in Nat
  BY <1>1
<1>3. \A x \in Int : (x % IntSize) \in Ints
  BY <1>1 DEF Ints
<1>4. AsInt(c) \in Ints /\ AsInt(c) \in Nat
  BY <1>1, <1>3 DEF AsInt, Ints
<1>5. ASSUME NEW n \in Nat
      PROVE  Shifted(c, n) \in Ints
  <2>1. AsInt(c) * n \in Int
    BY <1>4
  <2>2. QED
    BY <1>3, <2>1 DEF Shifted
<1>6. MixedInt(c) \in Ints
  BY <1>1, <1>2, <1>4, <1>5, XorAssumption DEF MixedInt
<1> DEFINE x == MixedInt(c)
           q == LongSize \div IntSize
           m == AsLong(x)
<1>7. LongSize = IntSize * q /\ q \in Nat /\ q - 1 \in Nat /\ LongSize \in Nat
  <2>1. LongSize = IntSize * q /\ q \in Nat /\ LongSize \in Nat \ {0}
    BY <1>1, SizesAreWhole
  <2> HIDE DEF q
  <2>2. q # 0
    BY <1>1, <2>1
  <2>3. QED
    BY <2>1, <2>2
<1>8. x \in Nat /\ x < IntSize
  BY <1>1, <1>6 DEF Ints
<1>9. m = x \/ m = x + LongSize - IntSize
  BY DEF AsLong
<1> HIDE DEF x, q, m
<1>10. x % IntSize = x
  BY <1>1, <1>8
<1>11. m \in Longs /\ m % IntSize = x
  <2>1. CASE m = x
    BY <1>1, <1>7, <1>8, <1>10, <2>1 DEF Longs
  <2>2. CASE m = x + LongSize - IntSize
    <3>1. m \in Longs
      BY <1>1, <1>7, <1>8, <2>2 DEF Longs
    <3>2. m = IntSize * (q - 1) + x
      BY <1>1, <1>7, <1>8, <2>2
    <3> DEFINE z == q - 1
    <3>3. z \in Nat /\ m = IntSize * z + x
      BY <1>7, <3>2
    <3> HIDE DEF z
    <3>4. m % IntSize = x % IntSize
      BY <1>1, <1>8, <3>3, RemainderOfSum
    <3>5. QED
      BY <1>10, <3>1, <3>4
  <2>3. QED
    BY <1>9, <2>1, <2>2
<1>12. QED
  BY <1>6, <1>11 DEF Mixed, Cut, m, x

(* One turn of the loop of zynk_hash_string, and what is left of it in 32    *)
(* bits.                                                                     *)
LEMMA HashStep ==
  ASSUME NEW h \in Longs, NEW c \in Chars
  PROVE  /\ XorOf(Times33(h), Mixed(c)) \in Longs
         /\ Cut(XorOf(Times33(h), Mixed(c)))
              = XorOf((Cut(h) * 33) % IntSize, MixedInt(c))
<1>1. h \in Nat
  BY DEF Longs
<1>2. /\ Times33(h) \in Longs
      /\ Cut(Times33(h)) = (Cut(h) * 33) % IntSize
  BY <1>1, CutTimes33
<1>3. QED
  BY <1>2, CutOfMixed, XorAssumption

LEMMA SeedIsLong == Seed \in Longs
BY SizesAreWhole DEF Seed, Longs

Turn(v, c) == XorOf((v * 33) % IntSize, MixedInt(c))

LEMMA TurnIsInt ==
  ASSUME NEW v \in Ints, NEW c \in Chars
  PROVE  Turn(v, c) \in Ints
<1>1. v \in Longs /\ v \in Nat /\ Cut(v) = v
  BY SizesAreWhole DEF Ints, Longs, Cut
<1>2. /\ XorOf(Times33(v), Mixed(c)) \in Longs
      /\ Cut(XorOf(Times33(v), Mixed(c))) = Turn(v, c)
  BY <1>1, HashStep DEF Turn
<1>3. XorOf(Times33(v), Mixed(c)) \in Nat
  BY <1>2 DEF Longs
<1>4. QED
  BY <1>2, <1>3, CutIsInt

(* What zynk_hash_string would compute in 32 bits alone, byte by byte. *)
LEMMA NarrowRun ==
  ASSUME NEW name \in Seq(Chars)
  PROVE  /\ NarrowHash(name, 0) = Cut(Seed)
         /\ \A n \in 0 .. Len(name) - 1 :
              NarrowHash(name, n + 1) = Turn(NarrowHash(name, n), name[n + 1])
         /\ \A n \in 0 .. Len(name) : NarrowHash(name, n) \in Ints
<1> DEFINE N == Len(name)
           T == Ints \X (0 .. N)
           x == <<Cut(Seed), 0>>
           next == [p \in T |-> IF p[2] < N THEN <<Turn(p[1], name[p[2] + 1]), p[2] + 1>>
                                ELSE p]
<1>1. N \in Nat /\ \A n \in 0 .. N - 1 : name[n + 1] \in Chars
  OBVIOUS
<1>2. Cut(Seed) \in Ints
  BY SeedIsLong, CutIsInt DEF Longs
<1>3. next \in [T -> T]
  <2> HIDE DEF N
  <2>1. ASSUME NEW p \in T, p[2] < N
        PROVE  <<Turn(p[1], name[p[2] + 1]), p[2] + 1>> \in T
    <3>1. p[1] \in Ints /\ p[2] \in 0 .. N - 1 /\ p[2] + 1 \in 0 .. N
      BY <1>1, <2>1
    <3>2. QED
      BY <1>1, <3>1, TurnIsInt
  <2>2. QED
    BY <2>1
<1>4. PICK g \in [0 .. N -> T] : g[0] = x /\ \A n \in 0 .. N - 1 : g[n + 1] = next[g[n]]
  <2>1. N \in Nat /\ x \in T /\ next \in [T -> T]
    BY <1>1, <1>2, <1>3
  <2> HIDE DEF N, T, x, next
  <2>2. Repeats(N, T, x, next)
    BY <2>1, RecursionUpTo
  <2>3. QED
    BY <2>2 DEF Repeats
<1>5. \A n \in 0 .. N : g[n][2] = n
  <2> DEFINE D == {n \in 0 .. N : g[n][2] = n}
  <2>1. 0 \in D
    BY <1>1, <1>4
  <2>2. ASSUME NEW n \in 0 .. N - 1, n \in D
        PROVE  n + 1 \in D
    <3>1. g[n] \in T /\ g[n][2] = n /\ n < N /\ n + 1 \in 0 .. N
      BY <1>1, <1>4, <2>2
    <3>2. g[n + 1] = <<Turn(g[n][1], name[n + 1]), n + 1>>
      BY <1>4, <3>1
    <3>3. QED
      BY <3>1, <3>2
  <2> HIDE DEF D, N
  <2>3. 0 .. N \subseteq D
    BY <1>1, <2>1, <2>2, InductionUpTo
  <2>4. QED
    BY <2>3 DEF D
<1> DEFINE f == [n \in 0 .. N |-> g[n][1]]
           Of(h, n) == IF n = 0 THEN Cut(Seed) ELSE Turn(h[n - 1], name[n])
           Run(h) == h = [n \in 0 .. N |-> Of(h, n)]
           h == CHOOSE h : Run(h)
<1>6. ASSUME NEW n \in 0 .. N
      PROVE  f[n] = Of(f, n)
  <2>1. CASE n = 0
    BY <1>1, <1>4, <2>1
  <2>2. CASE n # 0
    <3>1. n - 1 \in 0 .. N - 1 /\ (n - 1) + 1 = n /\ n - 1 \in 0 .. N /\ n - 1 < N
      BY <1>1, <2>2
    <3>2. g[n] = next[g[n - 1]] /\ g[n - 1] \in T /\ g[n - 1][2] = n - 1
      BY <1>4, <1>5, <3>1
    <3>3. g[n] = <<Turn(g[n - 1][1], name[n]), n>>
      BY <3>1, <3>2
    <3>4. QED
      BY <2>2, <3>1, <3>3
  <2>3. QED
    BY <2>1, <2>2
<1> HIDE DEF N
<1>7. Run(f)
  <2> HIDE DEF Of
  <2>1. QED
    BY <1>6
<1>8. Run(h)
  <2> HIDE DEF Run, f
  <2>1. QED
    BY <1>7
<1>9. \A n : NarrowHash(name, n) = h[n]
  BY DEF NarrowHash, Turn, N
<1> HIDE DEF h, f
<1>10. ASSUME NEW n \in 0 .. N
       PROVE  h[n] = Of(h, n)
  <2> HIDE DEF Of
  <2>1. QED
    BY <1>8
<1>11. h[0] = Cut(Seed)
  BY <1>1, <1>10
<1>12. ASSUME NEW n \in 0 .. N - 1
       PROVE  h[n + 1] = Turn(h[n], name[n + 1])
  <2>1. n + 1 \in 0 .. N /\ n + 1 # 0 /\ (n + 1) - 1 = n
    BY <1>1
  <2>2. h[n + 1] = Of(h, n + 1)
    BY <1>10, <2>1
  <2>3. QED
    BY <2>1, <2>2
<1>13. \A n \in 0 .. N : h[n] \in Ints
  <2> DEFINE D == {n \in 0 .. N : h[n] \in Ints}
  <2>1. 0 \in D
    BY <1>1, <1>2, <1>11
  <2>2. ASSUME NEW n \in 0 .. N - 1, n \in D
        PROVE  n + 1 \in D
    <3>1. h[n] \in Ints /\ name[n + 1] \in Chars /\ n + 1 \in 0 .. N
      BY <1>1, <2>2
    <3>2. Turn(h[n], name[n + 1]) \in Ints
      BY <3>1, TurnIsInt
    <3>3. QED
      BY <1>12, <3>1, <3>2
  <2> HIDE DEF D
  <2>3. 0 .. N \subseteq D
    BY <1>1, <2>1, <2>2, InductionUpTo
  <2>4. QED
    BY <2>3 DEF D
<1>14. QED
  BY <1>9, <1>11, <1>12, <1>13 DEF N

-----------------------------------------------------------------------------
(* The comparison of names *)

LEMMA LengthOfName ==
  ASSUME NEW name \in Names
  PROVE  zynk_len(name) = Len(name)
<1>1. /\ name # Missing /\ name \in Seq(Chars) /\ Len(name) \in Nat
      /\ \A i \in 1 .. Len(name) : name[i] \in Chars
  BY NamesAssumption
<1>2. \A i \in 1 .. Len(name) : Bytes(name)[i] = name[i] /\ name[i] # End
  BY <1>1 DEF Bytes, End, Chars
<1>3. Bytes(name)[Len(name) + 1] = End
  BY <1>1 DEF Bytes
<1> DEFINE Is(i) == /\ Bytes(name)[i + 1] = End
                    /\ \A j \in 1 .. i : Bytes(name)[j] # End
<1>4. Is(Len(name)) /\ Len(name) \in 0 .. Len(name)
  BY <1>1, <1>2, <1>3
<1>5. ASSUME NEW i \in 0 .. Len(name), Is(i)
      PROVE  i = Len(name)
  <2>1. i < Len(name) => i + 1 \in 1 .. Len(name)
    BY <1>1
  <2>2. ~ (i < Len(name))
    BY <1>2, <1>5, <2>1
  <2>3. QED
    BY <1>1, <2>2
<1>6. zynk_len(name) = CHOOSE i \in 0 .. Len(name) : Is(i)
  BY <1>1 DEF zynk_len
<1> HIDE DEF Is
<1>7. QED
  BY <1>4, <1>5, <1>6

(* The comparison by length and bytes accepts exactly the names the models   *)
(* of tables take for a match, "" in a slot whose name is NULL included.     *)
LEMMA AcceptsStops ==
  ASSUME NEW t, NEW i, t[i].name \in Names \union {Missing}, key \in Names
  PROVE  Accepts(t[i].name) <=> Reference!Stops(t, key, niu, i)
<1> DEFINE name == t[i].name
<1>1. Reference!Stops(t, key, niu, i)
        <=> (niu /\ name = Missing) \/ name = key \/ (key = <<>> /\ name = Missing)
  BY DEF Reference!Stops, Reference!Matches
<1>2. /\ key \in Seq(Chars) /\ key # Missing /\ zynk_len(key) = Len(key)
      /\ Len(key) \in Nat
  BY LengthOfName, NamesAssumption
<1> HIDE DEF name
<1>3. CASE name = Missing
  <2>1. zynk_len(name) = 0
    BY <1>3 DEF zynk_len
  <2>2. Len(key) = 0 <=> key = <<>>
    BY <1>2
  <2>3. Accepts(name) <=> niu \/ key = <<>>
    BY <1>2, <1>3, <2>1, <2>2 DEF Accepts
  <2>4. QED
    BY <1>1, <1>2, <1>3, <2>3 DEF name
<1>4. CASE name # Missing
  <2>1. /\ name \in Names /\ name \in Seq(Chars) /\ zynk_len(name) = Len(name)
        /\ Len(name) \in Nat
    BY <1>4, LengthOfName, NamesAssumption DEF name
  <2>2. \A j \in 1 .. Len(name) : Bytes(name)[j] = name[j]
    BY <2>1 DEF Bytes
  <2>3. \A j \in 1 .. Len(key) : Bytes(key)[j] = key[j]
    BY <1>2 DEF Bytes
  <2>4. Accepts(name)
          <=> Len(key) = Len(name) /\ \A j \in 1 .. Len(key) : Bytes(name)[j] = Bytes(key)[j]
    BY <1>2, <1>4, <2>1 DEF Accepts, zynk_strcmp
  <2>5. Accepts(name) <=> Len(key) = Len(name) /\ \A j \in 1 .. Len(key) : name[j] = key[j]
    BY <2>2, <2>3, <2>4
  <2>6. Accepts(name) <=> name = key
    BY <1>2, <2>1, <2>5
  <2>7. QED
    BY <1>1, <1>4, <2>6 DEF name
<1>5. QED
  BY <1>3, <1>4
-----------------------------------------------------------------------------
(* The probe *)

Probe(j) == Reference!Probe(key, j)

StopsAt(j) == Reference!Stops(entries, key, niu, Probe(j))

LEMMA ProbeIsRemainder ==
  ASSUME TypeOK, NEW j \in Nat
  PROVE  /\ NarrowHash(key, Len(key)) \in Nat
         /\ Probe(j) = (NarrowHash(key, Len(key)) + j) % Capacity
         /\ Probe(j) \in Slots
<1>1. key \in Names /\ key \in Seq(Chars) /\ Capacity \in Nat \ {0}
  BY NamesAssumption DEF TypeOK
<1>2. NarrowHash(key, Len(key)) \in Nat
  <2>1. Len(key) \in 0 .. Len(key)
    BY <1>1
  <2>2. QED
    BY <1>1, <2>1, NarrowRun DEF Ints
<1>3. Probe(j) = (NarrowHash(key, Len(key)) + j) % Capacity
  BY <1>1 DEF Probe, Reference!Probe, NarrowHashes
<1> DEFINE x == NarrowHash(key, Len(key)) + j
<1>4. x \in Nat
  BY <1>2
<1> HIDE DEF x
<1>5. (x % Capacity) \in Slots
  BY <1>1, <1>4 DEF Slots
<1>6. QED
  BY <1>2, <1>3, <1>5 DEF x

(* One slot further, and back at the first one after a round, not before. *)
LEMMA ProbeFollows ==
  ASSUME TypeOK, NEW j \in 0 .. Capacity - 1
  PROVE  /\ Following(Probe(j)) = Probe(j + 1)
         /\ Probe(j + 1) = Probe(0) <=> j + 1 = Capacity
<1> DEFINE x == NarrowHash(key, Len(key))
           y == x + j
           q == y \div Capacity
           r == y % Capacity
<1>1. Capacity \in Nat \ {0} /\ j \in Nat
  BY NamesAssumption
<1>2. x \in Nat
  BY <1>1, ProbeIsRemainder
<1>3. /\ Probe(j) = r /\ Probe(j + 1) = (x + (j + 1)) % Capacity
      /\ Probe(0) = (x + 0) % Capacity
  BY <1>1, ProbeIsRemainder
<1> HIDE DEF x
<1>4. y \in Nat /\ x + (j + 1) = y + 1 /\ x + 0 = x
  BY <1>1, <1>2
<1> HIDE DEF y
<1>5. y = Capacity * q + r /\ q \in Nat /\ r \in 0 .. Capacity - 1
  BY <1>1, <1>4
<1> HIDE DEF q, r
<1>6. (y + 1) % Capacity = (r + 1) % Capacity
  <2>1. y + 1 = Capacity * q + (r + 1) /\ r + 1 \in Nat
    BY <1>1, <1>5
  <2>2. QED
    BY <1>1, <1>5, <2>1, RemainderOfSum
<1>7. Following(Probe(j)) = Probe(j + 1)
  BY <1>3, <1>4, <1>6 DEF Following
<1>8. (x + (j + 1)) % Capacity = x % Capacity <=> j + 1 = Capacity
  <2> DEFINE s == x % Capacity
             p == x \div Capacity
             d == j + 1
  <2>1. x = Capacity * p + s /\ p \in Nat /\ s \in 0 .. Capacity - 1
    BY <1>1, <1>2
  <2>2. d \in 1 .. Capacity /\ d \in Nat
    BY <1>1
  <2> HIDE DEF s, p, d
  <2>3. x + d = Capacity * p + (s + d) /\ s + d \in Nat
    BY <1>1, <2>1, <2>2
  <2>4. (x + d) % Capacity = (s + d) % Capacity
    <3> DEFINE e == s + d
    <3>1. x + d = Capacity * p + e /\ e \in Nat
      BY <2>3
    <3> HIDE DEF e
    <3>2. (Capacity * p + e) % Capacity = e % Capacity
      BY <1>1, <2>1, <3>1, RemainderOfSum
    <3>3. QED
      BY <3>1, <3>2 DEF e
  <2>5. CASE s + d < Capacity
    <3>1. (s + d) % Capacity = s + d
      BY <1>1, <2>3, <2>5
    <3>2. s + d # s /\ d # Capacity
      BY <1>1, <2>1, <2>2, <2>5
    <3>3. QED
      BY <2>4, <3>1, <3>2 DEF s, d
  <2>6. CASE s + d >= Capacity
    <3>1. s + d = Capacity * 1 + (s + d - Capacity) /\ s + d - Capacity \in 0 .. Capacity - 1
      BY <1>1, <2>1, <2>2, <2>6
    <3>2. (s + d) % Capacity = s + d - Capacity
      BY <1>1, <3>1
    <3>3. s + d - Capacity = s <=> d = Capacity
      BY <1>1, <2>1, <2>2
    <3>4. QED
      BY <2>4, <3>2, <3>3 DEF s, d
  <2>7. QED
    BY <1>1, <2>1, <2>2, <2>5, <2>6
<1>9. QED
  BY <1>3, <1>4, <1>7, <1>8

(* The first slot on the way that stops the probe is the answer of Probing. *)
LEMMA AnswerIsFirst ==
  ASSUME NEW j \in 0 .. Capacity - 1, StopsAt(j), \A i \in 0 .. j - 1 : ~ StopsAt(i),
         Capacity \in Nat
  PROVE  Reference!zynkFindEntry(entries, key, niu) = {Probe(j)}
<1> DEFINE hits == {i \in Reference!Probes : StopsAt(i)}
           least == {x \in hits : \A m \in hits : x <= m}
<1>1. Reference!zynkFindEntry(entries, key, niu) = {Probe(i) : i \in least}
  BY DEF Reference!zynkFindEntry, StopsAt, Probe
<1>2. \A m \in hits : j <= m /\ m \in Nat
  BY DEF Reference!Probes
<1>3. j \in hits
  BY DEF Reference!Probes
<1> HIDE DEF hits
<1>4. j \in least
  BY <1>2, <1>3
<1>5. ASSUME NEW m \in least
      PROVE  m = j
  <2>1. m <= j /\ j <= m /\ m \in Nat /\ j \in Nat
    BY <1>2, <1>3, <1>5
  <2>2. QED
    BY <2>1
<1> HIDE DEF least
<1>6. least = {j}
  BY <1>4, <1>5
<1>7. QED
  BY <1>1, <1>6

LEMMA NoAnswer ==
  ASSUME \A i \in 0 .. Capacity - 1 : ~ StopsAt(i)
  PROVE  Reference!zynkFindEntry(entries, key, niu) = {}
BY DEF Reference!zynkFindEntry, Reference!Probes, StopsAt, Probe

-----------------------------------------------------------------------------
(* The inductive invariant *)

(* The loop is at the j-th slot of its round, and none before stopped it.    *)
Underway ==
  /\ limit = Probe(0)
  /\ \E j \in 0 .. Capacity - 1 :
       index = Probe(j) /\ \A i \in 0 .. j - 1 : ~ StopsAt(i)

LInv ==
  /\ TypeOK
  /\ HashPortable
  /\ pc # "done" => found = {}
  /\ pc = "probe" => Underway
  /\ AnswersAsProbing

LEMMA NamesAreBytes ==
  ASSUME TypeOK
  PROVE  /\ key \in Seq(Chars) /\ Len(key) \in Nat
         /\ \A n \in 0 .. Len(key) - 1 : key[n + 1] \in Chars
         /\ 0 \in Slots /\ Capacity \in Nat \ {0}
<1>1. key \in Seq(Chars) /\ Capacity \in Nat \ {0}
  BY NamesAssumption DEF TypeOK
<1>2. QED
  BY <1>1 DEF Slots

LEMMA InitLInv ==
  ASSUME Init
  PROVE  LInv
<1>1. key \in Names /\ key \in Seq(Chars) /\ Capacity \in Nat \ {0}
  BY NamesAssumption DEF Init
<1>2. Len(key) \in Nat /\ 0 \in Slots
  BY <1>1 DEF Slots
<1>3. TypeOK
  BY <1>1, <1>2, SeedIsLong DEF Init, TypeOK
<1>4. HashPortable
  BY <1>1, NarrowRun DEF Init, HashPortable
<1>5. QED
  BY <1>3, <1>4 DEF Init, LInv, AnswersAsProbing

LEMMA HashCharKeeps ==
  ASSUME LInv, HashChar
  PROVE  LInv'
<1>1. /\ TypeOK /\ pc = "hash" /\ found = {} /\ Cut(hash) = NarrowHash(key, read)
      /\ read < Len(key) /\ read' = read + 1
      /\ hash' = XorOf(Times33(hash), Mixed(key[read + 1]))
      /\ entries' = entries /\ key' = key /\ niu' = niu
      /\ pc' = pc /\ index' = index /\ limit' = limit /\ found' = found
  BY DEF LInv, HashChar, HashPortable, call
<1>2. /\ key \in Seq(Chars) /\ Len(key) \in Nat /\ read \in 0 .. Len(key) - 1
      /\ key[read + 1] \in Chars /\ hash \in Longs /\ read + 1 \in 0 .. Len(key)
  <2>1. key \in Seq(Chars) /\ Len(key) \in Nat
    BY <1>1, NamesAreBytes
  <2>2. read \in 0 .. Len(key) - 1 /\ read + 1 \in 0 .. Len(key) /\ hash \in Longs
    BY <1>1, <2>1 DEF TypeOK
  <2>3. QED
    BY <1>1, <2>1, <2>2, NamesAreBytes
<1>3. hash' \in Longs /\ Cut(hash') = Turn(Cut(hash), key[read + 1])
  BY <1>1, <1>2, HashStep DEF Turn
<1>4. NarrowHash(key, read + 1) = Turn(NarrowHash(key, read), key[read + 1])
  BY <1>2, NarrowRun
<1>5. TypeOK'
  BY <1>1, <1>2, <1>3 DEF TypeOK
<1>6. HashPortable'
  BY <1>1, <1>3, <1>4 DEF HashPortable
<1>7. QED
  BY <1>1, <1>5, <1>6 DEF LInv, AnswersAsProbing

LEMMA HashEndKeeps ==
  ASSUME LInv, HashEnd
  PROVE  LInv'
<1>1. /\ TypeOK /\ pc = "hash" /\ found = {} /\ Cut(hash) = NarrowHash(key, Len(key))
      /\ read = Len(key) /\ index' = Cut(hash) % Capacity /\ limit' = index'
      /\ pc' = "probe" /\ read' = read /\ hash' = hash /\ found' = found
      /\ entries' = entries /\ key' = key /\ niu' = niu
  BY DEF LInv, HashEnd, HashPortable, call
<1>2. Capacity \in Nat \ {0} /\ Len(key) \in Nat
  BY <1>1, NamesAreBytes
<1>3. index' = Probe(0) /\ Probe(0) \in Slots
  BY <1>1, ProbeIsRemainder
<1>4. TypeOK'
  BY <1>1, <1>3 DEF TypeOK
<1>5. Probe(0)' = Probe(0)
  BY <1>1 DEF Probe, Reference!Probe
<1>6. Underway'
  <2>1. 0 \in 0 .. Capacity - 1 /\ 0 .. 0 - 1 = {}
    BY <1>2
  <2>2. QED
    BY <1>1, <1>3, <1>5, <2>1 DEF Underway
<1>7. HashPortable'
  BY <1>1 DEF HashPortable, LInv
<1>8. QED
  BY <1>1, <1>4, <1>6, <1>7 DEF LInv, AnswersAsProbing

LEMMA ProbeHitKeeps ==
  ASSUME LInv, ProbeHit
  PROVE  LInv'
<1>1. /\ TypeOK /\ pc = "probe" /\ Underway /\ HashPortable
      /\ Accepts(entries[index].name) /\ found' = {index} /\ pc' = "done"
      /\ entries' = entries /\ key' = key /\ niu' = niu
      /\ read' = read /\ hash' = hash /\ index' = index /\ limit' = limit
  BY DEF LInv, ProbeHit, call
<1>2. PICK j \in 0 .. Capacity - 1 :
         index = Probe(j) /\ \A i \in 0 .. j - 1 : ~ StopsAt(i)
  BY <1>1 DEF Underway
<1>3. entries[index].name \in Names \union {Missing} /\ key \in Names /\ index \in Slots
  BY <1>1 DEF TypeOK, Entry
<1>4. StopsAt(j)
  BY <1>1, <1>2, <1>3, AcceptsStops DEF StopsAt
<1>5. found' = Reference!zynkFindEntry(entries, key, niu)
  BY <1>1, <1>2, <1>4, AnswerIsFirst, NamesAreBytes
<1>6. TypeOK'
  BY <1>1, <1>3 DEF TypeOK
<1>7. HashPortable'
  BY <1>1 DEF HashPortable
<1>8. AnswersAsProbing'
  BY <1>1, <1>5 DEF AnswersAsProbing
<1>9. QED
  BY <1>1, <1>6, <1>7, <1>8 DEF LInv

LEMMA ProbeNextKeeps ==
  ASSUME LInv, ProbeNext
  PROVE  LInv'
<1>1. /\ TypeOK /\ pc = "probe" /\ Underway /\ HashPortable /\ found = {}
      /\ ~ Accepts(entries[index].name) /\ index' = Following(index)
      /\ pc' = IF RoundOver(index') THEN "done" ELSE "probe"
      /\ entries' = entries /\ key' = key /\ niu' = niu
      /\ read' = read /\ hash' = hash /\ limit' = limit /\ found' = found
  BY DEF LInv, ProbeNext, call
<1>2. PICK j \in 0 .. Capacity - 1 :
         index = Probe(j) /\ \A i \in 0 .. j - 1 : ~ StopsAt(i)
  BY <1>1 DEF Underway
<1>3. entries[index].name \in Names \union {Missing} /\ key \in Names
  BY <1>1 DEF TypeOK, Entry
<1>4. ~ StopsAt(j)
  BY <1>1, <1>2, <1>3, AcceptsStops DEF StopsAt
<1>5. \A i \in 0 .. j : ~ StopsAt(i)
  BY <1>2, <1>4
<1>6. Capacity \in Nat \ {0} /\ j + 1 \in Nat
  BY <1>1, NamesAreBytes
<1>7. /\ index' = Probe(j + 1) /\ Probe(j + 1) \in Slots
      /\ RoundOver(index') <=> j + 1 = Capacity
  BY <1>1, <1>2, <1>6, ProbeFollows, ProbeIsRemainder DEF RoundOver, Underway
<1>8. TypeOK'
  BY <1>1, <1>7 DEF TypeOK
<1>9. HashPortable'
  BY <1>1 DEF HashPortable
<1>10. pc' = "probe" => Underway'
  <2> SUFFICES ASSUME pc' = "probe"
               PROVE  Underway'
    OBVIOUS
  <2>1. j + 1 \in 0 .. Capacity - 1 /\ (j + 1) - 1 = j
    BY <1>1, <1>6, <1>7
  <2>2. \A i : Probe(i)' = Probe(i) /\ StopsAt(i)' = StopsAt(i)
    BY <1>1 DEF Probe, Reference!Probe, StopsAt, Reference!Stops, Reference!Matches
  <2>3. QED
    BY <1>1, <1>5, <1>7, <2>1, <2>2 DEF Underway
<1>11. AnswersAsProbing'
  <2> SUFFICES ASSUME pc' = "done"
               PROVE  found' = Reference!zynkFindEntry(entries, key, niu)'
    BY DEF AnswersAsProbing
  <2>1. \A i \in 0 .. Capacity - 1 : ~ StopsAt(i)
    BY <1>1, <1>5, <1>6, <1>7
  <2>2. QED
    BY <1>1, <2>1, NoAnswer
<1>12. QED
  BY <1>1, <1>8, <1>9, <1>10, <1>11 DEF LInv

THEOREM InductiveInvariant == Spec => []LInv
<1>1. LInv /\ [Next]_vars => LInv'
  <2> SUFFICES ASSUME LInv, [Next]_vars
               PROVE  LInv'
    OBVIOUS
  <2>1. CASE HashChar
    BY <2>1, HashCharKeeps
  <2>2. CASE HashEnd
    BY <2>2, HashEndKeeps
  <2>3. CASE ProbeHit
    BY <2>3, ProbeHitKeeps
  <2>4. CASE ProbeNext
    BY <2>4, ProbeNextKeeps
  <2>5. CASE UNCHANGED vars
    BY <2>5 DEF vars, call, LInv, TypeOK, HashPortable, Underway, AnswersAsProbing,
       Probe, StopsAt
  <2>6. QED
    BY <2>1, <2>2, <2>3, <2>4, <2>5 DEF Next
<1>2. QED
  BY InitLInv, <1>1, PTL DEF Spec

(* Every index of the probe is one of the table, and the hash keeps to the   *)
(* width of unsigned long, for every capacity and every name.                *)
THEOREM TypeCorrect == Spec => []TypeOK
<1>1. LInv => TypeOK
  BY DEF LInv
<1>2. QED
  BY InductiveInvariant, <1>1, PTL

(* Whatever the widths of char, int and unsigned long, the bits an unsigned  *)
(* long carries above an int never reach the hash of a name.                 *)
THEOREM HashIsPortable == Spec => []HashPortable
<1>1. LInv => HashPortable
  BY DEF LInv
<1>2. QED
  BY InductiveInvariant, <1>1, PTL

(* The endless loop that compares bytes answers what Probing does, on which  *)
(* the models of the tables and all their theorems rest.                     *)
THEOREM LoopAnswersAsProbing == Spec => []AnswersAsProbing
<1>1. LInv => AnswersAsProbing
  BY DEF LInv
<1>2. QED
  BY InductiveInvariant, <1>1, PTL

(* A turn of the hash takes a byte off what is left, the end of the hash one *)
(* turn, and a turn of the probe a slot of the round; the slot before the    *)
(* first one of the round is its last.                                       *)
LEMMA ProbeIsWayFrom ==
  ASSUME TypeOK, NEW j \in 0 .. Capacity - 1
  PROVE  (Probe(j) - Probe(0)) % Capacity = j
<1> DEFINE x == NarrowHash(key, Len(key))
           s == x % Capacity
           p == x \div Capacity
<1>1. Capacity \in Nat \ {0} /\ j \in Nat /\ j < Capacity
  BY NamesAssumption
<1>2. x \in Nat
  BY <1>1, ProbeIsRemainder
<1>3. Probe(j) = (x + j) % Capacity /\ Probe(0) = (x + 0) % Capacity
  BY <1>1, ProbeIsRemainder
<1> HIDE DEF x
<1>4. x + 0 = x /\ x = Capacity * p + s /\ p \in Nat /\ s \in 0 .. Capacity - 1
  BY <1>1, <1>2
<1>5. Probe(0) = s
  BY <1>3, <1>4
<1> HIDE DEF s, p
<1> DEFINE e == s + j
<1>6. x + j = Capacity * p + e /\ e \in Nat
  BY <1>1, <1>4
<1> HIDE DEF e
<1>7. (x + j) % Capacity = e % Capacity
  <2>1. (Capacity * p + e) % Capacity = e % Capacity
    BY <1>1, <1>4, <1>6, RemainderOfSum
  <2>2. QED
    BY <1>6, <2>1
<1>8. CASE e < Capacity
  <2>1. e % Capacity = e
    BY <1>1, <1>6, <1>8
  <2>2. Probe(j) - Probe(0) = j
    BY <1>1, <1>3, <1>4, <1>5, <1>7, <2>1 DEF e
  <2>3. j % Capacity = j
    BY <1>1
  <2>4. QED
    BY <2>2, <2>3
<1>9. CASE e >= Capacity
  <2>1. e - Capacity \in 0 .. Capacity - 1 /\ e = Capacity * 1 + (e - Capacity)
    BY <1>1, <1>4, <1>6, <1>9 DEF e
  <2>2. e % Capacity = e - Capacity
    BY <1>1, <2>1
  <2>3. Probe(j) - Probe(0) = j - Capacity
    BY <1>1, <1>3, <1>4, <1>5, <1>7, <2>2 DEF e
  <2>4. j - Capacity = Capacity * (-1) + j
    BY <1>1
  <2>5. (j - Capacity) % Capacity = j
    BY <1>1, <2>4
  <2>6. QED
    BY <2>3, <2>5
<1>10. QED
  BY <1>1, <1>6, <1>8, <1>9

(* A search ends after at most as many turns as the name has bytes and the   *)
(* table slots: the variant of both loops, for tables of any capacity and a  *)
(* round that starts anywhere.                                               *)
THEOREM TurnsAreFinite == Spec => TurnsRunOut
<1>1. ASSUME LInv, Next
      PROVE  Remaining' < Remaining
  <2>1. TypeOK /\ Capacity \in Nat \ {0} /\ Len(key) \in Nat
    BY <1>1, NamesAreBytes DEF LInv
  <2>2. CASE HashChar
    <3>1. /\ Remaining = Len(key) - read + Capacity + 1
          /\ Remaining' = Len(key) - (read + 1) + Capacity + 1
      BY <2>2 DEF HashChar, Remaining, call
    <3>2. read \in Nat
      BY <2>1 DEF TypeOK
    <3>3. QED
      BY <2>1, <3>1, <3>2
  <2>3. CASE HashEnd
    <3>1. Remaining = Len(key) - Len(key) + Capacity + 1
      BY <2>3 DEF HashEnd, Remaining
    <3>2. Remaining' = Capacity - ((limit' - limit') % Capacity)
      BY <2>3 DEF HashEnd, Remaining
    <3>3. limit' \in Int
      <4>1. LInv'
        BY <1>1, <2>3, HashEndKeeps
      <4>2. QED
        BY <4>1, <2>1 DEF LInv, TypeOK, Slots
    <3>4. (limit' - limit') % Capacity = 0
      <4>1. \A z \in Int : (z - z) % Capacity = 0
        BY <2>1
      <4>2. QED
        BY <3>3, <4>1
    <3>5. QED
      BY <2>1, <3>1, <3>2, <3>4
  <2>4. ASSUME NEW j \in 0 .. Capacity - 1, pc = "probe", Underway, index = Probe(j)
        PROVE  Remaining = Capacity - j
    BY <2>1, <2>4, ProbeIsWayFrom DEF Remaining, Underway
  <2>5. CASE ProbeHit
    <3>1. pc = "probe" /\ Underway /\ Remaining' = 0
      BY <1>1, <2>5 DEF LInv, ProbeHit, Remaining
    <3>2. PICK j \in 0 .. Capacity - 1 : index = Probe(j)
      BY <3>1 DEF Underway
    <3>3. Remaining = Capacity - j
      BY <2>4, <3>1, <3>2
    <3>4. QED
      BY <2>1, <3>1, <3>3
  <2>6. CASE ProbeNext
    <3>1. /\ pc = "probe" /\ Underway /\ limit' = limit /\ index' = Following(index)
          /\ pc' = IF RoundOver(index') THEN "done" ELSE "probe"
      BY <1>1, <2>6 DEF LInv, ProbeNext
    <3>2. PICK j \in 0 .. Capacity - 1 : index = Probe(j)
      BY <3>1 DEF Underway
    <3>3. Remaining = Capacity - j
      BY <2>4, <3>1, <3>2
    <3>4. /\ index' = Probe(j + 1) /\ limit = Probe(0)
          /\ RoundOver(index') <=> j + 1 = Capacity
      BY <2>1, <3>1, <3>2, ProbeFollows DEF RoundOver, Underway
    <3>5. CASE j + 1 = Capacity
      <4>1. Remaining' = 0
        BY <3>1, <3>4, <3>5 DEF Remaining
      <4>2. QED
        BY <2>1, <3>3, <4>1
    <3>6. CASE j + 1 # Capacity
      <4>1. j + 1 \in 0 .. Capacity - 1
        BY <2>1, <3>6
      <4>2. Remaining' = Capacity - ((Probe(j + 1) - Probe(0)) % Capacity)
        BY <3>1, <3>4, <3>6 DEF Remaining
      <4>3. Remaining' = Capacity - (j + 1)
        BY <2>1, <4>1, <4>2, ProbeIsWayFrom
      <4>4. QED
        BY <2>1, <3>3, <4>3
    <3>7. QED
      BY <3>5, <3>6
  <2>7. QED
    BY <1>1, <2>2, <2>3, <2>5, <2>6 DEF Next
<1>2. LInv /\ [Next]_vars => [Remaining' < Remaining]_vars
  BY <1>1
<1>3. QED
  BY InductiveInvariant, <1>2, PTL DEF Spec, TurnsRunOut

=============================================================================
