---------------------------- MODULE LeastNumbers ----------------------------
(***************************************************************************)
(* Induction over the naturals in the form the proofs of this project use: *)
(* every nonempty set of naturals has a least element, so a set that holds *)
(* 0 and with each number its successor holds them all.  From it, the      *)
(* greatest number of a finite set, and functions defined by recursion up  *)
(* to a bound.                                                             *)
(***************************************************************************)
EXTENDS Integers, WellFoundedInduction, FiniteSetTheorems, TLAPS

(* Every nonempty set of naturals has a least element. *)
LEMMA LeastNumber ==
  ASSUME NEW S \in SUBSET Nat, S # {}
  PROVE  \E m \in S : \A n \in S : m <= n
<1> DEFINE R == OpToRel(<, Nat)
<1>1. IsWellFoundedOn(R, Nat)
  BY NatLessThanWellFounded
<1>2. \A x, y \in Nat : y < x => <<y, x>> \in R
  BY DEF OpToRel
<1> HIDE DEF R
<1>3. PICK m \in S : \A n \in S : <<n, m>> \notin R
  BY <1>1, WFMin
<1>4. \A n \in S : ~ (n < m)
  BY <1>2, <1>3
<1>5. QED
  BY <1>4

(* Induction up to a bound: a set that holds 0 and with every number below   *)
(* the bound its successor holds all numbers up to the bound.                *)
LEMMA InductionUpTo ==
  ASSUME NEW N \in Nat, NEW S,
         0 \in S,
         \A n \in 0 .. N - 1 : n \in S => n + 1 \in S
  PROVE  0 .. N \subseteq S
<1> SUFFICES ASSUME (0 .. N) \ S # {}
             PROVE  FALSE
  OBVIOUS
<1>1. PICK m \in (0 .. N) \ S : \A n \in (0 .. N) \ S : m <= n
  <2>1. (0 .. N) \ S \in SUBSET Nat
    OBVIOUS
  <2>2. QED
    BY <2>1, LeastNumber
<1>2. m # 0 /\ m - 1 \in 0 .. N - 1
  BY <1>1
<1>3. m - 1 \in S
  BY <1>1, <1>2
<1>4. (m - 1) + 1 \in S
  BY <1>2, <1>3
<1>5. QED
  BY <1>1, <1>4

(* Every nonempty finite set of naturals has a greatest element. *)
LEMMA GreatestNumber ==
  ASSUME NEW S \in SUBSET Nat, S # {}, IsFiniteSet(S)
  PROVE  \E m \in S : \A n \in S : n <= m
<1>1. PICK N \in Nat : ExistsBijection(1 .. N, S)
  BY FS_CardinalityType
<1>2. PICK f \in Surjection(1 .. N, S) : TRUE
  BY <1>1 DEF ExistsBijection, Bijection
<1>3. f \in [1 .. N -> S] /\ \A n \in S : \E i \in 1 .. N : f[i] = n
  BY <1>2 DEF Surjection
<1>4. \A i \in 1 .. N : f[i] \in S /\ f[i] \in Nat
  BY <1>3
<1> DEFINE Top(n, m) == \A i \in 1 .. n : f[i] <= f[m]
           D == {n \in 0 .. N : n = 0 \/ \E m \in 1 .. n : Top(n, m)}
<1>5. 0 \in D
  OBVIOUS
<1>6. ASSUME NEW n \in 0 .. N - 1, n \in D
      PROVE  n + 1 \in D
  <2>1. \A i \in 1 .. n + 1 : f[i] \in Nat
    BY <1>4
  <2>2. CASE n = 0
    <3>1. Top(n + 1, 1)
      BY <2>1, <2>2
    <3>2. QED
      BY <2>2, <3>1
  <2>3. CASE n # 0
    <3>1. PICK m \in 1 .. n : Top(n, m)
      BY <1>6, <2>3
    <3>2. CASE f[n + 1] <= f[m]
      <4>1. Top(n + 1, m)
        BY <3>1, <3>2
      <4>2. QED
        BY <4>1
    <3>3. CASE ~ (f[n + 1] <= f[m])
      <4>1. Top(n + 1, n + 1)
        BY <2>1, <3>1, <3>3
      <4>2. QED
        BY <4>1
    <3>4. QED
      BY <3>2, <3>3
  <2>4. QED
    BY <2>2, <2>3
<1>7. 0 .. N \subseteq D
  <2> HIDE DEF D
  <2>1. QED
    BY <1>5, <1>6, InductionUpTo
<1>8. N # 0 /\ N \in D
  <2>1. PICK n \in S : TRUE
    OBVIOUS
  <2>2. PICK i \in 1 .. N : f[i] = n
    BY <1>3, <2>1
  <2>3. N # 0 /\ N \in 0 .. N
    OBVIOUS
  <2>4. QED
    BY <1>7, <2>3
<1>9. PICK m \in 1 .. N : Top(N, m)
  BY <1>8
<1>10. \A n \in S : n <= f[m]
  BY <1>3, <1>9
<1>11. QED
  BY <1>4, <1>10

(* A step repeated from x on yields a value of T for each number of times. *)
Repeats(N, T, x, next) ==
  \E f \in [0 .. N -> T] :
    f[0] = x /\ \A n \in 0 .. N - 1 : f[n + 1] = next[f[n]]

LEMMA RecursionUpTo ==
  ASSUME NEW N \in Nat, NEW T, NEW x \in T, NEW next \in [T -> T]
  PROVE  Repeats(N, T, x, next)
<1> DEFINE Of(k, f) == f[0] = x /\ \A n \in 0 .. k - 1 : f[n + 1] = next[f[n]]
           D == {k \in 0 .. N : \E f \in [0 .. k -> T] : Of(k, f)}
<1>1. 0 \in D
  <2>1. [n \in 0 .. 0 |-> x] \in [0 .. 0 -> T] /\ Of(0, [n \in 0 .. 0 |-> x])
    OBVIOUS
  <2> HIDE DEF Of
  <2>2. QED
    BY <2>1
<1>2. ASSUME NEW k \in 0 .. N - 1, k \in D
      PROVE  k + 1 \in D
  <2>1. PICK f \in [0 .. k -> T] : Of(k, f)
    BY <1>2
  <2> DEFINE g == [n \in 0 .. k + 1 |-> IF n = k + 1 THEN next[f[k]] ELSE f[n]]
  <2>2. g \in [0 .. k + 1 -> T]
    OBVIOUS
  <2>3. \A n \in 0 .. k : g[n] = f[n]
    OBVIOUS
  <2>4. g[k + 1] = next[f[k]]
    OBVIOUS
  <2> HIDE DEF g
  <2>5. ASSUME NEW n \in 0 .. k
        PROVE  g[n + 1] = next[g[n]]
    <3>1. CASE n = k
      BY <2>3, <2>4, <3>1
    <3>2. CASE n # k
      <4>1. n \in 0 .. k - 1 /\ n + 1 \in 0 .. k
        BY <3>2
      <4>2. QED
        BY <2>1, <2>3, <4>1
    <3>3. QED
      BY <3>1, <3>2
  <2>6. Of(k + 1, g)
    <3>1. g[0] = x
      BY <2>1, <2>3
    <3>2. \A n \in 0 .. (k + 1) - 1 : n \in 0 .. k
      OBVIOUS
    <3>3. QED
      BY <2>5, <3>1, <3>2
  <2> HIDE DEF Of
  <2>7. k + 1 \in 0 .. N
    OBVIOUS
  <2>8. QED
    BY <2>2, <2>6, <2>7
<1> HIDE DEF D
<1>3. 0 .. N \subseteq D
  BY <1>1, <1>2, InductionUpTo
<1>4. QED
  BY <1>3 DEF D, Repeats
=============================================================================
