---------------------------- MODULE ValuesProofs ----------------------------
(***************************************************************************)
(* Values, for every spacing and every largest double, every heap and      *)
(* every set of literals.                                                  *)
(* A program only ever holds values (TypeCorrect); the laws of equality    *)
(* and order hold of all values, computed or not, so the type invariant is *)
(* all they rest on.                                                       *)
(***************************************************************************)
EXTENDS Values, TLAPS

-----------------------------------------------------------------------------
(* Doubles *)

(* Rounding gives a double other than NaN. *)
LEMMA RoundIsDouble ==
  ASSUME NEW x \in Int
  PROVE  Round(x) \in Doubles /\ Round(x) # NaN
BY LargestAssumption, SMT DEF Round, Doubles, NaN, Inf, NegInf

LEMMA QuotientIsNat ==
  ASSUME NEW m \in Nat, NEW n \in Nat \ {0}
  PROVE  m \div n \in Nat
BY Z3

(* What is divided by no less than it was multiplied with does not grow. *)
LEMMA ScaledQuotientSmaller ==
  ASSUME NEW m \in Nat, NEW k \in Nat, NEW n \in Nat \ {0}, k <= n
  PROVE  (m * k) \div n <= m
<1> DEFINE p == m * k
           q == p \div n
<1>1. p \in Nat /\ p <= m * n
  BY Z3
<1>2. q \in Nat /\ q * n <= p
  <2>1. p \in Nat
    BY <1>1
  <2> HIDE DEF p
  <2>2. QED
    BY <2>1, Z3
<1> HIDE DEF p, q
<1>3. ASSUME q > m
      PROVE  FALSE
  <2>1. q >= m + 1
    BY <1>2, <1>3
  <2>2. q * n >= (m + 1) * n
    BY <1>2, <2>1, Z3
  <2>3. (m + 1) * n = m * n + n /\ m * n \in Nat
    BY Z3
  <2>4. q * n \in Nat
    BY <1>2, Z3
  <2>5. QED
    BY <1>1, <1>2, <2>2, <2>3, <2>4
<1>4. QED
  BY <1>2, <1>3 DEF p, q

LEMMA SignsAndMagnitudes ==
  ASSUME NEW x \in Int
  PROVE  /\ Sign(x) \in {-1, 0, 1} /\ Magnitude(x) \in Nat
         /\ x # 0 => Magnitude(x) # 0
BY SMT DEF Sign, Magnitude

(* Signs only turn a number around or into 0. *)
LEMMA SignedIsInteger ==
  ASSUME NEW i \in {-1, 0, 1}, NEW j \in {-1, 0, 1}, NEW m \in Nat
  PROVE  i * (j * m) \in {- m, 0, m}
BY SMT

LEMMA CutIsInteger ==
  ASSUME NEW x \in Int, NEW y \in Int, y # 0
  PROVE  /\ Cut(x, y) \in Int
         /\ Magnitude(Cut(x, y)) <= Magnitude(x) \div Magnitude(y)
         /\ Magnitude(x) \div Magnitude(y) \in Nat
<1> DEFINE m == Magnitude(x) \div Magnitude(y)
<1>1. m \in Nat
  BY SignsAndMagnitudes, QuotientIsNat
<1> HIDE DEF m
<1>2. Cut(x, y) \in {- m, 0, m}
  BY <1>1, SignsAndMagnitudes, SignedIsInteger DEF Cut, m
<1>3. Cut(x, y) \in Int /\ Magnitude(Cut(x, y)) <= m
  BY <1>1, <1>2, SMT DEF Magnitude
<1>4. QED
  BY <1>1, <1>3 DEF m

LEMMA PlusIsDouble ==
  ASSUME NEW x \in Doubles, NEW y \in Doubles
  PROVE  Plus(x, y) \in Doubles
BY RoundIsDouble, LargestAssumption, SMT DEF Plus, Doubles, NaN, Inf, NegInf

LEMMA NegatedIsDouble ==
  ASSUME NEW x \in Doubles
  PROVE  Negated(x) \in Doubles
BY LargestAssumption, SMT DEF Negated, Doubles, NaN, Inf, NegInf

LEMMA DoublesAreIntegers ==
  /\ Doubles \subseteq Int /\ One \in Int /\ One # 0
  /\ NaN \in Doubles /\ Inf \in Doubles /\ NegInf \in Doubles /\ 0 \in Doubles
  /\ Inf # NaN /\ NegInf # NaN /\ NegInf = - Inf /\ 0 # NaN
BY LargestAssumption, SMT DEF Doubles, NaN, Inf, NegInf

(* An infinity with a sign is an infinity or 0. *)
LEMMA SignedInfinity ==
  ASSUME NEW x \in Int, NEW y \in Int
  PROVE  /\ Sign(x) * (Sign(y) * Inf) \in Doubles
         /\ Sign(x) * (IF y < 0 THEN NegInf ELSE Inf) \in Doubles
BY LargestAssumption, SMT DEF Sign, Doubles, NaN, Inf, NegInf

LEMMA TimesIsDouble ==
  ASSUME NEW x \in Doubles, NEW y \in Doubles
  PROVE  Times(x, y) \in Doubles
<1>1. x \in Int /\ y \in Int
  BY DoublesAreIntegers
<1>2. x * y \in Int
  BY <1>1
<1>3. Cut(x * y, One) \in Int
  BY <1>2, CutIsInteger, DoublesAreIntegers
<1>4. Round(Cut(x * y, One)) \in Doubles
  BY <1>3, RoundIsDouble
<1> QED
  BY <1>1, <1>4, SignedInfinity, DoublesAreIntegers DEF Times

LEMMA QuotientIsDouble ==
  ASSUME NEW x \in Doubles, NEW y \in Doubles
  PROVE  Quotient(x, y) \in Doubles
<1>1. x \in Int /\ y \in Int
  BY DoublesAreIntegers
<1>2. x * One \in Int
  BY <1>1, DoublesAreIntegers
<1>3. y # 0 => Cut(x * One, y) \in Int
  BY <1>1, <1>2, CutIsInteger
<1>4. y # 0 => Round(Cut(x * One, y)) \in Doubles
  BY <1>3, RoundIsDouble
<1> QED
  BY <1>1, <1>4, SignedInfinity, DoublesAreIntegers DEF Quotient

LEMMA FiniteIsNotSpecial ==
  ASSUME NEW x \in - Largest .. Largest
  PROVE  x \in Int /\ x # NaN /\ ~ Infinite(x)
BY LargestAssumption, SMT DEF Infinite, NaN, Inf, NegInf

(* A quotient of finite doubles is a number, and no larger than its dividend *)
(* when the divisor is at least 1.                                           *)
LEMMA QuotientNoLarger ==
  ASSUME NEW x \in - Largest .. Largest, NEW y \in - Largest .. Largest, y # 0
  PROVE  /\ Quotient(x, y) # NaN
         /\ Magnitude(y) >= One => Magnitude(Quotient(x, y)) <= Magnitude(x)
<1>1. /\ x \in Int /\ x # NaN /\ ~ Infinite(x)
      /\ y \in Int /\ y # NaN /\ ~ Infinite(y)
  BY FiniteIsNotSpecial
<1> DEFINE k == Cut(x * One, y)
<1>2. x * One \in Int /\ One \in Nat
  BY <1>1, LargestAssumption
<1>3. k \in Int /\ Magnitude(k) <= Magnitude(x * One) \div Magnitude(y)
      /\ Magnitude(x * One) \div Magnitude(y) \in Nat
  BY <1>1, <1>2, CutIsInteger
<1>4. Quotient(x, y) = Round(k)
  BY <1>1 DEF Quotient
<1>5. Round(k) # NaN
  BY <1>3, RoundIsDouble
<1>6. ASSUME Magnitude(y) >= One
      PROVE  Magnitude(Round(k)) <= Magnitude(x)
  <2>1. Magnitude(x * One) = Magnitude(x) * One
    BY <1>1, <1>2, LargestAssumption, SMT DEF Magnitude
  <2>2. (Magnitude(x) * One) \div Magnitude(y) <= Magnitude(x)
    BY <1>1, <1>2, <1>6, SignsAndMagnitudes, ScaledQuotientSmaller
  <2> DEFINE m == Magnitude(x * One) \div Magnitude(y)
  <2>3. m \in Nat /\ Magnitude(k) <= m /\ m <= Magnitude(x)
    BY <1>3, <2>1, <2>2
  <2>4. Magnitude(x) \in 0 .. Largest
    BY LargestAssumption, SMT DEF Magnitude
  <2> HIDE DEF k, m
  <2>5. Magnitude(k) <= Largest /\ Magnitude(k) <= Magnitude(x)
    BY <1>3, <2>3, <2>4, SignsAndMagnitudes, LargestAssumption
  <2>6. Round(k) = k
    BY <1>3, <2>5, LargestAssumption, SMT DEF Round, Magnitude
  <2>7. QED
    BY <2>5, <2>6
<1>7. QED
  BY <1>4, <1>5, <1>6

-----------------------------------------------------------------------------
(* Types *)

LEMMA ConstructorsGiveValues ==
  /\ zynkNull \in Value
  /\ \A tf \in BOOLEAN : zynkBool(tf) \in Value
  /\ \A x \in Doubles : zynkNumber(x) \in Value
BY DEF zynkNull, zynkBool, zynkNumber, Value

LEMMA NumberOfValue ==
  ASSUME NEW v \in Value, v.type = "number"
  PROVE  v.number \in Doubles /\ v = zynkNumber(v.number)
BY DEF Value, zynkNumber

LEMMA ArithmeticGivesValues ==
  ASSUME NEW v \in Value, NEW w \in Value
  PROVE  /\ zynkValuesAdd(v, w) \in Value /\ zynkValuesSub(v, w) \in Value
         /\ zynkValuesMul(v, w) \in Value /\ zynkValuesDiv(v, w) \in Value
<1>1. CASE areNumbers(v, w)
  <2>1. v.number \in Doubles /\ w.number \in Doubles
    BY <1>1, NumberOfValue DEF areNumbers
  <2>2. /\ Plus(v.number, w.number) \in Doubles
        /\ Plus(v.number, Negated(w.number)) \in Doubles
        /\ Times(v.number, w.number) \in Doubles
        /\ Quotient(v.number, w.number) \in Doubles
    BY <2>1, PlusIsDouble, NegatedIsDouble, TimesIsDouble, QuotientIsDouble
  <2> QED
    BY <2>2, ConstructorsGiveValues
       DEF zynkValuesAdd, zynkValuesSub, zynkValuesMul, zynkValuesDiv
<1>2. CASE ~ areNumbers(v, w)
  BY <1>2, ConstructorsGiveValues
     DEF zynkValuesAdd, zynkValuesSub, zynkValuesMul, zynkValuesDiv
<1> QED
  BY <1>1, <1>2

LEMMA InitTyped == Init => TypeOK
BY ConstructorsGiveValues DEF Init, TypeOK

LEMMA ComputeTyped ==
  ASSUME TypeOK, NEW v \in Value, Compute(v)
  PROVE  TypeOK'
BY DEF TypeOK, Compute

LEMMA StepTyped == TypeOK /\ [Next]_registers => TypeOK'
<1> SUFFICES ASSUME TypeOK, [Next]_registers
             PROVE  TypeOK'
  OBVIOUS
<1>1. CASE Load
  BY <1>1, ComputeTyped, LiteralsAssumption DEF Load
<1>2. CASE Arithmetic
  BY <1>2, ComputeTyped, ArithmeticGivesValues DEF Arithmetic, TypeOK
<1>3. \A tf \in BOOLEAN : Compute(zynkBool(tf)) => TypeOK'
  BY ComputeTyped, ConstructorsGiveValues
<1>4. CASE Compare
  <2>1. /\ zynkValuesEqual(b, c) \in BOOLEAN /\ zynkValuesNotEqual(b, c) \in BOOLEAN
        /\ zynkValuesLess(b, c) \in BOOLEAN /\ zynkValuesLessEqual(b, c) \in BOOLEAN
        /\ zynkValuesGreater(b, c) \in BOOLEAN
        /\ zynkValuesGreaterEqual(b, c) \in BOOLEAN
    BY DEF zynkValuesEqual, zynkValuesNotEqual, zynkValuesLess, zynkValuesLessEqual,
           zynkValuesGreater, zynkValuesGreaterEqual
  <2> QED
    BY <1>3, <1>4, <2>1 DEF Compare
<1>5. CASE Connect
  <2>1. /\ zynkValuesOr(b, c) \in BOOLEAN /\ zynkValuesAnd(b, c) \in BOOLEAN
        /\ zynkValuesXor(b, c) \in BOOLEAN /\ zynkValuesNand(b, c) \in BOOLEAN
        /\ zynkValuesNor(b, c) \in BOOLEAN /\ zynkValuesXnor(b, c) \in BOOLEAN
        /\ zynkValuesTrue(c) \in BOOLEAN /\ zynkValuesNot(c) \in BOOLEAN
    BY DEF zynkValuesOr, zynkValuesAnd, zynkValuesXor, zynkValuesNand, zynkValuesNor,
           zynkValuesXnor, zynkValuesTrue, zynkValuesNot, isTruthy
  <2> QED
    BY <1>3, <1>5, <2>1 DEF Connect
<1>6. CASE UNCHANGED registers
  BY <1>6 DEF TypeOK, registers
<1> QED
  BY <1>1, <1>2, <1>4, <1>5, <1>6 DEF Next

(* Whatever a program computes is a value: overflow and division give a      *)
(* double that exists (memory.c:139-163).                                    *)
THEOREM TypeCorrect == Spec => []TypeOK
BY InitTyped, StepTyped, PTL DEF Spec

-----------------------------------------------------------------------------
(* Equality *)

LEMMA SameObjectSymmetric ==
  ASSUME NEW o, NEW p, SameObject(o, p)
  PROVE  SameObject(p, o)
BY DEF SameObject, SameBytes

LEMMA SameObjectTransitive ==
  ASSUME NEW o, NEW p, NEW q, SameObject(o, p), SameObject(p, q)
  PROVE  SameObject(o, q)
BY DEF SameObject, SameBytes

LEMMA EqualSymmetric ==
  ASSUME NEW v, NEW w, zynkValuesEqual(v, w)
  PROVE  zynkValuesEqual(w, v)
BY SameObjectSymmetric DEF zynkValuesEqual, SameType, Same

LEMMA EqualTransitive ==
  ASSUME NEW u, NEW v, NEW w, zynkValuesEqual(u, v), zynkValuesEqual(v, w)
  PROVE  zynkValuesEqual(u, w)
<1>1. u.type = v.type /\ v.type = w.type
  BY DEF zynkValuesEqual, SameType
<1>2. CASE u.type = "obj"
  BY <1>1, <1>2, SameObjectTransitive DEF zynkValuesEqual, SameType
<1>3. CASE u.type # "obj"
  BY <1>1, <1>3 DEF zynkValuesEqual, SameType, Same
<1> QED
  BY <1>2, <1>3

LEMMA OnlyNaNDiffersFromItself ==
  ASSUME NEW v \in Value
  PROVE  zynkValuesEqual(v, v) <=> ~ IsNaN(v)
<1>1. CASE v.type = "number"
  BY <1>1, NumberOfValue DEF zynkValuesEqual, SameType, Same, IsNaN, zynkNumber
<1>2. CASE v.type # "number"
  BY <1>2 DEF zynkValuesEqual, SameType, SameObject, IsNaN, zynkNumber, Value
<1> QED
  BY <1>1, <1>2

(* zynkValuesEqual (memory.c:34-63) is an equivalence of values but for NaN, *)
(* whatever strings and arrays the heap holds.                               *)
THEOREM EqualityIsEquivalence == Spec => []EqualityLaws
<1>1. TypeOK => EqualityLaws
  <2> SUFFICES ASSUME TypeOK
               PROVE  EqualityLaws
    OBVIOUS
  <2>1. zynkValuesEqual(b, c) <=> zynkValuesEqual(c, b)
    BY EqualSymmetric
  <2>2. zynkValuesEqual(c, c) <=> ~ IsNaN(c)
    BY OnlyNaNDiffersFromItself DEF TypeOK
  <2>3. zynkValuesEqual(a, b) /\ zynkValuesEqual(b, c) => zynkValuesEqual(a, c)
    BY EqualTransitive
  <2>4. /\ zynkValuesEqual(b, c) \in BOOLEAN /\ zynkValuesEqual(c, b) \in BOOLEAN
        /\ zynkValuesEqual(c, c) \in BOOLEAN
    BY DEF zynkValuesEqual
  <2> QED
    BY <2>1, <2>2, <2>3, <2>4 DEF EqualityLaws
<1> QED
  BY <1>1, TypeCorrect, PTL

(* Two equal numbers are one number. *)
LEMMA EqualNumbers ==
  ASSUME NEW v \in Value, NEW w \in Value, zynkValuesEqual(v, w), v.type = "number"
  PROVE  v = w
BY NumberOfValue DEF zynkValuesEqual, SameType, Same

LEMMA AlikeItself ==
  ASSUME NEW v \in Value
  PROVE  Alike(v, v)
BY OnlyNaNDiffersFromItself DEF Alike

(* Neither truth (memory.c:65), order (87) nor arithmetic (139-163) tells    *)
(* two equal values apart.                                                   *)
THEOREM EqualsAreInterchangeable == Spec => []EqualsInterchange
<1>1. TypeOK => EqualsInterchange
  <2> SUFFICES ASSUME TypeOK, zynkValuesEqual(a, b)
               PROVE  /\ isTruthy(a) = isTruthy(b)
                      /\ zynkValuesLess(a, c) = zynkValuesLess(b, c)
                      /\ zynkValuesLess(c, a) = zynkValuesLess(c, b)
                      /\ Alike(zynkValuesAdd(a, c), zynkValuesAdd(b, c))
                      /\ Alike(zynkValuesSub(c, a), zynkValuesSub(c, b))
                      /\ Alike(zynkValuesMul(a, c), zynkValuesMul(b, c))
                      /\ Alike(zynkValuesDiv(a, c), zynkValuesDiv(b, c))
                      /\ Alike(zynkValuesDiv(c, a), zynkValuesDiv(c, b))
    BY DEF EqualsInterchange
  <2>1. a \in Value /\ b \in Value /\ c \in Value /\ a.type = b.type
    BY DEF TypeOK, zynkValuesEqual, SameType
  <2>2. CASE a.type = "number"
    <3>1. a = b
      BY <2>1, <2>2, EqualNumbers
    <3> QED
      BY <2>1, <3>1, ArithmeticGivesValues, AlikeItself
  <2>3. CASE a.type # "number"
    <3>1. /\ ~ areNumbers(a, c) /\ ~ areNumbers(b, c)
          /\ ~ areNumbers(c, a) /\ ~ areNumbers(c, b)
      BY <2>1, <2>3 DEF areNumbers
    <3>2. Alike(zynkNull, zynkNull)
      BY ConstructorsGiveValues, AlikeItself
    <3>3. isTruthy(a) = isTruthy(b)
      BY <2>1, <2>3 DEF isTruthy, zynkValuesEqual, SameType
    <3> QED
      BY <3>1, <3>2, <3>3
         DEF zynkValuesLess, zynkValuesAdd, zynkValuesSub, zynkValuesMul, zynkValuesDiv
  <2> QED
    BY <2>2, <2>3
<1> QED
  BY <1>1, TypeCorrect, PTL

-----------------------------------------------------------------------------
(* Order *)

(* The order of two doubles is the sign of their difference, rounded or not, *)
(* also when one is infinite or NaN.                                         *)
LEMMA OrderIsSignOfDifference ==
  ASSUME NEW x \in Doubles, NEW y \in Doubles
  PROVE  Below(x, y) <=> Below(Plus(x, Negated(y)), 0)
BY LargestAssumption, SMT
   DEF Below, Plus, Negated, Round, Infinite, Doubles, NaN, Inf, NegInf

(* The comparisons of numbers (memory.c:87-105) agree with each other, with  *)
(* zynkValuesEqual and with zynkValuesSub, for every spacing and largest     *)
(* double.                                                                   *)
THEOREM OrderIsConsistent == Spec => []OrderLaws
<1>1. TypeOK => OrderLaws
  <2> SUFFICES ASSUME TypeOK, areNumbers(b, c)
               PROVE  OrderLaws
    BY DEF OrderLaws
  <2>1. /\ b.number \in Doubles /\ c.number \in Doubles
        /\ b = zynkNumber(b.number) /\ c = zynkNumber(c.number)
        /\ b.type = "number" /\ c.type = "number"
    BY NumberOfValue DEF TypeOK, areNumbers
  <2>2. areNumbers(c, b)
    BY <2>1 DEF areNumbers
  <2>3. /\ zynkValuesLess(b, c) <=> Below(b.number, c.number)
        /\ zynkValuesGreater(c, b) <=> Below(b.number, c.number)
        /\ zynkValuesLessEqual(b, c)
             <=> Below(b.number, c.number) \/ Same(b.number, c.number)
        /\ zynkValuesLessEqual(c, b)
             <=> Below(c.number, b.number) \/ Same(c.number, b.number)
        /\ zynkValuesGreaterEqual(b, c)
             <=> Below(c.number, b.number) \/ Same(b.number, c.number)
        /\ zynkValuesEqual(b, c) <=> Same(b.number, c.number)
    BY <2>1, <2>2 DEF zynkValuesLess, zynkValuesGreater, zynkValuesLessEqual,
                      zynkValuesGreaterEqual, zynkValuesEqual, SameType
  <2>4. zynkValuesLess(b, c) = zynkValuesGreater(c, b)
    BY <2>3 DEF zynkValuesLess, zynkValuesGreater
  <2>5. zynkValuesLessEqual(b, c) = (zynkValuesLess(b, c) \/ zynkValuesEqual(b, c))
    BY <2>3 DEF zynkValuesLessEqual
  <2>6. zynkValuesGreaterEqual(b, c) = zynkValuesLessEqual(c, b)
    BY <2>3 DEF zynkValuesGreaterEqual, zynkValuesLessEqual, Same
  <2>7. zynkValuesLess(b, c) = zynkValuesLess(zynkValuesSub(b, c), zynkNumber(0))
    <3>1. zynkValuesSub(b, c) = zynkNumber(Plus(b.number, Negated(c.number)))
      BY DEF zynkValuesSub
    <3>2. zynkValuesLess(zynkValuesSub(b, c), zynkNumber(0))
            <=> Below(Plus(b.number, Negated(c.number)), 0)
      BY <3>1 DEF zynkValuesLess, areNumbers, zynkNumber
    <3> QED
      BY <2>1, <2>3, <3>2, OrderIsSignOfDifference DEF zynkValuesLess
  <2>8. zynkValuesLessEqual(a, b) /\ zynkValuesLess(b, c) => zynkValuesLess(a, c)
    <3> SUFFICES ASSUME zynkValuesLessEqual(a, b), zynkValuesLess(b, c)
                 PROVE  zynkValuesLess(a, c)
      OBVIOUS
    <3>1. a.type = "number" /\ a.number \in Doubles
      BY NumberOfValue DEF TypeOK, zynkValuesLessEqual, areNumbers
    <3>2. Below(a.number, b.number) \/ Same(a.number, b.number)
      BY DEF zynkValuesLessEqual
    <3>3. Below(a.number, c.number)
      BY <2>1, <2>3, <3>1, <3>2, LargestAssumption, SMT
         DEF Below, Same, Doubles, NaN, Inf, NegInf
    <3> QED
      BY <2>1, <3>1, <3>3 DEF zynkValuesLess, areNumbers
  <2>9. IsNaN(b) \/ IsNaN(c)
          => ~ zynkValuesLessEqual(b, c) /\ ~ zynkValuesGreaterEqual(b, c)
    <3>1. IsNaN(b) \/ IsNaN(c) => b.number = NaN \/ c.number = NaN
      BY <2>1 DEF IsNaN, zynkNumber
    <3> QED
      BY <2>3, <3>1 DEF Below, Same
  <2> QED
    BY <2>4, <2>5, <2>6, <2>7, <2>8, <2>9 DEF OrderLaws
<1> QED
  BY <1>1, TypeCorrect, PTL

-----------------------------------------------------------------------------
(* Arithmetic of finite numbers *)

(* NaN and division by 0 do not come from finite operands, for zynkValuesDiv *)
(* refuses zeros (memory.c:160); a quotient is larger than its dividend, or  *)
(* infinite, only when the divisor lies between -1 and 1.                    *)
THEOREM FiniteStaysDefined == Spec => []NoNaNFromFinite
<1>1. TypeOK => NoNaNFromFinite
  <2> SUFFICES ASSUME TypeOK, Finite(b), Finite(c)
               PROVE  /\ ~ IsNaN(zynkValuesAdd(b, c)) /\ ~ IsNaN(zynkValuesSub(b, c))
                      /\ ~ IsNaN(zynkValuesMul(b, c))
                      /\ \/ zynkValuesDiv(b, c) = zynkNull
                         \/ /\ ~ IsNaN(zynkValuesDiv(b, c))
                            /\ Magnitude(zynkValuesDiv(b, c).number)
                                  > Magnitude(b.number) => Fraction(c)
    BY DEF NoNaNFromFinite
  <2>1. /\ areNumbers(b, c)
        /\ b.number \in - Largest .. Largest /\ c.number \in - Largest .. Largest
    BY DEF Finite, areNumbers
  <2>2. \A x : x # NaN => ~ IsNaN(zynkNumber(x))
    BY DEF IsNaN, zynkNumber
  <2>3. Plus(b.number, c.number) # NaN
    BY <2>1, LargestAssumption, SMT DEF Plus, Round, Infinite, NaN, Inf, NegInf
  <2>4. Plus(b.number, Negated(c.number)) # NaN
    BY <2>1, LargestAssumption, SMT DEF Plus, Negated, Round, Infinite, NaN, Inf, NegInf
  <2>5. Times(b.number, c.number) # NaN
    <3>1. /\ b.number \in Int /\ b.number # NaN /\ ~ Infinite(b.number)
          /\ c.number \in Int /\ c.number # NaN /\ ~ Infinite(c.number)
      BY <2>1, FiniteIsNotSpecial
    <3>2. b.number * c.number \in Int
      BY <3>1
    <3>3. Cut(b.number * c.number, One) \in Int
      BY <3>2, CutIsInteger, DoublesAreIntegers
    <3> QED
      BY <3>1, <3>3, RoundIsDouble DEF Times
  <2>6. \/ zynkValuesDiv(b, c) = zynkNull
        \/ /\ ~ IsNaN(zynkValuesDiv(b, c))
           /\ Magnitude(zynkValuesDiv(b, c).number) > Magnitude(b.number) => Fraction(c)
    <3>1. CASE ZeroOperand(b, c)
      BY <3>1 DEF zynkValuesDiv
    <3>2. CASE ~ ZeroOperand(b, c)
      <4> DEFINE q == Quotient(b.number, c.number)
      <4>1. zynkValuesDiv(b, c) = zynkNumber(q) /\ c.number # 0
        BY <2>1, <3>2 DEF zynkValuesDiv, ZeroOperand
      <4>2. q # NaN /\ (Magnitude(c.number) >= One => Magnitude(q) <= Magnitude(b.number))
        BY <2>1, <4>1, QuotientNoLarger
      <4>3. ~ Fraction(c) => Magnitude(c.number) >= One
        <5>1. c.number \in Int
          BY <2>1, FiniteIsNotSpecial
        <5>2. Magnitude(c.number) \in Nat \ {0} /\ One \in Nat
          BY <4>1, <5>1, SignsAndMagnitudes, LargestAssumption
        <5> QED
          BY <5>2 DEF Fraction
      <4>4. Magnitude(q) \in Int /\ Magnitude(b.number) \in Int
        <5>1. q \in Int /\ b.number \in Int
          <6>1. b.number \in Doubles /\ c.number \in Doubles
            BY <2>1, LargestAssumption, SMT DEF Doubles, NaN, Inf, NegInf
          <6> QED
            BY <6>1, QuotientIsDouble, DoublesAreIntegers
        <5> QED
          BY <5>1, SignsAndMagnitudes
      <4>5. zynkNumber(q).number = q
        BY DEF zynkNumber
      <4> HIDE DEF q
      <4> QED
        BY <2>2, <4>1, <4>2, <4>3, <4>4, <4>5
    <3> QED
      BY <3>1, <3>2
  <2> QED
    BY <2>1, <2>2, <2>3, <2>4, <2>5, <2>6 DEF zynkValuesAdd, zynkValuesSub, zynkValuesMul
<1> QED
  BY <1>1, TypeCorrect, PTL
=============================================================================
