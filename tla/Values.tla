------------------------------- MODULE Values -------------------------------
(***************************************************************************)
(* The values of the language (types.h), their constructors (assign.c) and *)
(* the operations on them (memory.c): equality, order, truth, arithmetic.  *)
(* A program keeps its last three values and computes with the last two.   *)
(*                                                                         *)
(* A double is an infinity, NaN or one of evenly spaced numbers, of which  *)
(* One steps make 1: it is written as its number of steps, from -Largest   *)
(* to Largest.  What is larger rounds to an infinity, and products and     *)
(* quotients are cut towards 0, so that a double can overflow by a small   *)
(* divisor and underflow to 0.  Zeros have no sign.  Objects lie in a heap *)
(* that does not change.  No value has a NULL object.                      *)
(***************************************************************************)
EXTENDS Integers, Sequences

CONSTANTS
  One,         \* the number 1, in steps
  Largest,     \* the largest finite double, in steps
  Heap,        \* the objects: kind, and length and bytes or data pointer
  Literals     \* the values a program starts from

VARIABLES a, b, c   \* the last three values, c the youngest

registers == <<a, b, c>>

Inf == Largest + 1
NegInf == - Inf
NaN == Largest + 2
Doubles == NegInf .. NaN
Objs == DOMAIN Heap

Value ==
  [type : {"null"}]
    \union [type : {"bool"}, boolean : BOOLEAN]
    \union [type : {"number"}, number : Doubles]
    \union [type : {"byte"}, byte : 0 .. 255]
    \union [type : {"obj"}, obj : Objs]

ASSUME LargestAssumption == Largest \in Nat \ {0} /\ One \in 1 .. Largest
ASSUME LiteralsAssumption == Literals \subseteq Value

zynkNull == [type |-> "null"]
zynkBool(tf) == [type |-> "bool", boolean |-> tf]
zynkNumber(x) == [type |-> "number", number |-> x]

-----------------------------------------------------------------------------
(* Doubles *)

Infinite(x) == x \in {Inf, NegInf}

Sign(x) == IF x > 0 THEN 1 ELSE IF x < 0 THEN -1 ELSE 0

Magnitude(x) == IF x < 0 THEN - x ELSE x

(* Faulty variant: a result beyond the largest double stays as it is.        *)
RoundUnbounded(x) == x

Round(x) ==
  IF x > Largest THEN Inf ELSE IF x < - Largest THEN NegInf ELSE x

(* x over y, cut towards 0. *)
Cut(x, y) == Sign(x) * (Sign(y) * (Magnitude(x) \div Magnitude(y)))

Plus(x, y) ==
  IF x = NaN \/ y = NaN \/ (Infinite(x) /\ Infinite(y) /\ x # y) THEN NaN
  ELSE Round(x + y)

Negated(x) == IF x = NaN THEN NaN ELSE - x

Times(x, y) ==
  IF \/ x = NaN \/ y = NaN
     \/ Infinite(x) /\ y = 0
     \/ x = 0 /\ Infinite(y)
  THEN NaN
  ELSE IF Infinite(x) \/ Infinite(y) THEN Sign(x) * (Sign(y) * Inf)
  ELSE Round(Cut(x * y, One))

Quotient(x, y) ==
  IF \/ x = NaN \/ y = NaN
     \/ Infinite(x) /\ Infinite(y)
     \/ x = 0 /\ y = 0
  THEN NaN
  ELSE IF Infinite(x) \/ y = 0 THEN Sign(x) * (IF y < 0 THEN NegInf ELSE Inf)
  ELSE IF Infinite(y) THEN 0
  ELSE Round(Cut(x * One, y))

Below(x, y) == x # NaN /\ y # NaN /\ x < y

Same(x, y) == x # NaN /\ x = y

-----------------------------------------------------------------------------
(* Equality *)

(* Faulty variant: the lengths are not compared.                             *)
StartsAlike(p, q) ==
  \A i \in 1 .. Len(p) : i \in 1 .. Len(q) => p[i] = q[i]

SameBytes(p, q) == Len(p) = Len(q) /\ \A i \in 1 .. Len(p) : p[i] = q[i]

(* Strings are compared by their bytes, arrays by the pointer to their       *)
(* values, functions only by identity.                                       *)
SameObject(o, p) ==
  \/ o = p
  \/ /\ Heap[o].kind = Heap[p].kind
     /\ \/ Heap[o].kind = "string" /\ SameBytes(Heap[o].bytes, Heap[p].bytes)
        \/ /\ Heap[o].kind = "array"
           /\ Heap[o].len = Heap[p].len /\ Heap[o].data = Heap[p].data

(* Faulty variant: what equals Null is not asked for its type.               *)
NullOrSameType(v, w) == v.type = "null" \/ v.type = w.type

SameType(v, w) == v.type = w.type

zynkValuesEqual(v, w) ==
  /\ SameType(v, w)
  /\ \/ v.type = "null"
     \/ v.type = "bool" /\ v.boolean = w.boolean
     \/ v.type = "number" /\ Same(v.number, w.number)
     \/ v.type = "byte" /\ v.byte = w.byte
     \/ v.type = "obj" /\ SameObject(v.obj, w.obj)

zynkValuesNotEqual(v, w) == ~ zynkValuesEqual(v, w)

-----------------------------------------------------------------------------
(* Truth: a byte is never true *)

isTruthy(v) ==
  \/ v.type = "bool" /\ v.boolean
  \/ v.type = "number" /\ v.number # 0
  \/ v.type = "obj"

zynkValuesOr(v, w) == isTruthy(v) \/ isTruthy(w)
zynkValuesAnd(v, w) == isTruthy(v) /\ isTruthy(w)
zynkValuesXor(v, w) == isTruthy(v) # isTruthy(w)
zynkValuesTrue(v) == isTruthy(v)
zynkValuesNot(v) == ~ isTruthy(v)
zynkValuesNand(v, w) == ~ zynkValuesAnd(v, w)
zynkValuesNor(v, w) == ~ zynkValuesOr(v, w)
zynkValuesXnor(v, w) == ~ zynkValuesXor(v, w)

-----------------------------------------------------------------------------
(* Order: only of numbers *)

areNumbers(v, w) == v.type = "number" /\ w.type = "number"

zynkValuesLess(v, w) == areNumbers(v, w) /\ Below(v.number, w.number)

zynkValuesGreater(v, w) == areNumbers(v, w) /\ Below(w.number, v.number)

zynkValuesGreaterEqual(v, w) ==
  areNumbers(v, w) /\ (Below(w.number, v.number) \/ Same(v.number, w.number))

(* Faulty variant: not greater, which NaN is not either.                     *)
NotGreater(v, w) == areNumbers(v, w) /\ ~ Below(w.number, v.number)

zynkValuesLessEqual(v, w) ==
  areNumbers(v, w) /\ (Below(v.number, w.number) \/ Same(v.number, w.number))

-----------------------------------------------------------------------------
(* Arithmetic: of anything but numbers it answers Null *)

zynkValuesAdd(v, w) ==
  IF areNumbers(v, w) THEN zynkNumber(Plus(v.number, w.number)) ELSE zynkNull

zynkValuesSub(v, w) ==
  IF areNumbers(v, w) THEN zynkNumber(Plus(v.number, Negated(w.number))) ELSE zynkNull

zynkValuesMul(v, w) ==
  IF areNumbers(v, w) THEN zynkNumber(Times(v.number, w.number)) ELSE zynkNull

(* Faulty variant: only a dividend of 0 is refused.                          *)
DividendZero(v, w) == v.number = 0

(* A dividend of 0 is refused like a divisor of 0.                           *)
ZeroOperand(v, w) == v.number = 0 \/ w.number = 0

zynkValuesDiv(v, w) ==
  IF areNumbers(v, w) /\ ~ ZeroOperand(v, w)
  THEN zynkNumber(Quotient(v.number, w.number)) ELSE zynkNull

-----------------------------------------------------------------------------
(* Programs *)

Compute(v) == a' = b /\ b' = c /\ c' = v

Load == \E v \in Literals : Compute(v)

Arithmetic ==
  \/ Compute(zynkValuesAdd(b, c))
  \/ Compute(zynkValuesSub(b, c))
  \/ Compute(zynkValuesMul(b, c))
  \/ Compute(zynkValuesDiv(b, c))

Compare ==
  \/ Compute(zynkBool(zynkValuesEqual(b, c)))
  \/ Compute(zynkBool(zynkValuesNotEqual(b, c)))
  \/ Compute(zynkBool(zynkValuesLess(b, c)))
  \/ Compute(zynkBool(zynkValuesLessEqual(b, c)))
  \/ Compute(zynkBool(zynkValuesGreater(b, c)))
  \/ Compute(zynkBool(zynkValuesGreaterEqual(b, c)))

Connect ==
  \/ Compute(zynkBool(zynkValuesOr(b, c)))
  \/ Compute(zynkBool(zynkValuesAnd(b, c)))
  \/ Compute(zynkBool(zynkValuesXor(b, c)))
  \/ Compute(zynkBool(zynkValuesNand(b, c)))
  \/ Compute(zynkBool(zynkValuesNor(b, c)))
  \/ Compute(zynkBool(zynkValuesXnor(b, c)))
  \/ Compute(zynkBool(zynkValuesTrue(c)))
  \/ Compute(zynkBool(zynkValuesNot(c)))

Init == a = zynkNull /\ b = zynkNull /\ c = zynkNull

Next == Load \/ Arithmetic \/ Compare \/ Connect

Spec == Init /\ [][Next]_registers

-----------------------------------------------------------------------------
(* Properties *)

(* The registers hold values: whatever a program computes is a double that   *)
(* exists.                                                                   *)
TypeOK == a \in Value /\ b \in Value /\ c \in Value

IsNaN(v) == v = zynkNumber(NaN)

(* zynkValuesEqual is symmetric and transitive, and only NaN differs from    *)
(* itself, which it does although zynkValuesEqual of one object is TRUE at   *)
(* once.                                                                     *)
EqualityLaws ==
  /\ zynkValuesEqual(b, c) = zynkValuesEqual(c, b)
  /\ zynkValuesEqual(c, c) = ~ IsNaN(c)
  /\ zynkValuesEqual(a, b) /\ zynkValuesEqual(b, c) => zynkValuesEqual(a, c)

Alike(v, w) == zynkValuesEqual(v, w) \/ (IsNaN(v) /\ IsNaN(w))

(* Equal values can be put for each other: no test tells them apart, and     *)
(* arithmetic with a third value gives the same result.                      *)
EqualsInterchange ==
  zynkValuesEqual(a, b) =>
    /\ isTruthy(a) = isTruthy(b)
    /\ zynkValuesLess(a, c) = zynkValuesLess(b, c)
    /\ zynkValuesLess(c, a) = zynkValuesLess(c, b)
    /\ Alike(zynkValuesAdd(a, c), zynkValuesAdd(b, c))
    /\ Alike(zynkValuesSub(c, a), zynkValuesSub(c, b))
    /\ Alike(zynkValuesMul(a, c), zynkValuesMul(b, c))
    /\ Alike(zynkValuesDiv(a, c), zynkValuesDiv(b, c))
    /\ Alike(zynkValuesDiv(c, a), zynkValuesDiv(c, b))

(* The six comparisons agree with each other, with subtraction and through a *)
(* third number, infinities included; none but "not equal" holds of NaN.     *)
OrderLaws ==
  areNumbers(b, c) =>
    /\ zynkValuesLess(b, c) = zynkValuesGreater(c, b)
    /\ zynkValuesLessEqual(b, c) = (zynkValuesLess(b, c) \/ zynkValuesEqual(b, c))
    /\ zynkValuesGreaterEqual(b, c) = zynkValuesLessEqual(c, b)
    /\ zynkValuesLess(b, c) = zynkValuesLess(zynkValuesSub(b, c), zynkNumber(0))
    /\ zynkValuesLessEqual(a, b) /\ zynkValuesLess(b, c) => zynkValuesLess(a, c)
    /\ IsNaN(b) \/ IsNaN(c)
         => ~ zynkValuesLessEqual(b, c) /\ ~ zynkValuesGreaterEqual(b, c)

Finite(v) == v.type = "number" /\ v.number \in - Largest .. Largest

(* The divisor is between 0 and 1, or 0 and -1. *)
Fraction(v) == Magnitude(v.number) \in 1 .. One - 1

(* The one error of arithmetic is Null, which no operation turns back into a *)
(* number, and no division by 0 takes place: NaN appears only where an       *)
(* infinity or NaN was before, and a quotient is larger than its dividend,   *)
(* infinite at last, only when the divisor is below 1 without being 0.       *)
NoNaNFromFinite ==
  Finite(b) /\ Finite(c) =>
    /\ ~ IsNaN(zynkValuesAdd(b, c)) /\ ~ IsNaN(zynkValuesSub(b, c))
    /\ ~ IsNaN(zynkValuesMul(b, c))
    /\ LET q == zynkValuesDiv(b, c)
       IN  \/ q = zynkNull
           \/ /\ ~ IsNaN(q)
              /\ Magnitude(q.number) > Magnitude(b.number) => Fraction(c)
=============================================================================
