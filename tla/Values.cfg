SPECIFICATION Spec
CONSTANTS
  One = 2
  Largest = 4
  Heap <- MCHeap
  Literals <- MCLiterals
INVARIANTS
  TypeOK
  EqualityLaws
  EqualsInterchange
  OrderLaws
  NoNaNFromFinite
