SPECIFICATION Spec
CONSTANTS
  Names <- MCNames
  Missing = Missing
  Capacity = 3
  CharSize = 4
  IntSize = 256
  LongSize = 65536
  XorOf <- MCXor
CHECK_DEADLOCK FALSE
INVARIANTS
  TypeOK
  HashPortable
  AnswersAsProbing
PROPERTIES
  TurnsRunOut
  Terminates
