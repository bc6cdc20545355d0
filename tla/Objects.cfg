SPECIFICATION Spec
CONSTANTS
  Arrays = {x, y}
  Strings = {s}
  Natives = {f}
  Numbers = {}
  Null = Null
  Texts <- MCTexts
  End = End
  Requests = {0, 1}
  MinCapacity = 2
  Word = 8
  Indexes <- MCIndexes
  Room = 11
  MaxHeld = 1
  SelfAssign = FALSE
SYMMETRY ArraySymmetry
CHECK_DEADLOCK FALSE
INVARIANTS
  TypeOK
  ReferencesCounted
  NothingElseLeaks
  ReachableLive
  MemoryFollowsCounts
