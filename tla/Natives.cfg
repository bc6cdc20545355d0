SPECIFICATION NativesSpec
CONSTANTS
  len = len
  push = push
  pop = pop
  get_index = get_index
  set_index = set_index
  Natives = {len, push, pop, get_index, set_index}
  Arrays = {x, y}
  Strings = {s, t}
  Numbers = {1}
  Null = Null
  Chars = {c}
  End = End
  Texts <- MCTexts
  Requests = {3}
  MinCapacity = 3
  Word = 16
  Indexes <- MCIndexes
  Room = 24
  MaxHeld = 1
  SelfAssign = FALSE
  FreeSlots = {3, 5}
  Passed <- MCPassed
SYMMETRY ObjectSymmetry
CHECK_DEADLOCK FALSE
INVARIANTS
  NativesTypeOK
  ReferencesCounted
  StoredValuesLive
  FunctionsStay
PROPERTY
  CharactersFixed
