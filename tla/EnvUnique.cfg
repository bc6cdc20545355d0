SPECIFICATION Spec
CONSTANTS
  Envs <- MCOne
  Enclosing <- MCOneEnclosing
  Keys <- MCKeysEmpty
  EmptyKey = EmptyKey
  Hash <- MCHash
  Capacity = 3
  Objs = {o1, o2}
  Null = Null
  Missing = Missing
  Room = 6
  MaxRefs = 3
  RefMax = 7
  Redeclare = TRUE
  SelfAssign = FALSE
  a = a
  b = b
  c = c
  local = local
  global = global
CHECK_DEADLOCK FALSE
INVARIANT
  UniqueNames
