SPECIFICATION Spec
CONSTANTS
  Envs <- MCOne
  Enclosing <- MCOneEnclosing
  Keys <- MCKeys
  EmptyKey = EmptyKey
  Hash <- MCHash
  Capacity = 3
  Objs = {o1}
  Null = Null
  Missing = Missing
  Room = 7
  MaxRefs = 4
  RefMax = 7
  Redeclare = FALSE
  SelfAssign = FALSE
  a = a
  b = b
  c = c
  local = local
  global = global
CHECK_DEADLOCK FALSE
PROPERTY
  ImplementsScope
