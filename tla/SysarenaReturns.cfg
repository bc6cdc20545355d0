SPECIFICATION Spec
CONSTANTS
  PoolSize = 6
  MaxArenas = 5
  Sizes <- MCSizes
INVARIANT
  FreedMemoryReturns
