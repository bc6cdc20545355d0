SPECIFICATION Spec
CONSTANTS
  PoolSize = 6
  MaxArenas = 5
  Sizes <- MCSizes
INVARIANTS
  TypeOK
  Layout
  Tracked
  NothingToMerge
  DescriptorBudget
  MergedOnlyWhole
PROPERTIES
  ExhaustionIsPermanent
  StaleFreeInert
  ImplementsAllocator
  ImplementsBumpArena
