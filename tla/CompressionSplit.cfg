SPECIFICATION Spec
CONSTANTS
  NoVersion = NoVersion
  MarkerSize = 1
  MinRegionSize = 2
  Keep = 3
  ContextSize = 1
  Length = 4
  Families <- SplitFamilies
INVARIANTS
  PartsBalanced
CHECK_DEADLOCK FALSE
