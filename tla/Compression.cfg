SPECIFICATION Spec
CONSTANTS
  NoVersion = NoVersion
  MarkerSize = 2
  MinRegionSize = 3
  Keep = 3
  ContextSize = 1
  Length = 4
  Families <- AllFamilies
INVARIANTS
  SpansApart
  
  DocstringsStay
  SignaturesSurvive
  ScriptIsExact
  HunksPatch
CHECK_DEADLOCK FALSE
