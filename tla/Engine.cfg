CONSTANTS
  ItemIds <- MCItems
  Blocks <- MCBlocks
  Turns = {1, 5}
  MaxRefs = 2
  PartIds <- MCParts
  PartsOf <- MCPartsOf
  Gain <- MCGain
  Frame <- MCFrame
  DirectiveIn <- MCDirectiveIn
  Names <- MCNames
  SymbolsIn <- MCSymbolsIn
  FrameSymbols <- MCFrameSymbols
  MarkersIn <- MCMarkersIn
  FrameMarkers <- MCFrameMarkers
  Whole <- MCWhole
  Protected <- MCProtected
  Broken <- MCBroken
  BlockHash <- MCBlockHash
  CachePrefix = 3
  Asked <- MCAsked
  Hosts <- MCHosts
  Budgets <- MCBudgets
  MinConfidence = 7000
  MaxDebt = 30
  MaxCalls = 2
SPECIFICATION EngineSpec
PROPERTIES KeepsPromise TakesNoMoreThanNeeded ElidedIsTracked EveryCallAnswered
