\* Bundles of up to five items, on both sides of the exact solver's limits.
SPECIFICATION TopologySpec
CONSTANTS
  Items <- MCItems
  Budgets = {1, 2, 3, 5, 6}
  Horizon = 1
  MaxDpItems = 2
  MaxDpCapacity = 3
  MaxItems = 5
  Paths <- MCPaths
  Files <- MCFiles
  Trees <- MCTrees
  Ttl = 4
  Patience = 1
  FromRoot <- MCFromRoot
  Specs <- MCSpecs
  Tries <- MCTries
  Imports <- MCImports
  Bundles <- MCBundles
  NoPath = 0
CONSTRAINT Bounded
INVARIANTS StatusIsRecent ShortestDistances NearerIsKept ChoiceIsLegal ExactIsOptimal GreedyIsHalf
CHECK_DEADLOCK FALSE
