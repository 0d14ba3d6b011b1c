\* Three conversations over two slots, small caches against three blocks.
SPECIFICATION Spec
CONSTANTS
  SessionIds = {s1, s2, s3}
  EmptyId = empty
  h1 = h1  h2 = h2  h3 = h3  r1 = r1  
  Hashes = {h1, h2, h3}
  Refs = {r1}
  RefOf <- MCRefOf
  MaxSessions = 2
  MaxContent = 1
  MaxSeen = 2
  Ttl = 1
  MaxTime = 2
  MaxSerial = 3
  MaxTurns = 1
  MaxBlocks = 2
INVARIANTS SessionCap CacheCaps RecordedTurnIsRetrievable
PROPERTY EvictsOnlyOldest
SYMMETRY Symmetry
CHECK_DEADLOCK FALSE
