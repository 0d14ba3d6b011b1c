\* What the documentation says of a message with no other copy in the payload.
SPECIFICATION TurnSpec
CONSTANTS
  Payloads <- MCPayloads
  SessionIds = {s1}
  EmptyId = empty
  prose = prose  code = code  rule = rule  system = system  bad = bad
  f = f  g = g  k = k  title = title  r1 = r1
  Hashes = {prose, code, rule, system, bad}
  Refs = {r1}
  RefOf <- MCRefOf
  MaxSessions = 1
  MaxContent = 3
  MaxSeen = 3
  Ttl = 1
  MaxTime = 0
  MaxSerial = 1
  MaxTurns = 2
  MaxBlocks = 3
  Kept = {system}
  Elidable = {prose, code, rule, bad}
  Names = {f, g, k, title}
  SymbolsOf <- MCSymbolsOf
  MarkersOf <- MCMarkersOf
  Directives = {rule}
  Broken = {bad}
  MaxInput = 0
  MaxPayload = 3
INVARIANT SoleCopyNeverElided
CHECK_DEADLOCK FALSE
