\* Two turns in two conversations, whose sessions expire and evict one another
\* while a turn is handled.
SPECIFICATION TurnSpec
CONSTANTS
  Payloads <- MCPayloads
  SessionIds = {s1, s2}
  EmptyId = empty
  prose = prose  code = code  rule = rule  system = system  bad = bad
  f = f  g = g  k = k  title = title  r1 = r1
  Hashes = {prose, code, rule, system, bad}
  Refs = {r1}
  RefOf <- MCRefOf
  MaxSessions = 2
  MaxContent = 2
  MaxSeen = 2
  Ttl = 1
  MaxTime = 2
  MaxSerial = 2
  MaxTurns = 2
  MaxBlocks = 3
  Kept = {system}
  Elidable = {prose, code, rule, bad}
  Names = {f, g, k, title}
  SymbolsOf <- MCSymbolsOf
  MarkersOf <- MCMarkersOf
  Directives = {rule}
  Broken = {bad}
  MaxInput = 0
  MaxPayload = 3
INVARIANTS RecoverableHasReferent SentIsValidated DeletedOnlyIfCarriedBefore
CHECK_DEADLOCK FALSE
