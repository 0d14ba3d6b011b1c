\* Lines of every kind, cut into chunks anywhere, until the input ends or a signal comes;
\* and the hasher by itself.
SPECIFICATION MCSpec
CONSTANTS
  a1 = a1  a2 = a2  a3 = a3  a4 = a4  b1 = b1  b2 = b2  c1 = c1  a = a  b = b  c = c
  Hashes <- MCHashes
  Refs = {a, b, c}
  RefOf <- MCRefOf
  None = none
  Ambiguous = ambiguous
  MaxText = 2
  Inputs <- MCInputs
  MaxBuffer = 1
  TraceCapacity = 1
  MaxSize = 3
INVARIANTS LookupSound LookupComplete RehydrationExact
INVARIANTS AnsweredOnce ToolAnswersInOrder MarkersRestore ExitLosesNothing
CHECK_DEADLOCK FALSE
