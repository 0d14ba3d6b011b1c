\* One request of any kind to a server of any configuration, and two chats relayed
\* under backpressure; any client, the upstream or the server may stop.
SPECIFICATION LiveSpec
CONSTANTS
  r1 = r1  r2 = r2
  Requests = {r1, r2}
  Scenarios <- AllScenarios
  HighWater = 2
  MaxChunks = 3
INVARIANTS TypeOK RefusedOpensNoSession NoOpenRelay TimerSparesBody HangUpReleasesUpstream WholeOrBroken
PROPERTIES OneHead WaitsEnd
CHECK_DEADLOCK FALSE
