\* One Start and one Stop, two streams at any moment.
CONSTANTS
  Stream = {s1, s2}
  Latency <- MCLatency
  Millisecond = 2
  None = None
SPECIFICATION FairSpec
INVARIANTS
  TypeOK
  FailedStartCleansUp
  StopLeavesNothing
  LatencyHonest
PROPERTIES
  StartedServes
  CallsReturn
  ImplementsAppRuntime
\* Caddy starts and stops an app once; after that nothing need happen.
CHECK_DEADLOCK FALSE
