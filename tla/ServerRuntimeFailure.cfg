\* What becomes of an error of a server that has been ready.
CONSTANTS
  Stream = {s1}
  Latency = {}
  Millisecond = 2
  None = None
SPECIFICATION Spec
INVARIANTS
  RunFailureReported
CHECK_DEADLOCK FALSE
