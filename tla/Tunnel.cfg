\* Two streams, which may share the session of the one endpoint.
CONSTANTS
  Stream = {s1, s2}
  Key <- MCKey
  Upstream <- MCUpstream
  Transport <- MCTransport
  Second = 1
  None = None
SPECIFICATION FairSpec
INVARIANTS
  TypeOK
  HandlerLeavesNothing
  DialsMeant
  CountsAgree
PROPERTIES
  StreamsEnd
\* Each stream is dialed once: after that nothing need happen.
CHECK_DEADLOCK FALSE
