\* Two wrappers with routes of their own on one server.
CONSTANTS
  Wrapper = {w1, w2}
  Conn = {c1}
  Name <- MCName
  Endpoint <- MCEndpoint
  RouteSNI <- MCRouteSNIShared
  HelloLen = 1
  MaxChunk = 1
  Talker = {}
  Second = 1
  None = None
SPECIFICATION Spec
INVARIANTS
  MatchingForwarded
\* Listeners are closed and peers hang up: the system may stop.
CHECK_DEADLOCK FALSE
