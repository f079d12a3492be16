\* The same with peers that may stay silent.
CONSTANTS
  Wrapper = {w1}
  Conn = {c1, c2}
  Name <- MCName
  Endpoint <- MCEndpoint
  RouteSNI <- MCRouteSNI
  HelloLen = 1
  MaxChunk = 1
  Talker = {}
  Second = 1
  None = None
SPECIFICATION FairSpec
PROPERTIES
  HelloServed
\* Listeners are closed and peers hang up: the system may stop.
CHECK_DEADLOCK FALSE
