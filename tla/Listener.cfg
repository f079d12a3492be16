\* Two connections of a listener: hellos in two parts, and for one of them more
\* behind it.
CONSTANTS
  Wrapper = {w1}
  Conn = {c1, c2}
  Name <- MCName
  Endpoint <- MCEndpoint
  RouteSNI <- MCRouteSNI
  HelloLen = 2
  MaxChunk = 3
  Talker = {c1}
  Second = 1
  None = None
SPECIFICATION FairPeersSpec
INVARIANTS
  TypeOK
  OneOwner
  ReplayComplete
  RoutedByInstalled
PROPERTIES
  HelloServed
\* Listeners are closed and peers hang up: the system may stop.
CHECK_DEADLOCK FALSE
