SPECIFICATION FairSpec
CONSTANTS
  Identity = {i1, i2}
  Slot = {s1, s2}
  None = None
  Config <- MCConfig
INVARIANTS
  TypeOK
  CurrentIsServed
  IdleRunsCurrentOnly
PROPERTIES
  UnchangedClientKept
  ConnectorReturns
