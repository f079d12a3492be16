SPECIFICATION Spec
CONSTANTS
  None = None
  Second = 2
  Host <- MCHost
  Port <- MCPort
  AnyAddress <- MCAnyAddress
  Text <- MCText
  Server <- MCServer
  Body <- MCBody
  ClientBlock <- MCClientBlock
INVARIANTS
  TypeOK
  SpellingsShareIdentity
  ProvisionedStarts
  BuiltAsWritten
\* An app is provisioned once: the behaviour ends with a runtime or a refusal.
CHECK_DEADLOCK FALSE
