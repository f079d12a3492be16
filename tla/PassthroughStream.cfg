\* Both directions copy up to two bytes, in chunks of one or two.
CONSTANTS
  Direction = {ingressToEndpoint, endpointToIngress}
  Handler = handler
  MaxBytes = 2
SPECIFICATION FairSpec
INVARIANTS
  TypeOK
  OneOutcome
  BytesConserved
  EndedIsLast
  NothingOwed
PROPERTIES
  StartedEnds
\* A stream ends, and the model with it.
CHECK_DEADLOCK FALSE
