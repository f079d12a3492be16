\* The order in which the observer is called.
CONSTANTS
  Direction = {ingressToEndpoint, endpointToIngress}
  Handler = handler
  MaxBytes = 2
SPECIFICATION Spec
INVARIANTS
  StartedIsFirst
CHECK_DEADLOCK FALSE
