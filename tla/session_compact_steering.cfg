SPECIFICATION Spec
CONSTANTS
  Scripts <- CompactScripts
  Failures = {}
INVARIANTS
  SteeringConsumed
CHECK_DEADLOCK FALSE
