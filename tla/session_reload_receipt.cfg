SPECIFICATION Spec
CONSTANTS
  Scripts <- MessageScripts
  Failures = {}
INVARIANTS
  AcknowledgedMessageSaved
CHECK_DEADLOCK FALSE
