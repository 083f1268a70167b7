SPECIFICATION Spec
CONSTANTS
  Scripts <- SaveScripts
  Failures = {"save"}
INVARIANTS
  AcknowledgedMessageSaved
  StatusSurvivesReload
PROPERTIES
  ForkSeesQuiescence
CHECK_DEADLOCK FALSE
