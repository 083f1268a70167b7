SPECIFICATION Spec
CONSTANTS
  Scripts <- QueueScripts
  Capacity = 2
  SavesFail = TRUE
  MaxResumes = 1
  MaxCrashes = 1
INVARIANTS
  StartedOnce
  QueueOwnsUntilAccepted
  NoLostWakeup
PROPERTIES
  StartsWhatIsQueued
CHECK_DEADLOCK FALSE
