SPECIFICATION FairSpec
CONSTANTS
  Root = "root"
  Children <- MCChildren
  Parent <- MCParent
  Path <- MCPath
  Limit = 2
  Scripts <- MCScripts
INVARIANTS
  ExecutionLimit
  AnnouncedOnce
  NoLostWakeup
  DeletionsAreWhole
PROPERTY EverythingSettles
CHECK_DEADLOCK FALSE
