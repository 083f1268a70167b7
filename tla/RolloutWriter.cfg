SPECIFICATION FairSpec
CONSTANTS
  LineLen = 3
  MaxSeq = 3
  MaxGen = 2
  MaxOps = 2
INVARIANTS
  TypeOK
  AlwaysReadable
  PromisedDurable
  AckedVisible
  NothingDropped
PROPERTIES
  ShutdownSettles
  ImplementsLog
CHECK_DEADLOCK FALSE
