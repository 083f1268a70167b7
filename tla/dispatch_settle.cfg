SPECIFICATION FairDispatchSpec
CONSTANTS
  N = 2
  Signals = {"turn"}
  Preparations = {"open", "asks", "blocked", "broken"}
  Failures = {"start", "result"}
PROPERTIES InterruptedTurnSettles
CHECK_DEADLOCK FALSE
