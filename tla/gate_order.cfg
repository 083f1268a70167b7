SPECIFICATION FairSpec
CONSTANTS
  N = 3
  Signals = {"turn", "child"}
INVARIANTS NoLostWakeup ExclusiveAlone
PROPERTIES ImplementsOrder EveryReadyCallServed
CHECK_DEADLOCK FALSE
