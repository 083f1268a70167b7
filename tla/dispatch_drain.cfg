SPECIFICATION DispatchSpec
CONSTANTS
  N = 3
  Signals = {"turn"}
  Preparations = {"open"}
  Failures = {"start"}
INVARIANTS ResultsInCallOrder NothingOutlivesTurn EffectsRecorded
CHECK_DEADLOCK FALSE
