SPECIFICATION DispatchSpec
CONSTANTS
  N = 2
  Signals = {"turn"}
  Preparations = {"open", "asks"}
  Failures = {}
PROPERTIES CancellationStopsNewWork
CHECK_DEADLOCK FALSE
