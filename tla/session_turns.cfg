SPECIFICATION FairSpec
CONSTANTS
  Scripts <- TurnScripts
  Failures = {"cleanup"}
INVARIANTS
  TurnsAreBracketed
  SteeringConsumed
  HistoryFollowsRollout
  ResumesLastTurn
  ExecutedOnce
  MessageOnce
PROPERTIES
  NothingAfterSettling
  AllAnswered
  InterruptSettles
CHECK_DEADLOCK FALSE
