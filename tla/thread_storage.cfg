SPECIFICATION FairSpec
CONSTANTS
  Process <- Processes
  Client <- Clients
  Boot <- Booters
  ProcessOf <- ProcessOfClient
  Thread <- Threads
  Scripts <- StorageScripts
  GoalsRaceCloses = FALSE
  MaxFailures = 2
  MaxCrashes = 1
INVARIANTS
  WritersHoldLocks
  HistoryReachable
  KeptThreadsLast
PROPERTIES
  CallsReturn
CHECK_DEADLOCK FALSE
