SPECIFICATION AppFairSpec
CONSTANTS
  AppThread = {t1, t2, t3}
  First = t1
  Status = {0, 7}
  MaxRequests = 3
INVARIANTS
  LaunchGuarded
  LoadedOnce
  ExitCodePassed
PROPERTIES
  ExitEnds
  ToldRuns
CHECK_DEADLOCK FALSE
