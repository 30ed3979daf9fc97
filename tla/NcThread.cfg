SPECIFICATION FairSpec
CONSTANTS
  Thread = {Main, a, b, c}
  Main = Main
  MaxThreadId = 2
  Careful = TRUE
  None = None
INVARIANTS DataKept UniqueIds ShutdownWaits
PROPERTIES JoinReturns LastThreadWakesMain
\* The process ends, or threads join each other.
CHECK_DEADLOCK FALSE
