CONSTANTS
  Thread = {t1, t2, t3}
  Nobody = Nobody
  MaxDepth = 2
  Modulus = 4
  TimedTypes = {"FAST"}
  IntrTypes = {"ERRORCHECK"}
SPECIFICATION FairSpec
INVARIANTS NoLostWakeup LibraryExclusion OwnerRight OnceRight
PROPERTY OnceReturns
\* LOG_FATAL ends the process.
CHECK_DEADLOCK FALSE
