CONSTANTS
  Thread = {t1, t2}
  Nobody = Nobody
  MaxDepth = 1
  Modulus = 4
  TimedTypes = {"FAST", "RECURSIVE", "ERRORCHECK"}
  IntrTypes = {}
SPECIFICATION Spec
INVARIANT UnlockSucceeds
\* LOG_FATAL ends the process.
CHECK_DEADLOCK FALSE
