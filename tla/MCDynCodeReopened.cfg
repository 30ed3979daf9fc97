SPECIFICATION Spec
CONSTANTS
  None = None
  MainThread = m
  Thread = {m, a, b}
  Region = {r1}
  MaxSlots = 3
  MaxGeneration = 1
INVARIANT RemovedUnreachable
