SPECIFICATION Spec
CONSTANTS
  None = None
  Thread = {m, a, b}
  MainThread = m
  Region = {r1, r2}
  MaxSlots = 3
  MaxGeneration = 2
SYMMETRY Symmetry
INVARIANTS CodeStable GenerationsOrdered
PROPERTIES RemovedAfterCheckIn
