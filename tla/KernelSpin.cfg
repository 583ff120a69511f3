CONSTANTS
  MaxProcs = 3
  Task = {t1, t2, t3, t4}
  Null = Null
  Faults = {}
  MaxSteps = 0
SYMMETRY TaskSymmetry
SPECIFICATION Spec
CHECK_DEADLOCK FALSE
INVARIANT ClockRunsATask
