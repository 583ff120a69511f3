CONSTANTS
  MaxProcs = 4
  Task = {t1, t2, t3, t4}
  Null = Null
  Faults = {"stack_oom", "load_failed", "bad_segment", "bad_pointer"}
  MaxSteps = 1
SYMMETRY TaskSymmetry
SPECIFICATION Spec
CHECK_DEADLOCK FALSE
INVARIANTS SingleTaskPerProcess ZombieIffDead PanicsOnlyWithoutLiveTasks
PROPERTY DeadStaysDead
