CONSTANTS
  MaxProcs = 3
  Task = {t1, t2, t3}
  Null = Null
  Faults = {"stack_oom", "load_failed", "task_oom", "bad_segment", "map_failed", "args_too_long", "bad_pointer"}
  MaxSteps = 1
SPECIFICATION ListSpec
CHECK_DEADLOCK FALSE
INVARIANTS UserModeConsistent ContextIntact ListFollowsKernel
PROPERTIES IdentityStable ReadyTaskRuns
