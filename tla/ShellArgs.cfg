CONSTANTS
  LineMax = 6
  BufSize = 8
  NameMax = 7
  PathMax = 6
  StackSize = 18
  PtrSize = 4
SPECIFICATION Spec
CHECK_DEADLOCK FALSE
INVARIANT ArgumentsFit
