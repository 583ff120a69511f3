SPECIFICATION Spec
CONSTANTS
  VGA_WIDTH = 4
  VGA_HEIGHT = 2
  Rows = 4
  Keys = {"a", "b"}
  LineMax = 4
  Outputs <- MCOutputs
  Numbers <- MCNumbers
  INT_MAX = 127
INVARIANTS
  LineEchoed
  NumberShown
PROPERTY
  OutputKept
CHECK_DEADLOCK FALSE
