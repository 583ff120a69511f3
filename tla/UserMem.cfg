CONSTANTS
  Proc = {p1, p2}
  Nobody = Nobody
  NumFrames = 11
  NumPages = 4
  DirSpan = 2
  MaxBlocks = 2
  MaxMaps = 2
  WipePages = 3
SYMMETRY ProcSymmetry
SPECIFICATION Spec
CHECK_DEADLOCK FALSE
INVARIANTS UserFramesOwned NoLeftovers NoExtraAccess AccessKept KernelMapped OnlyPagesLost
