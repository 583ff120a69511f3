CONSTANTS
  NumEntries = 4
  Beyond = 2
  BlockSize = 4
  SizeMod = 32
  Sizes = {4, 12}
  TableAddr = 12
  SafeBlocks = 5
SPECIFICATION Spec
INVARIANT BelowSafeBoundary
