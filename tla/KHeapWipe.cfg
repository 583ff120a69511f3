CONSTANTS
  NumEntries = 4
  Beyond = 2
  BlockSize = 4
  SizeMod = 32
  Sizes = {4, 12}
  TableAddr = 2
  SafeBlocks = 8
SPECIFICATION Spec
INVARIANT NoPageSharing
