CONSTANTS
  NumEntries = 5
  Beyond = 3
  BlockSize = 4
  SizeMod = 32
  Sizes = {0, 4, 5, 12}
  TableAddr = 12
  SafeBlocks = 8
SPECIFICATION Spec
INVARIANTS NoPageSharing TableAgrees ChainsEnd CoversRequest OverrunsOnce
PROPERTY ImplementsAllocator
