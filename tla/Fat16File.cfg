CONSTANTS
  SectorSize = 4
  EntryMod = 16
  ClusterBytes = 16
  Clusters = {2, 3, 4, 5}
  Marks = {10, 12}
  DataStart = 92
  MaxChain = 3
  ReadSizes = {1, 6, 16, 17, 47}
SPECIFICATION Spec
INVARIANTS ReadsFollowChain
