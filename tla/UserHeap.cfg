SPECIFICATION HeapSpec
CONSTANTS
  DirSpan = 2
  PageSize = 2
  TopPage = 9
  NumFrames = 9
  MaxBlocks = 3
  FileSize = 4
  Files <- MCFiles
  Faults = {"stack_oom", "elf_oom", "open", "stat", "file_oom", "read", "bss_oom"}
  AddrSpace = 64
  InfoSize = 1
  Sizes = {0, 1, 2, 3}
  MaxAllocs = 3
INVARIANTS
  ImageFaithful
  SegmentAccess
  LoadBalanced
  BlocksUsable
CHECK_DEADLOCK FALSE
