SPECIFICATION Spec
CONSTANTS
  Threads = {t1, t2}
  MarkSize = 8
  BlockSize = 52
  Align = 4
  Sizes = {4, 12, 40}
  MaxBlocks = 2
INVARIANTS BlocksSound MaxFreeTrue
PROPERTIES CopyFits ImplementsAllocator
CHECK_DEADLOCK FALSE
