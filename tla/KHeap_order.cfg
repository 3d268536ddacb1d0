SPECIFICATION HeapSpec
CONSTANTS
  PAGE = 32
  HDR = 12
  FTR = 8
  HeapStart = 64
  InitEnd = 192
  MaxAddr = 320
  HEAP_MIN_SIZE = 96
  NFrames = 12
  NKernelFrames = 2
  s1 = s1
  s2 = s2
  s3 = s3
  s4 = s4
  Slots <- MCSlots
  Sizes = {4,40}
  Aligns = {FALSE}
SYMMETRY SymSlots
CHECK_DEADLOCK FALSE
INVARIANT
  IndexSorted
