SPECIFICATION HeapSpec
CONSTANTS
  PAGE = 32
  HDR = 12
  FTR = 8
  HeapStart = 64
  InitEnd = 192
  MaxAddr = 352
  HEAP_MIN_SIZE = 96
  NFrames = 14
  NKernelFrames = 2
  s1 = s1
  s2 = s2
  s3 = s3
  s4 = s4
  Slots <- MCSlots4
  Sizes = {12}
  Aligns = {FALSE}
SYMMETRY SymSlots4
CHECK_DEADLOCK FALSE
INVARIANTS
  HeapTypeOK
PROPERTY
  AllocatorRefined
