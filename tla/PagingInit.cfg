SPECIFICATION Spec
CONSTANTS
  PAGE = 16
  PagesPerTable = 4
  NTables = 8
  MemEnd = 512
  KernelEnds <- MCKernelEnds
  VgaAddr = 20
  ProbeAddr = 480
CHECK_DEADLOCK FALSE
INVARIANTS
  PagingTypeOK
  IdentityMapped
