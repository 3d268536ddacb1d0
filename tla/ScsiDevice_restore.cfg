CONSTANTS
  Types = {"disk"}
  BS = 512
  DmaBlocks = 2
  DiskBlocks = 4
  t1 = t1  t2 = t2
  Tags <- MCTag1
  Cmds <- MCRwCmds
  AsyncModes = {FALSE}
  Faults = {}
  MaxObjs = 3
  Tcq = FALSE
SPECIFICATION Spec
INVARIANT OfferedDataIntact
VIEW View
