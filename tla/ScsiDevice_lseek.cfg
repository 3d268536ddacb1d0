CONSTANTS
  Types = {"disk"}
  BS = 512
  DmaBlocks = 2
  DiskBlocks = 4
  t1 = t1  t2 = t2
  Tags <- MCTags
  Cmds <- MCRwCmds
  AsyncModes = {FALSE, TRUE}
  Faults = {"lseek"}
  MaxObjs = 3
  Tcq = FALSE
SPECIFICATION Spec
INVARIANT NoStrayCallback
VIEW View
