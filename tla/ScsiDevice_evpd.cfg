CONSTANTS
  Types = {"disk"}
  BS = 512
  DmaBlocks = 2
  DiskBlocks = 4
  t1 = t1  t2 = t2
  Tags <- MCTags
  Cmds <- MCEvpdCmds
  AsyncModes = {FALSE, TRUE}
  Faults = {"io"}
  MaxObjs = 3
  Tcq = FALSE
SPECIFICATION Spec
INVARIANT ReplyWithinAllocation
VIEW View
