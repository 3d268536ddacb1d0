CONSTANTS
  Types = {"disk", "cdrom"}
  BS = 512
  DmaBlocks = 2
  DiskBlocks = 4
  t1 = t1  t2 = t2
  Tags <- MCTag1
  Cmds <- MCAllCmds
  AsyncModes = {FALSE, TRUE}
  Faults = {"io"}
  MaxObjs = 3
  Tcq = FALSE
SPECIFICATION Spec
INVARIANTS ScsiTypeOK RequestsMatchCommands TransferMatchesLength TimerOwned
PROPERTY RestoreKeepsRequests
VIEW View
