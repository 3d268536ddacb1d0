SPECIFICATION Spec
CONSTANTS
  MaxPid = 3
  InitialEsp = 20
  StackStart = 40
  StackSize = 12
  BootStacks <- MCBootStacksAliased
CHECK_DEADLOCK FALSE
INVARIANT
  StackRelocated
