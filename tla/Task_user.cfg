SPECIFICATION Spec
CONSTANTS
  MaxPid = 3
  InitialEsp = 20
  StackStart = 40
  StackSize = 12
  BootStacks <- MCBootStacks
CHECK_DEADLOCK FALSE
PROPERTY
  RoundRobin
