SPECIFICATION Spec
CONSTANTS
  Threads = {1, 2, 3}
  MaxNodes = 4
  MaxObjects = 4
  MaxOpens = 1
  MaxHides = 1
  Names <- MCNames
  InitFs <- MCFs
  Configs <- MCDeadlock
INVARIANT NoDeadlock
CHECK_DEADLOCK FALSE
