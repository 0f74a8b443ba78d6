SPECIFICATION Spec
CONSTANTS
  Threads = {1, 2}
  MaxNodes = 4
  MaxObjects = 4
  MaxOpens = 1
  MaxHides = 1
  Names <- MCNames
  InitFs <- MCFs
  Configs <- MCConfigs
INVARIANTS NoPanic PathsHeld CountsExact HiddenRemoved
PROPERTIES Answered
CHECK_DEADLOCK FALSE
