SPECIFICATION Spec
CONSTANTS
  BLOCKSIZE = 5
  NumBlocks = 3
  MaxId = 4
  MaxOpens = 1
  Entries = {e1, e2}
  Worlds <- QuietWorlds
INVARIANT SuperPageSurvives
CHECK_DEADLOCK FALSE
