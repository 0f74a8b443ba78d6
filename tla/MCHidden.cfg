SPECIFICATION FairSpec
CONSTANTS
  BLOCKSIZE = 5
  NumBlocks = 4
  MaxId = 2
  MaxOpens = 1
  Entries = {e1, e2}
  Worlds <- QuietWorlds
PROPERTY HiddenGoesAway
CHECK_DEADLOCK FALSE
