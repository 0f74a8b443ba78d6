SPECIFICATION RaceSpec
CONSTANTS
  BLOCKSIZE = 5
  NumBlocks = 7
  MaxId = 9
  Threads = {t1, t2}
  MaxCreates = 2
  MaxRaced = 2
  Junk = {0}
INVARIANT NumbersNotShared
CHECK_DEADLOCK FALSE
