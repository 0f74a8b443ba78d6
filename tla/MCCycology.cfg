SPECIFICATION Spec
CONSTANTS
  BLOCKSIZE = 5
  NumBlocks = 5
  MaxId = 8
  MaxOpens = 1
  Entries = {e1, e2, e3}
  Worlds <- MCWorlds
INVARIANTS
  TypeOK
  NoSharedBlock
  FileNumbersInUse
  HeaderIsOwn
  CountCoversHandles
PROPERTY
  WrittenPagesStay
SYMMETRY EntrySymmetry
CHECK_DEADLOCK FALSE
