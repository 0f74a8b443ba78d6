SPECIFICATION MCSpec
CONSTANTS
  BLOCKSIZE = 5
  NumBlocks = 6
  MaxId = 8
  Threads = {t1, t2}
  MaxCreates = 3
  MaxRaced = 3
  Junk = {0, 7}
  CacheFiles = {1, 2, 3}
  AddressOf <- MCAddressOf
  Heights <- MCHeights
  Offsets = {0, 1, 2}
  Sizes = {2, 6}
  MaxCacheEntries = 6
  Names = {1, 2, 3}
  Inodes = {1, 2, 3}
  Places = {1, 2, 3}
  Targets = {1, 2}
  Attrs = {"user.a"}
  DirHandles = {1}
  Rooms = {1, 2}
INVARIANTS
  TypeOK
  HeaderFound
  MapBlockKept
  CacheExact
  ScanExact
PROPERTIES
  Implements
  MountIsPlain
CHECK_DEADLOCK FALSE
