SPECIFICATION MCSpec
CONSTANTS
  Instances <- MCInstances
  SoModules <- MCSoModules
  ModuleLists <- MCModuleLists
  UserOps <- MCUserOps
  Calls <- AllOps
  PathArgs <- MCPathArgs
  Bases <- MCBases
  DirNames <- MCDirNames
  LockOwners = {1, 2}
  OFFSET_MAX = 2
  NameLen <- MCNameLen
  EntryOffset <- MCEntryOffset
  BufferSizes = {192, 400, 1100}
  MaxLookups = 3
  IdSpace = 8
  HashOf <- MCHashOf
  NODE_TABLE_MIN_SIZE = 2
  MergeSteps = 2
  PerSlab = 2
  MaxGeneration = 1
  LinkBases <- MCLinkBases
  LinkPlaces <- MCLinkPlaces
  LinkTexts <- MCLinkTexts
  LinkSizes = {6, 20}
  SrcVecs <- MCSrcVecs
  DstVecs <- MCDstVecs
  TmpSize = 2
  SendThreads = {1, 2}
  MaxReplies = 2
  Sources <- MCSources
  HeaderLen = 2
  RemNodes = 3
  RemFiles = {"a", "b"}
  MaxKnown = 2
  remember = 90
  Clock = 60
  Payloads <- MCPayloads
  Words <- MCWords
  BLOCKSIZE = 2
  NumBlocks = 2
  MaxErases = 2
INVARIANTS
  LayersExact
  LocksAgree
  ReadingExact
  TableFinds
  LinkRewritten
  CopyExact
  MessagesExact
  RememberExact
  TypeOK
  ProgrammedOnceInOrder
PROPERTIES
  IdentityUnique
  RememberedLong
CHECK_DEADLOCK FALSE
