SPECIFICATION PartsSpec
CONSTANTS
  LEVEL0_BITS = 2
  INTERNAL_BITS = 1
  MAX_LEVEL = 3
  WordBits = 4
  FileChunks = {1, 6, 13, 32}
  Geometries <- MCGeometries
  Null = Null
  XattrNames <- MCXattrNames
  XattrValues <- MCXattrValues
  XattrSpace = 24
  SizeField = 4
  SumBlocks = {0, 1}
  SumPages = 6
  SumDataBytes = 8
  SumTagBytes = 2
  SumHdrBytes = 1
  NoTags = NoTags
  MaxSumSeq = 4
  TagFormats <- MCTagFormats
  Tags2 <- MCTags2
  Tags1 <- MCTags1
  PageData <- MCPageData
  PairBits <- MCPairBits
  MountPoints <- MCMountPoints
  LongNames = {}
  MaxDividers = 5
  MaxDereferences = 1
  MaxObjects = 5
  WalkPaths <- MCWalkPaths
  CallPaths <- MCCallPaths
  Aliases <- MCAliases
  Starts <- MCStarts
  PathCalls = 2
  NullPath = NullPath
  NoObj = NoObj
  Endless = Endless
  HdrNames <- MCHdrNames
  MaxNameLength = 255
  ShortLength = 15
  HdrAliases <- MCHdrAliases
  Ones = 7
  HdrTimes <- MCHdrTimes
  DevParams <- MCDevParams
  TagBytes = 16
  TnodeBits = 16
  BlockSizes = {512, 4096}
  NTemp = 2
  TempUsers = 3
INVARIANTS
  TreeSound
  AttributesKept
  SummariesTrue
  FormsTold
  PathCallsAnswer
  StartSound
CHECK_DEADLOCK FALSE
