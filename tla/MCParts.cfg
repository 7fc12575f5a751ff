CONSTANTS
  NumBlocks = 3
  Devs = {d1, d2}
  Blks = {1, 2}
  SUPER_BLOCK = 1
  Values = {v1, v2}
  NO_DEV = nodev
  ROBUST = "SLOPPY"
  NumInodes = 3
  NumFilePtrs = 2
  NumProcs = 3
  OPEN_MAX = 3
  LINK_MAX = 1
  FS_PID = 0
  Callers = {1, 2}
  Inos = {2, 3, 4}
  EXT2_ROOT_INO = 2
  Kind <- MCKind
  Entries <- MCEntries
  Paths <- MCPaths
  MaxLost = 0
  BLOCK_SIZE = 2
  NUM_DIRECT = 2
  NUM_INDIRECT = 2
  DataBytes = {7, 8}
  MaxWrites = 2
  UserPids = {7, 8}
  Signals = {4, 13, 18}
  MaxLives = 3
  MaxCalls = 3
  Boots <- MCBoots
  Waits <- MCWaits
  MaxWaits = 2
  MemorySize = 5
  Chars = {0, 1, 2}
SPECIFICATION PartsSpec
INVARIANTS RingOfAll OneCopy  CountsMatch CleanOnDevice DriverOpens OneSlotPerInode
INVARIANTS  OwnEntry OwnAnswer SleepsUnsignalled ClockRight StringsRight
PROPERTIES ImplementsDisk SyncWritesAll
SYMMETRY Symm
CHECK_DEADLOCK FALSE
