\* Strict write policy with an FTL of two blocks, overwrites of page 0: every way
\* to fail_fast. The process exits then, so the system may stop.
CONSTANTS
  NumPages = 2
  Subarray <- OneSubarray
  SubarrayOf <- SharedSubarray
  MaxBlocks = 2
  PagesPerBlock = 2
  WearLeveling = FALSE
  Req <- Mixed
  PageOf <- MCPageOf
  IsWrite <- MCIsWrite
  Sector <- Sectors
  Covers <- MCCovers
  Channel <- OneChannel
  ChannelOf <- SharedChannel
  UseFtl = TRUE
  MaxOutstanding = 3
  MaxOutstandingWrites = 1
  WriteBufferMax = 2
  AggTimeout = 1
  StrictWrites = TRUE
  IdleQuiet = 2
  Scheduler = 0
  DrainHigh = 1
  DrainMaxwait = 1
  AggReads = FALSE
  ReadAggWindow = 0
  ReadAggThreshold = 1
  MaxActive = 1
  TBUFF = 1
  TR = 1
  TPROG = 1
  TBERS = 1
  CacheEntries = 1
  CacheHitLatency = 1
  ReturnCap = 1
  ReadCost = 2
  LinkBw = 2
SPECIFICATION OrderSpec
INVARIANTS
  StrictProgramsFullPages
  PageWritesInOrder
CHECK_DEADLOCK FALSE
