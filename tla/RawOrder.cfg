\* One page, half and full writes and reads: the read-after-write path.
CONSTANTS
  NumPages = 1
  Subarray <- OneSubarray
  SubarrayOf <- SharedSubarray
  MaxBlocks = 0
  PagesPerBlock = 2
  WearLeveling = FALSE
  Req <- Overwriting
  PageOf <- MCPageOf
  IsWrite <- MCIsWrite
  Sector <- Sectors
  Covers <- MCCovers
  Channel <- OneChannel
  ChannelOf <- SharedChannel
  UseFtl = FALSE
  MaxOutstanding = 3
  MaxOutstandingWrites = 1
  WriteBufferMax = 2
  AggTimeout = 1
  StrictWrites = FALSE
  IdleQuiet = 2
  Scheduler = 0
  DrainHigh = 1
  DrainMaxwait = 1
  AggReads = FALSE
  ReadAggWindow = 0
  ReadAggThreshold = 1
  MaxActive = 1
  TBUFF = 1
  TR = 2
  TPROG = 2
  TBERS = 1
  CacheEntries = 1
  CacheHitLatency = 1
  ReturnCap = 1
  ReadCost = 2
  LinkBw = 1
SPECIFICATION OrderSpec
INVARIANTS
  ReadAfterWriteOrder
