\* FTL in HBF mode: one sub-array whose blocks of two pages are recycled by
\* overwrites; full-page writes of two pages and a read of the first.
CONSTANTS
  NumPages = 2
  Subarray <- OneSubarray
  SubarrayOf <- SharedSubarray
  MaxBlocks = 3
  PagesPerBlock = 2
  WearLeveling = FALSE
  Req <- Recycling
  PageOf <- MCPageOf
  IsWrite <- MCIsWrite
  Sector <- Sectors
  Covers <- MCCovers
  Channel <- OneChannel
  ChannelOf <- SharedChannel
  UseFtl = TRUE
  MaxOutstanding = 0
  MaxOutstandingWrites = 2
  WriteBufferMax = 2
  AggTimeout = 0
  StrictWrites = FALSE
  IdleQuiet = 0
  Scheduler = 0
  DrainHigh = 1
  DrainMaxwait = 1
  AggReads = FALSE
  ReadAggWindow = 0
  ReadAggThreshold = 1
  MaxActive = 2
  TBUFF = 1
  TR = 1
  TPROG = 1
  TBERS = 1
  CacheEntries = 1
  CacheHitLatency = 1
  ReturnCap = 1
  ReadCost = 2
  LinkBw = 2
SPECIFICATION FairSpec
INVARIANTS
  SchedulerConsistent
PROPERTIES
  ImplementsMedia
  WriteAckedAfterProgram
  
