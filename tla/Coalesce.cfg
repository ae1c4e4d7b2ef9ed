\* Direct addressing; two sub-arrays of one channel, a slow link, a return
\* queue of one, write-drain windows and aggregated reads; half-page writes of
\* page 0, a full page and reads.
CONSTANTS
  NumPages = 2
  Subarray <- TwoSubarrays
  SubarrayOf <- SpreadSubarrays
  MaxBlocks = 0
  PagesPerBlock = 2
  WearLeveling = FALSE
  Req <- Coalescing
  PageOf <- MCPageOf
  IsWrite <- MCIsWrite
  Sector <- Sectors
  Covers <- MCCovers
  Channel <- OneChannel
  ChannelOf <- SharedChannel
  UseFtl = FALSE
  MaxOutstanding = 3
  MaxOutstandingWrites = 1
  WriteBufferMax = 2
  AggTimeout = 1
  StrictWrites = FALSE
  IdleQuiet = 2
  Scheduler = 2
  DrainHigh = 2
  DrainMaxwait = 1
  AggReads = TRUE
  ReadAggWindow = 2
  ReadAggThreshold = 2
  MaxActive = 1
  TBUFF = 1
  TR = 2
  TPROG = 2
  TBERS = 1
  CacheEntries = 1
  CacheHitLatency = 1
  ReturnCap = 1
  ReadCost = 2
  LinkBw = 1
SPECIFICATION FairSpec
INVARIANTS
  TypeOK
  ExactlyOnce
  CountersExact
  CacheNotStale
PROPERTIES
  ImplementsDevice
  Drains
