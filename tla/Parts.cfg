\* Every small configuration and two requests each, blocks below and above the
\* reserved bit, addresses near the end of the address space; every file of up
\* to three lines; two pages completed by overlapping writes; two blocks of two
\* pages that are written and one that is only read; every mask and choice of
\* addresses of four lanes; two warps and one kept iteration.
CONSTANTS
  Config <- Sweep
  GpuAddress <- GpuAddresses
  MaxOcp = 2
  DirectBit = 8
  MaxAddress = 20
  MaxRequests = 2
  Files <- ShortFiles
  Channels = 2
  OldTable <- OnePage
  PageSize = 8
  Window = 4
  Base = 8
  Writes <- Sectors
  MaxBytes = 20
  Block = {b1, b2, b3}
  Direct = {b3}
  PagesPerBlock = 2
  NumBuffers = 2
  BufferEnabled = TRUE
  Latency <- Latencies
  Nothing = Nothing
  Lanes = 4
  AddrRange = 16
  StrideRange = 8
  LaneAddress <- Corners
  Immediate <- Numbers
  Warps = {w1, w2}
  Instrs = {1, 2, 3}
  Spinlocks <- Kernels
  Keep = 1
  MaxRecords = 6
SPECIFICATION Spec
INVARIANTS
  AddressesSound
  ChannelAffinity
  LoadSound
  CoverageExact
  SubarrayInv
  TraceRestored
  FastForwardExact
CHECK_DEADLOCK FALSE
