\* One stack shared by three partitions that keep sending, with one place in
\* the device.
CONSTANTS
  NumPartitions = 3
  SubsPer = 1
  NumStacks = 1
  Req <- Three
  Writebacks <- None
  SourceOf <- MCSourceOf
  GpuPage <- MCGpuPage
  IsWriteback <- MCIsWriteback
  MaxOutstanding = 1
  ReturnCap = 1
  RouteAll = FALSE
  L2Depth = 1
  ReplyDepth = 1
  SharedLimit = 0
  Draining <- OnlyOne
SPECIFICATION FairSpec
PROPERTIES
  Admitted
