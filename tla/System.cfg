\* Two stacks, one partition of two sub-partitions that use both stacks; every
\* buffer of one place, a writeback among the requests.
CONSTANTS
  NumPartitions = 1
  SubsPer = 2
  NumStacks = 2
  Req <- TwoByTwo
  Writebacks <- Back
  SourceOf <- MCSourceOf
  GpuPage <- MCGpuPage
  IsWriteback <- MCIsWriteback
  MaxOutstanding = 2
  ReturnCap = 1
  RouteAll = FALSE
  L2Depth = 1
  ReplyDepth = 1
  SharedLimit = 1
  Draining <- OnlyOne
SPECIFICATION FairSpec
INVARIANTS
  SystemInv
  RoutedHome
PROPERTIES
  StacksAreDevices
  Returned
