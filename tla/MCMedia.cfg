CONSTANTS
  s1 = s1
  s2 = s2
  NumPages = 3
  Subarray <- Subarrays
  SubarrayOf <- Interleaved
  MaxBlocks = 5
  PagesPerBlock = 2
  WearLeveling = FALSE
SPECIFICATION MediaSpec
INVARIANTS
  MediaInv
  
  
  
