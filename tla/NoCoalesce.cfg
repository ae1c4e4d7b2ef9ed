\* Half and whole page writes of two pages and reads of both; keys wide enough
\* for the number of requests.
CONSTANTS
  LogicalPage = {1, 2}
  PageSubarray <- OneSubarray
  Req <- Mixed
  ReqPage <- MCReqPage
  IsWrite <- MCIsWrite
  Half <- MCHalf
  KeyShift = 3
  BitOr <- MCBitOr
  MaxOutstanding = 4
  MaxOutstandingWrites = 1
  WriteBufferMax = 2
  MaxActive = 1
  ReturnCap = 1
SPECIFICATION FairSpec
INVARIANTS
  EntriesSound
PROPERTIES
  ReadsAnswered
CHECK_DEADLOCK FALSE
