SPECIFICATION FairSpec
CONSTANTS
  c1 = c1
  c2 = c2
  Clients = {c1, c2}
  Requests <- MCRequests
  InSize = 14
  OutSize = 7
  Chunk = 4
  SndBuf = 5
  Segment = 5
INVARIANTS TypeOK OwnAnswer
PROPERTIES RequestIsWhole EveryoneAnswered
CHECK_DEADLOCK FALSE
