SPECIFICATION FairSpec
CONSTANTS
  c1 = c1
  c2 = c2
  Clients = {c1, c2}
  Requests = {"RRQ", "WRQ"}
  Files <- MCFiles
  BlkMod = 65536
  Timeout = 1
  MaxRetries = 1
  Slots = 1
  Fails = {"open", "read", "write", "mem"}
  MaxSends <- MCSends
  MaxDups = 1
INVARIANTS BufferWithHandle TransfersArePrefixes
PROPERTIES AcknowledgedIsWhole NotEarly TransferEnds
CHECK_DEADLOCK FALSE
