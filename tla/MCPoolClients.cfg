SPECIFICATION FairClientSpec
CONSTANTS
  Segments = 4
  SegSize = 1
  WordMod = 8
  Requests <- MCRequests
  Tasks <- MCTasks
  Lines <- MCLines
  MaxItems = 1
INVARIANTS BlocksAccounted PoolRecovers
PROPERTY LineEnds
