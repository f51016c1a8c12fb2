SPECIFICATION Spec
CONSTANTS
  Segments = 5
  SegSize = 3
  WordMod = 32
  Requests <- MCRequests
INVARIANTS
  TableExact
  BlocksDisjoint
  InUseExact
PROPERTIES
  OthersUntouched
  ImplementsBlockPool
