SPECIFICATION RaceSpec
CONSTANTS
  Segments = 5
  SegSize = 3
  WordMod = 32
  Requests = {0, 1, 4, 9, 16}
  Callers = {"HTTP"}
PROPERTY LoopsImplementMemPool
