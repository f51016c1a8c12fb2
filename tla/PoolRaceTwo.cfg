SPECIFICATION RaceSpec
CONSTANTS
  Segments = 3
  SegSize = 1
  WordMod = 16
  Requests = {1, 2}
  Callers = {"HTTP", "tcpip"}
INVARIANT FoundStaysFree
