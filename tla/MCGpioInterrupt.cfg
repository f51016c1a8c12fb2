SPECIFICATION FairSpec
CONSTANTS
  Shells = {"UART", "HTTP"}
  Words <- MCWords
  Texts <- MCTexts
  BufSize = 5
  MaxEdges = 2
  MaxTexts = 2
INVARIANTS TypeOK NeverLeftDisabled RunsTheText
PROPERTY EdgesServed
CHECK_DEADLOCK FALSE
