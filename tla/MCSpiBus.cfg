SPECIFICATION FairSpec
CONSTANTS
  Freqs <- MCFreqs
  Tasks <- MCTasks
  Shells = {"UART"}
  TotalLen = 3
  Early = TRUE
  Lens <- MCLens
  HwNss = {TRUE, FALSE}
INVARIANTS ClockMeetsRequest RestartRestores
           BusExclusive WholeTransfer SelectedThroughout
PROPERTIES FasterIsFaster ClockStableInTransfer BusReturned
