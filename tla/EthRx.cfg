SPECIFICATION FairSpec
CONSTANTS
  DescCnt = 4
  RxPool = 4
  MboxSize = 2
  MaxKept = 2
  MaxFrames = 10
INVARIANTS PbufsAccounted OverwrittenALapLater
PROPERTIES InOrder FramesAreTaken
CHECK_DEADLOCK FALSE
