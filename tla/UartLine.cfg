SPECIFICATION FairSpec
CONSTANTS
  Chars = {"a", " ", ";", "#", "-"}
  LineLen = 6
  MaxKeys = 5
INVARIANT TypeOK
PROPERTIES ImplementsLineEditor KeysAreTaken
CHECK_DEADLOCK FALSE
