SPECIFICATION LinkFairSpec
CONSTANTS
  Speeds = {"100FD", "10HD"}
  Default = "100FD"
  Leases = {"a", "b"}
  MaxTries = 4
  CountedTries = 6
  Boot = {"down", "autoneg", "100FD", "10HD"}
  MaxPlugs = 3
INVARIANT StaticHasNoClient
PROPERTIES LinkFollows AddressInTheEnd
CHECK_DEADLOCK FALSE
