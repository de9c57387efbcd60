SPECIFICATION FairSpec
CONSTANTS
  DeviceNumber = 1
  NumCables = 1
  RingCap = 1
  Workers = {1, 2}
  MaxIsoWait = 250
  Hosts <- OneHost
  Events = {"hangUp", "stop", "garbage", "stall"}
  MaxUnlinks = 1
INVARIANTS ClosedIsQuiet
PROPERTIES EveryUrbAnswered LeavingEnds
