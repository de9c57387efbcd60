SPECIFICATION Spec
CONSTANTS
  DeviceNumber = 1
  NumCables = 1
  RingCap = 2
  Workers = {1, 2}
  MaxIsoWait = 250
  Hosts <- Streamer
  Events = {}
  MaxUnlinks = 0
INVARIANTS PlayedInOrder
