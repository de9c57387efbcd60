SPECIFICATION Spec
CONSTANTS
  DeviceNumber = 1
  NumCables = 1
  RingCap = 1
  Workers = {1}
  MaxIsoWait = 250
  Hosts <- Streamer
  Events = {}
  MaxUnlinks = 1
INVARIANTS UnlinkedNotCompleted
