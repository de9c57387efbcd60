SPECIFICATION Spec
CONSTANTS
  DeviceNumber = 2
  NumCables = 2
  RingCap = 1
  Workers = {w1, w2}
  OtherRequests <- Odd
  MaxPlayed = 2
INVARIANTS CablesIsolated StaleOnlyByRace AnnouncedIsServed
PROPERTIES RefusedChangesNothing ResetIsLocal
SYMMETRY WorkerSymmetry
