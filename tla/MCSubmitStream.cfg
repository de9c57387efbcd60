SPECIFICATION StreamSpec
CONSTANTS
  MaxIsoWait = 3
  Endpoints = {1, 2}
  PacketCounts = {1, 3}
  MaxSubmits = 3
  MaxTime = 5
  Requests <- Some
  CableEndpoints = {1}
  ControlBytes = {0, 18, 64}
INVARIANTS CadenceKept CompletesInTurn StreamInStep PayloadAccounted
PROPERTIES ImplementsTimeline
