SPECIFICATION Spec
CONSTANTS
  MaxIsoWait = 250
  Endpoints = {1}
  PacketCounts = {10, 400}
  MaxSubmits = 2
  MaxTime = 2
INVARIANTS CadenceKept
