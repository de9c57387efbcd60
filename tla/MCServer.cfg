SPECIFICATION ServerSpec
CONSTANTS
  Servers = {1, 2, 3}
  Counts = {1, 5}
  Connections = {1, 2}
  BusIDs = {1, 2}
  Limits <- ManyOfOne
INVARIANTS NoOrphan ReportedIsServed PortHandedOver CleanStart
PROPERTIES CancelledServersEnd ConnectionsEnd
