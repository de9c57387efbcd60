SPECIFICATION Spec
CONSTANTS
  Machines <- SomeMachines
  MaxControllers = 2
  MaxFaults = 1
  MaxCalls = 2
  Counts = {4, 5}
  MaxOthers = 1
  PortCount = 3
INVARIANTS SetupExplained AttachedOnce
PROPERTIES PathKept OthersStayAttached
