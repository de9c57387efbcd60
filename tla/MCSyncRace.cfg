SPECIFICATION Spec
CONSTANTS
  Counts = {4, 5}
  Helpers = {1}
  JobIds = {1, 2, 3}
  Ports = {1, 2}
  MaxChanges = 2
  MaxRuns = 1
  DefaultCount = 4
  Faults = {}
INVARIANTS SyncedMeansCurrent
