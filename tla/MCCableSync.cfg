SPECIFICATION FairSpec
CONSTANTS
  Counts = {4, 5}
  Helpers = {1, 2}
  JobIds = {1, 2, 3}
  Ports = {1, 2, 3}
  MaxChanges = 1
  MaxRuns = 2
  DefaultCount = 4
  Faults = {"refuse", "restart", "greeting", "crash", "deadline", "usbip", "close", "die", "save"}
INVARIANTS StartingIsOwned OneLinkedHelper RepliesPaired ChangeNotLost SyncedMeansAttached NextRunAgrees
PROPERTIES JobsEnd HelpersLeave
