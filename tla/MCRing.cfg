SPECIFICATION Spec
CONSTANTS
  Capacity = 3
  Threads = {t1, t2}
  NoThread = NoThread
  MaxRequest = 4
  MaxWritten = 6
  MaxUnderruns = 3
INVARIANTS KeepsNewest
PROPERTIES ImplementsStream
