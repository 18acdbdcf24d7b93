SPECIFICATION Spec
CONSTANTS
  e1 = e1
  e2 = e2
  Events = {e1, e2}
  FlushAt = 2
  Chunk = 1
INVARIANTS HandledOnce
PROPERTIES OnDiskIsSafe MemoryLostOnlyAtExit FlushedWhileActive ShownOffline
