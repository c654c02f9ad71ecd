SPECIFICATION Spec

CONSTANTS
  Chunks = {"a"}
  MaxChunks = 1
  Default <- MCDefault
  Accepted <- MCBoth
  QueueLen = 1
  MaxRetry = 2
  MaxWrites = 3
  MaxLinks = 1
  MaxTrouble = 0
  Reports = {"RUNTIME_READY"}
  EarlyClient = FALSE

INVARIANTS
  DoneIsStored

CHECK_DEADLOCK FALSE
