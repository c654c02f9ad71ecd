SPECIFICATION Spec

CONSTANTS
  Chunks = {"a"}
  MaxChunks = 1
  Default <- MCDefault
  Accepted <- MCBoth
  QueueLen = 1
  MaxRetry = 2
  MaxWrites = 1
  MaxLinks = 1
  MaxTrouble = 1
  Reports = {"RUNTIME_READY"}
  EarlyClient = TRUE

PROPERTIES
  BuffersTimeOut

CHECK_DEADLOCK FALSE
