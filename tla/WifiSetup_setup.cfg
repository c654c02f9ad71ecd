SPECIFICATION Spec

CONSTANTS
  Chunks = {"a"}
  MaxChunks = 1
  Default <- MCDefault
  Accepted <- MCBoth
  QueueLen = 1
  MaxRetry = 2
  MaxWrites = 3
  MaxLinks = 1
  MaxTrouble = 1
  Reports = {"RUNTIME_READY"}
  EarlyClient = TRUE

INVARIANTS
  TypeOK
  FlagTruth
  ConnectFindsNoGroup
  LastRequestTaken
  CalmIsStored
  WaitIsTimed

PROPERTIES
  StaysOnline
  SessionEnds
  StoredWhenCalm

CHECK_DEADLOCK FALSE
