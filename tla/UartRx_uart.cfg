SPECIFICATION Spec

CONSTANTS
  FrameSize <- MCFrameSize
  CacheSize = 7
  QueueSize = 2
  MaxFrames = 3
  MaxPauses = 1
  MaxOverflows = 1
  MaxStalls = 1
  MaxEvents = 2

INVARIANTS
  TypeOK
  CalmIsExact
  NoneTooMany

PROPERTIES
  FramesInOrder
  CalmIsTaken

CHECK_DEADLOCK FALSE
