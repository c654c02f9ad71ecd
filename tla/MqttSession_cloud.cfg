SPECIFICATION Spec

CONSTANTS
  MaxRequests = 2
  MaxDrops = 3
  MaxAsks = 2

INVARIANTS
  TypeOK
  ReadyIsHeard

PROPERTIES
  CloudComesUp
  RequestIsAnswered

CHECK_DEADLOCK FALSE
