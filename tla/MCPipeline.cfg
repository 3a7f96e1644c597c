SPECIFICATION FairSpec
CONSTANTS
  Kinds <- MCKinds
  MaxMessages = 3
  QueueLimit = 2
  EncodeLimit = 1
  MaxEvents = 1
INVARIANT
  KeptInOrder
PROPERTIES
  QueuesEmpty
  StopEnds
CHECK_DEADLOCK FALSE
