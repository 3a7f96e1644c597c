SPECIFICATION PipelineSpec
CONSTANTS
  Kinds <- MCKinds
  MaxMessages = 2
  QueueLimit = 2
  EncodeLimit = 1
  MaxEvents = 0
INVARIANT
  PayloadKept
CHECK_DEADLOCK FALSE
