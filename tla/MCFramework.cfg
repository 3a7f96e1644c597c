SPECIFICATION FrameworkSpec
CONSTANTS
  Periodic = {"sync", "hb"}
  High = {"hb"}
  Skippable = {}
  Cpu = {w1, w2}
  Io = {w3}
  MaxStarts = 1
  MaxMsgs = 1
  MaxQueue = 1
  Wrap = 8
  OwnChannel = FALSE
INVARIANTS
  OneTick
  PendingIsExact
PROPERTIES
  MessagesAreSeen
  PeriodicComesBack
CHECK_DEADLOCK FALSE
