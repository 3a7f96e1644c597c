SPECIFICATION FrameworkSpec
CONSTANTS
  Periodic = {"sync", "hb"}
  High = {"hb"}
  Skippable = {}
  Cpu = {w1, w2}
  Io = {w3}
  MaxStarts = 2
  MaxMsgs = 1
  MaxQueue = 1
  Wrap = 8
  OwnChannel = FALSE
INVARIANT
  OneTick
CHECK_DEADLOCK FALSE
