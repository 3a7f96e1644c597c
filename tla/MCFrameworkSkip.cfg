SPECIFICATION FrameworkSpec
CONSTANTS
  Periodic = {"sync", "hb"}
  High = {"hb"}
  Skippable = {"sync"}
  Cpu = {w1, w2}
  Io = {w3}
  MaxStarts = 1
  MaxMsgs = 1
  MaxQueue = 1
  Wrap = 8
  OwnChannel = FALSE
PROPERTY
  PeriodicComesBack
CHECK_DEADLOCK FALSE
