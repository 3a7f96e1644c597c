SPECIFICATION EmulatorSpec
CONSTANTS
  Rates = {1, 2}
  Unit = 2
  Baseline <- Start
  Script <- Scenario
  Commands <- Console
  Dirs = {"fwd"}
  Clean = {}
  MaxDelay = 0
  MaxLag = 0
  QueueCap = 2
  MaxDrain = 2
PROPERTY
  OrderKept
