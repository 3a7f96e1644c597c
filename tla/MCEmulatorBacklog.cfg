SPECIFICATION EmulatorSpec
CONSTANTS
  Rates = {1, 2}
  Unit = 2
  Baseline <- Start
  Script <- Scenario
  Commands <- Console
  Dirs = {"fwd"}
  Clean = {}
  MaxDelay = 1
  MaxLag = 1
  QueueCap = 1
  MaxDrain = 2
INVARIANT
  BacklogIsBandwidth
