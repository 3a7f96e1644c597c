SPECIFICATION Spec
CONSTANTS
  Seed = 2
  MinBtl = 1
  Probes = {1}
  Tiers = {1, 2, 4}
  Bucket = 1
  LoanBeats = 1
  MaxQueue = 1
  Depth = 1
  MaxDebt = 3
  LiteModes = {FALSE}
INVARIANT PausedForDebt
CHECK_DEADLOCK FALSE
