SPECIFICATION FairSpec
CONSTANTS
  Nodes = {"n1", "n2"}
  Leaves = {"leaf"}
  Eps = {1}
  Owner <- MCOwner
  StartOrders <- MCStartOrders
  StartGap = 20
  MaxFlight = 1
  MaxChanges = 3
  MaxFaults = 1
  MaxExpiries = 2
  MaxEvents = 3
PROPERTIES
  KnownGrows
  TablesConverge
  TablesFollow
CHECK_DEADLOCK FALSE
