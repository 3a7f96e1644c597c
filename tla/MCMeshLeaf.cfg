SPECIFICATION FairSpec
CONSTANTS
  Nodes = {"n1", "n2"}
  Leaves = {"leaf"}
  Eps = {1}
  Owner <- MCOwner
  StartOrders <- MCStartOrders
  StartGap = 20
  MaxFlight = 1
  MaxChanges = 1
  MaxFaults = 1
  MaxExpiries = 1
  MaxEvents = 2
PROPERTY
  AuthoritativeLeaf
CHECK_DEADLOCK FALSE
