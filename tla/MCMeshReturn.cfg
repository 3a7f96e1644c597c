SPECIFICATION Spec
CONSTANTS
  Nodes = {"n1", "n2"}
  Leaves = {"leaf"}
  Eps = {1}
  Owner <- MCOwner
  StartOrders <- MCStartOrders
  StartGap = 20
  MaxFlight = 1
  MaxChanges = 3
  MaxFaults = 0
  MaxEvents = 3
  MaxExpiries = 1
INVARIANT
  NothingBuried
CHECK_DEADLOCK FALSE
