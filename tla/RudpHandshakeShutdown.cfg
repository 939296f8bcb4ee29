SPECIFICATION Spec
CONSTANTS
  Clients = {c1}
  MaxServers = 2
  MaxPending = 1
  MaxLosses = 0
PROPERTIES ClosedByItsEnds
CHECK_DEADLOCK FALSE
