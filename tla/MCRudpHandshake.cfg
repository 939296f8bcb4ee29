SPECIFICATION MCSpec
CONSTANTS
  Clients = {c1, c2}
  First = c1
  MaxServers = 3
  MaxPending = 1
  MaxLosses = 2
INVARIANTS EndsAgree ListenerConsistent
PROPERTIES ConnectedIsFinal EventuallyConnected
CHECK_DEADLOCK FALSE
