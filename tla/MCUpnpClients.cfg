SPECIFICATION MCSpec
CONSTANTS
  Devices = {"d1", "d2"}
  Services = {"s1", "s2"}
  Owner <- OwnerOf
  Plain = {"d1"}
  Ports = {"p"}
  Lease = 3
  Threshold = 1
  MaxEvents = 4
  Mappings = {"tcp", "udp"}
  Faults = {"request", "reply", "501", "reboot"}
  MaxCalls = 5
INVARIANTS RefreshIsScheduled SuccessIsAnswer
PROPERTIES ListsAgree NothingLeftBehind
CHECK_DEADLOCK FALSE
