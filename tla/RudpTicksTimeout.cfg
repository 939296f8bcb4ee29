SPECIFICATION TicksSpec
CONSTANTS
  SendDelay = 3
  SendTimeout = 3
  ReceiveDelay = 1
  ReceiveTimeout = 2
  Late = 1
  Window = 2
  MaxWrite = 3
INVARIANTS TimeoutIsArmed
CHECK_DEADLOCK FALSE
