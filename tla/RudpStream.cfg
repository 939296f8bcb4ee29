SPECIFICATION Spec
CONSTANTS
  kMaxSequenceNumber = 7
  maximum_window_size = 2
  default_window_size = 1
  InitialSequenceNumber = 6
  InitialAckSequenceNumber = 7
  MaxPackets = 4
  MaxAcks = 3
  MaxBuffer = 2
INVARIANTS InOrderDelivery FlushedIsKnown IInv
CHECK_DEADLOCK FALSE
PROPERTIES ImplementsStream
