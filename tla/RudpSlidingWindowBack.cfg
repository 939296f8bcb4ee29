SPECIFICATION WindowSpec
CONSTANTS
  kMaxSequenceNumber = 5
  maximum_window_size = 3
  default_window_size = 2
  Values = {blank, a, b}
  Blank = blank
INVARIANTS BackIsNewest
