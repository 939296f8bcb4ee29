SPECIFICATION MCSpec
CONSTANTS
  Conns = {c1, c2}
  MaxListens = 1
  MaxSize = 2
  MaxReads = 3
  Requests = {r1, r2}
  MaxId = 2
  MaxSockets = 2
  MaxDatagrams = 2
  c1 = c1
  c2 = c2
  r1 = r1
  r2 = r2
  Caller = caller
  Callee = callee
INVARIANTS TcpIsKept UdpIsKept
PROPERTIES ConnectionSettles RequestSettles ExchangeEnds
CHECK_DEADLOCK FALSE
