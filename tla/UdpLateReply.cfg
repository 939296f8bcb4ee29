SPECIFICATION UdpSpec
CONSTANTS
  Requests = {r1, r2}
  MaxId = 2
  MaxSockets = 2
  MaxDatagrams = 2
INVARIANT LateReplyIsIgnored
