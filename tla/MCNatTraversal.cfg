SPECIFICATION MCSpec
CONSTANTS
  a = a
  b = b
  Originators = {a, b}
  Kinds = {"direct", "full_cone", "port_restricted", "symmetric"}
  Full = {a, b}
  Ports = {1, 2, 3, 4}
  Threads = 3
  MayFail = {}
  PmpPorts = {1, 2, 3}
  WildPorts = {1, 2}
  Tries = 3
  MaxResponses = 3
  Contacts = 4
  TypesTold = {"kFullCone", "kPortRestricted"}
  MaxRequests = 6
INVARIANTS AnswerMeetsItsRequest DetectedIsReal AskedInOrder
PROPERTIES PmpGoesOn Answered DetectReturns
CHECK_DEADLOCK FALSE
