SPECIFICATION Spec
CONSTANTS
  Found = {"gateway", "spare", "printer"}
  Igd = {"gateway", "spare"}
  MaxList = 3
INVARIANTS ParsedAsExpected UrlsReach DiscoveredIsHeard ReplyIsWhole ConnectedFirst
PROPERTIES CallReturns
CHECK_DEADLOCK FALSE
