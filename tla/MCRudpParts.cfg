SPECIFICATION MCSpec
CONSTANTS
  DefaultWindow = 2
  MaximumWindow = 8
  DefaultData = 2
  MaxData = 9
  SlowSpeed = 20
  SpeedInterval = 10
  MaxArrivalTimes = 5
  MaxPacketPairIntervals = 2
  Enough = 2
  Second = 10
  Syn = 1
  Word = 4096
  Wide = 65536
  LocalType = 3
  Wireless = 1
  E1 = 2
  Gigabit = 3
  Types = {1, 2, 3}
  Rtts = {0, 60}
  Buffers = {0, 17, 80}
  Rates = {0}
  Lengths = {}
  Steps = {1}
  Backs = {}
  MaxPackets = 0
  MaxAcks = 2
  MaxReports = 4
  MaxReads = 0
  MaxSize = 2
  MaxSocketReads = 4
  MaxProgress = 1
INVARIANTS SizesInBounds MeasuredIsReal WireIsExact ConnectionIsWatched
PROPERTIES RttBetween Recovers WorkGoesOn ConnectionEnds
CHECK_DEADLOCK FALSE
