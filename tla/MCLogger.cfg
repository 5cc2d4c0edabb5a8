SPECIFICATION FairSpec
CONSTANTS
  NMotors = 2
  Depth = 3
  ServiceDepth = 1
  Messages = {"a", "b"}
  MaxOps = 2
INVARIANTS StatusOfLatest OperationsAccounted
PROPERTIES LowBatteryReported HeartbeatsGoOn
CHECK_DEADLOCK FALSE
