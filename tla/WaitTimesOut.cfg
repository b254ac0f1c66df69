SPECIFICATION FairSpec
CONSTANTS
  Streams = {"output"}
  Capacity = 1
PROPERTY WaitTimesOut
CHECK_DEADLOCK FALSE
