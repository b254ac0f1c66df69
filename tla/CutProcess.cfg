SPECIFICATION FairSpec
CONSTANTS
  Outputs = {"stdout"}
  Pids = {1, 2}
  MaxForks = 2
  MaxWrites = 2
  MaxCalls = 2
  MaxFailures = 1
  MaxDeaths = 1
  Capacity = 2
INVARIANTS WaitsForward NoChildIsLeft
PROPERTY CallsReturn
CHECK_DEADLOCK FALSE
