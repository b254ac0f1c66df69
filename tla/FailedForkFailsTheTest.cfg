SPECIFICATION Spec
CONSTANTS
  Outputs = {"stdout"}
  Pids = {1, 2}
  MaxForks = 1
  MaxWrites = 1
  MaxCalls = 1
  MaxFailures = 1
  MaxDeaths = 0
  Capacity = 2
INVARIANT FailedForkFailsTheTest
CHECK_DEADLOCK FALSE
