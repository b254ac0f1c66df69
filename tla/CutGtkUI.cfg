SPECIFICATION Spec
CONSTANTS
  MaxTests = 2
  MaxData = 1
  MaxResults = 2
  Reported <- MCReported
  PipeCapacity = 1
  MaxRuns = 2
INVARIANTS
  RowsAreLive
  ProgressIsWhole
  StatusIsWorst
PROPERTIES
  ComesToRest
CHECK_DEADLOCK FALSE
