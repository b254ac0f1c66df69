SPECIFICATION FairSpec
CONSTANTS
  Streams = {"output", "error"}
  Capacity = 2
INVARIANTS
  OutputIsReceived
  NothingIsAttached
  AnswersAreRight
PROPERTY CallsReturn
CHECK_DEADLOCK FALSE
