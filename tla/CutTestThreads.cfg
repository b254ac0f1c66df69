SPECIFICATION FairSpec
CONSTANTS
  Suite <- MCSuite
  NData = 1
  Threaded <- MCThreaded
  MaxThreads = 2
  GiveUps = {"omission", "failure"}
INVARIANTS
  NoWildJump
  CompleteIsLast
  FailedCaseIsReported
  ThreadFailureIsNotSuccess
PROPERTIES
  RunEnds
  PromiseSafety
