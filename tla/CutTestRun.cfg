SPECIFICATION FairSpec
CONSTANTS
  Suite <- MCSuite
  GiveUps = {"omission", "failure"}
  MaxData = 2
  MaxNotifications = 1
  HandleSignals = TRUE
INVARIANTS
  CrashFramesAreLive
  ContextsAreLive
  DeadJumpsOnlyInShutdown
  StartsAreCompleted
  VerdictIsRight
  FirstSignalIsCaught
  CaseStatusIsWorst
PROPERTIES
  BodiesYieldResults
  CanceledRunUnwinds
  CasesAreShutDown
  PromiseSpec
