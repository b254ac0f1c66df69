SPECIFICATION FairSpec
CONSTANTS
  Cases <- MCCases
  Driven <- MCDriven
  Attributed <- TestAttributes
  Results = {"success", "failure"}
INVARIANTS
  RelayedAsSent
  SuccessIsWhole
  CompletesOnce
PROPERTY RunIsCompleted
