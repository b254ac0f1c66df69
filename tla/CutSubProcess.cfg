SPECIFICATION FairSpec
CONSTANTS
  Processes = {process1, process2}
  NoProcess = NoProcess
  Results = {"success", "crash"}
  MaxResults = 1
  Chunk = 2
  MaxCalls = 4
INVARIANTS
  VerdictIsTheChilds
  ResultsAreForwarded
  ReapedIsRead
PROPERTIES
  GroupVerdictIsRight
  CallsReturn
