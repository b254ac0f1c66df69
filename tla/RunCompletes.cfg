SPECIFICATION FairSpec
CONSTANTS
  Suite <- MCIterator
  NData = 2
  Threaded = {}
  MaxThreads = 2
  GiveUps = {"failure", "omission"}
PROPERTY RunCompletes
