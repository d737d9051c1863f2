SPECIFICATION FairSpec
CONSTANTS
  Id = {1, 2}
  LocalId = {1}
  CmdQueueLen = 2
  CmdMaxAttempts = 2
  MaxTrackedLc = 1
  MaxSeq = 3
  MaxStarts = 2
PROPERTIES
  ImplementsChannel
  EveryCommandSettled
