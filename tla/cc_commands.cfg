SPECIFICATION Spec
CONSTANTS
  Id = {1, 2}
  LocalId = {1}
  CmdQueueLen = 2
  CmdMaxAttempts = 2
  MaxTrackedLc = 2
  MaxSeq = 3
  MaxStarts = 2
INVARIANTS
  PathInv
  OutcomesAreTrue
PROPERTIES
  NewestWins
