SPECIFICATION Spec
CONSTANTS
  gate = gate
  Fault = {gate}
  Handlers <- MCChanges
  Worker = {w1, w2}
  FaultQueueLen = 1
  StatusMaxRetry = 2
  MaxVersion = 3
  MaxRuns = 1
INVARIANT RecordIsLastReport
CHECK_DEADLOCK FALSE
