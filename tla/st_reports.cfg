SPECIFICATION FairSpec
CONSTANTS
  gate = gate
  Fault = {gate}
  Handlers <- MCChanges
  Worker = {w1, w2}
  FaultQueueLen = 1
  StatusMaxRetry = 2
  MaxVersion = 3
  MaxRuns = 2
INVARIANTS
  TypeOK
  ChangesStayPending
  AlarmsStayQueued
  RecordLastOrOvertaken
PROPERTIES
  KeepsPromise
  EveryChangeHeard
  EveryAlarmHeard
CHECK_DEADLOCK FALSE
