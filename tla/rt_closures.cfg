SPECIFICATION Spec
CONSTANTS
  TIME_SCALE_FACTOR = 3
  GateLate = 100
INVARIANTS
  WaitCovers
  TrainMeetsLockedGate
  GateHeldUntilClear
  TrainGetsItsTime
