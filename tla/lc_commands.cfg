SPECIFICATION Spec
CONSTANTS
  Duration <- MCDuration
  GateWaitRearm = 1
  MinGreen = 2
  ArrowTime = 2
  MaxPulses = 1
  MaxCloseAttempts = 3
  ForceGateFault = "once"
  Overrides = {"ALL_RED", "EW_GREEN", "DIGNITARY_PATH"}
  ModeSwitches = {"FIXED_TIMING", "SENSOR_DRIVEN"}
  Keys = {"p", "n", "t", "c"}
  Periods = {"PEAK", "OFFPEAK"}
INVARIANTS
  IInv
  VehicleHeadsObeyTable
  NoCommandStranded
PROPERTIES
  ClosureInOrder
  MinGreenKept
  AllRedNotSkipped
