SPECIFICATION FairSpec
CONSTANTS
  Duration <- MCDuration
  GateWaitRearm = 1
  MinGreen = 2
  ArrowTime = 2
  MaxPulses = 1
  MaxCloseAttempts = 3
  ForceGateFault = "no"
  Overrides = {}
  ModeSwitches = {}
  Keys = {"t"}
  Periods = {"PEAK"}
PROPERTY EveryTrainProtected
