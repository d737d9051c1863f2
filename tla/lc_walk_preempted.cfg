SPECIFICATION Spec
CONSTANTS
  Duration <- MCDuration
  GateWaitRearm = 1
  MinGreen = 2
  ArrowTime = 2
  MaxPulses = 1
  MaxCloseAttempts = 3
  ForceGateFault = "no"
  Overrides = {}
  ModeSwitches = {}
  Keys = {"p", "t"}
  Periods = {"PEAK"}
INVARIANT NoTrafficWhileWalking
