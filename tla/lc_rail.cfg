SPECIFICATION FairSpec
CONSTANTS
  Duration <- LongSteps
  GateWaitRearm = 1
  MinGreen = 2
  ArrowTime = 2
  MaxPulses = 2
  MaxCloseAttempts = 3
  ForceGateFault = "no"
  Overrides = {"ALL_RED"}
  ModeSwitches = {}
  Keys = {"p", "t", "c", "g"}
  Periods = {"PEAK"}
INVARIANTS
  GateDownForTrain
  FaultStopsTrain
  ControllerNeverWaitsOnGate
  AwaitedReportComes
PROPERTIES
  ReopensOnlyWhenGateOpen
  ImplementsCrossing
  ProtectionEnds
  ApproachProtected
  PedestrianServed
  CommandsApplied
