-------------------------- MODULE LocalController_proofs ------------------------
(***************************************************************************)
(* Proofs about LocalControllerProps, for every duration, minimum green,   *)
(* arrow time, queue bound and number of attempts.                         *)
(***************************************************************************)
EXTENDS LocalControllerProps, TLAPS

------------------------------------------------------------------------------
(* The phase table *)

(* phase_table_validate() accepts the table as it is built in. *)
THEOREM PhaseTableSafe == TableSafe
  BY DEF TableSafe, RowConflict, Allows, Step, VehicleStep, PedStep, RailStep,
         Approach, Movement, Through, Right, Green, Yellow

(* An arrow may run in either green and in no other step. *)
LEMMA ArrowRow ==
  ASSUME NEW s \in Step, NEW a \in Approach
  PROVE  Allows(s, Right(a)) <=> s \in {"NS_GREEN", "EW_GREEN"}
  BY DEF Allows, Step, VehicleStep, PedStep, RailStep, Approach, Through, Right,
         Green, Yellow

(* A through movement has its own green and yellow, and the railway's. *)
LEMMA ThroughRow ==
  ASSUME NEW s \in Step, NEW a \in Approach
  PROVE  Allows(s, Through(a)) <=> s \in {Green(a), Yellow(a), "RAIL_YELLOW"}
  BY DEF Allows, Step, VehicleStep, PedStep, RailStep, Approach, Through, Right,
         Green, Yellow

------------------------------------------------------------------------------
(* The pulse queue *)

(* Sending puts one pulse behind the others. *)
LEMMA Sent ==
  ASSUME NEW q \in Seq(Pulse), NEW p \in Pulse
  PROVE  /\ Append(q, p) \in Seq(Pulse)
         /\ DOMAIN Append(q, p) = 1..(Len(q) + 1)
         /\ \A i \in DOMAIN q : Append(q, p)[i] = q[i] /\ q[i] \in Pulse
         /\ Append(q, p)[Len(q) + 1] = p
  OBVIOUS

(* Receiving takes the head and moves the others up. *)
LEMMA Received ==
  ASSUME NEW q \in Seq(Pulse), q # <<>>
  PROVE  /\ Head(q) \in Pulse /\ Head(q) = q[1]
         /\ Tail(q) \in Seq(Pulse)
         /\ 1 \in DOMAIN q
         /\ \A i \in DOMAIN Tail(q) : i + 1 \in DOMAIN q /\ Tail(q)[i] = q[i + 1]
  OBVIOUS

------------------------------------------------------------------------------
(* Entering a step *)

(* What lc_enter_step() leaves behind. *)
LEMMA Entered ==
  ASSUME NEW s \in Step, NEW ticks \in Nat \ {0}, NEW arr \in [Approach -> Nat],
         EnterStepFor(s, ticks, arr)
  PROVE  /\ step' = s /\ countdown' = ticks /\ safety' = ViewOf(s)
         /\ ViewOf(s) \in [rail_active : BOOLEAN, ped_crossing : BOOLEAN]
         /\ arrow' \in [Approach -> Nat]
         /\ \A a \in Approach : arrow'[a] > 0 => s \in {"NS_GREEN", "EW_GREEN"}
<1>1. \A a \in Approach : Allows(s, Right(a)) <=> s \in {"NS_GREEN", "EW_GREEN"}
  BY ArrowRow
<1>2. arrow' = ArrowsOn(s, arr) /\ step' = s /\ countdown' = ticks /\ safety' = ViewOf(s)
  BY DEF EnterStepFor
<1>3. ArrowTime \in Nat
  BY DurationAssumption
<1> QED BY <1>1, <1>2, <1>3 DEF ArrowsOn, ViewOf

(* Every step has a positive duration. *)
LEMMA Lasts ==
  ASSUME NEW s \in Step PROVE Duration[s] \in Nat \ {0}
  BY DurationAssumption

------------------------------------------------------------------------------
(* Gate reports in the queue, as pulses come and go *)

LEMMA SentPlain ==
  ASSUME pulses \in Seq(Pulse), NEW c \in PulseCode, c # "GATE_STATUS",
         pulses' = Append(pulses, Plain(c))
  PROVE  /\ pulses' \in Seq(Pulse)
         /\ Queued("GATE_STATUS")' = Queued("GATE_STATUS")
         /\ \A i \in Queued("GATE_STATUS") : pulses'[i] = pulses[i]
<1>1. Plain(c) \in Pulse /\ Plain(c).code # "GATE_STATUS"
  BY DEF Plain, Pulse
<1> QED BY <1>1, Sent DEF Queued

LEMMA ReceivedPlain ==
  ASSUME pulses \in Seq(Pulse), NEW c, c # "GATE_STATUS", Receive(c)
  PROVE  /\ pulses' \in Seq(Pulse)
         /\ \A i \in Queued("GATE_STATUS")' :
              i + 1 \in Queued("GATE_STATUS") /\ pulses'[i] = pulses[i + 1]
         /\ \A i \in Queued("GATE_STATUS") : i - 1 \in Queued("GATE_STATUS")'
         /\ Queued("GATE_STATUS")' \subseteq Int /\ Queued("GATE_STATUS") \subseteq Int
<1>1. pulses # <<>> /\ pulses[1].code # "GATE_STATUS" /\ pulses' = Tail(pulses)
  BY Received DEF Receive
<1>2. /\ Tail(pulses) \in Seq(Pulse)
      /\ \A i \in DOMAIN Tail(pulses) :
           i + 1 \in DOMAIN pulses /\ Tail(pulses)[i] = pulses[i + 1]
  BY <1>1, Received
<1>3. DOMAIN pulses = 1..Len(pulses) /\ DOMAIN Tail(pulses) = 1..(Len(pulses) - 1)
      /\ Len(pulses) \in Nat
  BY <1>1
<1>4. \A i \in DOMAIN pulses : i # 1 => i - 1 \in DOMAIN Tail(pulses)
  BY <1>3
<1> QED BY <1>1, <1>2, <1>3, <1>4 DEF Queued

(* The only report there is has been received. *)
LEMMA ReceivedStatus ==
  ASSUME pulses \in Seq(Pulse), Receive("GATE_STATUS"),
         \A i, j \in Queued("GATE_STATUS") : i = j
  PROVE  /\ pulses' \in Seq(Pulse)
         /\ Head(pulses) \in Pulse
         /\ 1 \in Queued("GATE_STATUS") /\ Head(pulses) = pulses[1]
         /\ Queued("GATE_STATUS")' = {}
<1>1. pulses # <<>> /\ Head(pulses).code = "GATE_STATUS" /\ pulses' = Tail(pulses)
  BY DEF Receive
<1>2. /\ Head(pulses) \in Pulse /\ Head(pulses) = pulses[1]
      /\ Tail(pulses) \in Seq(Pulse)
      /\ 1 \in DOMAIN pulses
      /\ \A i \in DOMAIN Tail(pulses) :
           i + 1 \in DOMAIN pulses /\ Tail(pulses)[i] = pulses[i + 1]
  BY <1>1, Received
<1>3. 1 \in Queued("GATE_STATUS")
  BY <1>1, <1>2 DEF Queued
<1>4. \A i \in DOMAIN Tail(pulses) : i \in Nat \ {0}
  BY <1>1
<1> QED BY <1>1, <1>2, <1>3, <1>4 DEF Queued

------------------------------------------------------------------------------
(* The initial state *)

LEMMA InitIInv == Init => IInv
<1> SUFFICES ASSUME Init PROVE IInv
  OBVIOUS
<1>1. Duration["NS_GREEN"] \in Nat \ {0}
  BY Lasts DEF Step, VehicleStep
<1>2. ArrowTime \in Nat
  BY DurationAssumption
<1>3. sim_period \in Period
  BY InputAssumption DEF Init
<1>a. step \in Step /\ countdown \in Nat
  BY <1>1 DEF Init, Step, VehicleStep
<1>b. arrow \in [Approach -> Nat]
  BY <1>2 DEF Init, ArrowsOn, ArrowsOff
<1>c. safety \in [rail_active : BOOLEAN, ped_crossing : BOOLEAN]
  BY DEF Init, ViewOf
<1>d. vehicle \in [Approach -> VehicleState] /\ demand \in [Approach -> BOOLEAN]
  BY DEF Init, OnlyGreen, VehicleState
<1>e. mode \in Mode
  BY DEF Init, ModeFor, Mode
<1>f. /\ gate_task \in [at : {"idle", "commanded", "moving"}, closing : BOOLEAN, ok : BOOLEAN]
      /\ server \in [at : {"idle", "accepted", "latched"},
                     override : Override \cup {None}, mode : Mode \cup {None}]
  BY DEF Init, IdleGate, IdleServer
<1>g. pulses \in Seq(Pulse) /\ reports \subseteq {"STATUS_EVENT", "FAULT_ALARM"}
  BY DEF Init
<1>h. /\ ped_state \in PedState /\ phase \in Phase /\ min_green_elapsed \in BOOLEAN
      /\ gate_state \in GateState /\ rail_signal \in RailSignal /\ train_signal \in RailSignal
      /\ g_period \in Period
  BY <1>3 DEF Init, PedState, Phase, GateState, RailSignal
<1>4. TypeOK
  BY <1>a, <1>b, <1>c, <1>d, <1>e, <1>f, <1>g, <1>h, <1>3 DEF Init, TypeOK
<1>5. HeadsOfStep
  BY DEF Init, HeadsOfStep, OnlyGreen, Green, Yellow, Approach, AllRedSteps, PedStep, RailStep,
         ArrowsOff
<1>6. Queued("GATE_STATUS") = {}
  BY DEF Init, Queued
<1>7. GateOfStep
  BY <1>6 DEF Init, GateOfStep, GateSteps, IdleGate
<1>8. SignalsOfStep
  BY <1>1 DEF Init, SignalsOfStep, GateSteps, RailStep, PedStep, RailActive
<1>9. AwaitedReportComes /\ FaultStopsTrain /\ CloseAttemptsBounded
  BY AttemptsAssumption DEF Init, AwaitedReportComes, FaultStopsTrain, CloseAttemptsBounded
<1> QED BY <1>4, <1>5, <1>7, <1>8, <1>9 DEF IInv

------------------------------------------------------------------------------
(* Steps that neither send nor take a gate report *)

Reports == Queued("GATE_STATUS")

SameReports ==
  /\ pulses' \in Seq(Pulse)
  /\ Reports' = {} <=> Reports = {}
  /\ (\A i, j \in Reports : i = j) => (\A i, j \in Reports' : i = j)
  /\ \A i \in Reports' : \E j \in Reports : pulses'[i] = pulses[j]

LEMMA SameWhenSent ==
  ASSUME pulses \in Seq(Pulse), NEW c \in PulseCode, c # "GATE_STATUS",
         SendPulse(Plain(c))
  PROVE  SameReports
  BY SentPlain DEF SameReports, Reports, SendPulse

LEMMA SameWhenReceived ==
  ASSUME pulses \in Seq(Pulse), NEW c, c # "GATE_STATUS", Receive(c)
  PROVE  SameReports
<1>1. /\ pulses' \in Seq(Pulse)
      /\ \A i \in Reports' : i + 1 \in Reports /\ pulses'[i] = pulses[i + 1]
      /\ \A i \in Reports : i - 1 \in Reports'
      /\ Reports' \subseteq Int
  BY ReceivedPlain DEF Reports
<1>2. Reports' = {} <=> Reports = {}
  BY <1>1
<1>3. ASSUME \A i, j \in Reports : i = j, NEW k \in Reports', NEW l \in Reports'
      PROVE  k = l
  <2>1. k \in Int /\ l \in Int /\ k + 1 = l + 1
    BY <1>1, <1>3
  <2> QED BY <2>1
<1> QED BY <1>1, <1>2, <1>3 DEF SameReports

LEMMA SameWhenUnchanged ==
  ASSUME pulses \in Seq(Pulse), UNCHANGED pulses
  PROVE  SameReports
  BY DEF SameReports, Reports, Queued

(* The gate's part of the invariant only looks at the step, the gate and   *)
(* its reports.                                                            *)
LEMMA GateKept ==
  ASSUME GateOfStep, AwaitedReportComes, SameReports,
         UNCHANGED <<step, gate_state, gate_task>>
  PROVE  GateOfStep' /\ AwaitedReportComes'
<1>1. GateOfStep'
  BY DEF GateOfStep, SameReports, Reports, GateSteps
<1>2. AwaitedReportComes'
  BY DEF AwaitedReportComes, SameReports, Reports
<1> QED BY <1>1, <1>2

------------------------------------------------------------------------------
(* The tasks and inputs that change neither the step nor the signals *)

LEMMA FrameKept ==
  ASSUME IInv, TypeOK', SameReports,
         UNCHANGED <<step, countdown, arrow, safety, heads, crossing, gate_task>>
  PROVE  IInv'
<1>1. GateOfStep' /\ AwaitedReportComes'
  BY GateKept DEF IInv, crossing
<1>2. HeadsOfStep'
  BY DEF IInv, HeadsOfStep, heads
<1>3. SignalsOfStep'
  BY DEF IInv, SignalsOfStep, heads, crossing, RailActive
<1>4. FaultStopsTrain' /\ CloseAttemptsBounded'
  BY DEF IInv, FaultStopsTrain, CloseAttemptsBounded, crossing
<1> QED BY <1>1, <1>2, <1>3, <1>4 DEF IInv

LEMMA TimerKeeps == IInv /\ TimerFires => IInv'
<1> SUFFICES ASSUME IInv, TimerFires PROVE IInv'
  OBVIOUS
<1>1. SameReports
  BY SameWhenSent DEF TimerFires, IInv, TypeOK, PulseCode
<1>2. TypeOK'
  BY <1>1 DEF TimerFires, inputFrame, heads, schedule, crossing, commands, IInv, TypeOK,
              SameReports
<1> QED BY <1>1, <1>2, FrameKept DEF TimerFires, inputFrame

LEMMA InputsKeep == IInv /\ Inputs => IInv'
<1> SUFFICES ASSUME IInv, Inputs PROVE IInv'
  OBVIOUS
<1>1. SameReports
  <2>1. CASE TrainApproaches
    BY <2>1, SameWhenSent DEF TrainApproaches, IInv, TypeOK, PulseCode
  <2>2. CASE TrainClears
    BY <2>2, SameWhenSent DEF TrainClears, IInv, TypeOK, PulseCode
  <2>3. CASE UNCHANGED pulses
    BY <2>3, SameWhenUnchanged DEF IInv, TypeOK
  <2> QED BY <2>1, <2>2, <2>3
          DEF Inputs, PressPedestrian, ArmGateFault, DetectVehicle, ClockReaches
<1>2. UNCHANGED inputFrame
  BY DEF Inputs, PressPedestrian, TrainApproaches, TrainClears, ArmGateFault, DetectVehicle,
         ClockReaches
<1>3. /\ rail_alert' \in BOOLEAN /\ gate_fault_armed' \in BOOLEAN
      /\ ped_request_pending' \in BOOLEAN /\ demand' \in [Approach -> BOOLEAN]
      /\ sim_period' \in Period /\ UNCHANGED reports
  BY InputAssumption
  DEF Inputs, PressPedestrian, TrainApproaches, TrainClears, ArmGateFault, DetectVehicle,
      ClockReaches, IInv, TypeOK
<1>4. TypeOK'
  BY <1>1, <1>2, <1>3
  DEF inputFrame, heads, schedule, crossing, commands, IInv, TypeOK, SameReports
<1> QED BY <1>1, <1>2, <1>4, FrameKept DEF inputFrame

LEMMA DrainKeeps == IInv /\ DrainReports => IInv'
<1> SUFFICES ASSUME IInv, DrainReports PROVE IInv'
  OBVIOUS
<1>1. SameReports
  BY SameWhenUnchanged DEF DrainReports, IInv, TypeOK
<1>2. TypeOK'
  BY <1>1 DEF DrainReports, inputFrame, heads, schedule, crossing, commands, IInv, TypeOK
<1> QED BY <1>1, <1>2, FrameKept DEF DrainReports, inputFrame

LEMMA ServerKeeps == IInv /\ Server => IInv'
<1> SUFFICES ASSUME IInv, Server PROVE IInv'
  OBVIOUS
<1>1. SameReports
  <2>1. CASE ServerWakesController
    BY <2>1, SameWhenSent DEF ServerWakesController, IInv, TypeOK, PulseCode
  <2>2. CASE UNCHANGED pulses
    BY <2>2, SameWhenUnchanged DEF IInv, TypeOK
  <2> QED BY <2>1, <2>2
          DEF Server, ServerAcceptsOverride, ServerAcceptsModeSwitch, ServerLatches
<1>2. UNCHANGED serverFrame
  BY DEF Server, ServerAcceptsOverride, ServerAcceptsModeSwitch, ServerLatches,
         ServerWakesController
<1>3. /\ override' \in Override \cup {None} /\ mode_switch' \in Mode \cup {None}
      /\ server' \in [at : {"idle", "accepted", "latched"},
                      override : Override \cup {None}, mode : Mode \cup {None}]
  BY CommandAssumption
  DEF Server, ServerAcceptsOverride, ServerAcceptsModeSwitch, ServerLatches,
      ServerWakesController, IdleServer, commands, IInv, TypeOK
<1>4. TypeOK'
  BY <1>1, <1>2, <1>3
  DEF serverFrame, heads, schedule, crossing, gate, IInv, TypeOK, SameReports
<1> QED BY <1>1, <1>2, <1>4, FrameKept DEF serverFrame, gate

LEMMA GateTaskKeeps == IInv /\ GateTask => IInv'
<1> SUFFICES ASSUME IInv, GateTask PROVE IInv'
  OBVIOUS
<1>1. /\ gate_task.at # "idle" /\ Reports = {} /\ step \in {"RAIL_GATE_LOWER", "RAIL_GATE_RAISE"}
      /\ pulses \in Seq(Pulse)
      /\ gate_task \in [at : {"idle", "commanded", "moving"}, closing : BOOLEAN, ok : BOOLEAN]
      /\ gate_task.closing = (step = "RAIL_GATE_LOWER") /\ (gate_task.closing \/ gate_task.ok)
  BY DEF GateTask, GateStartsMoving, GateReports, IInv, TypeOK, GateOfStep,
         AwaitedReportComes, Reports
<1>2. UNCHANGED <<step, countdown, arrow, safety, heads, crossing>>
  BY DEF GateTask, GateStartsMoving, GateReports
<1>3. HeadsOfStep' /\ SignalsOfStep' /\ FaultStopsTrain' /\ CloseAttemptsBounded'
  BY <1>2 DEF IInv, HeadsOfStep, SignalsOfStep, FaultStopsTrain, CloseAttemptsBounded,
              heads, crossing, RailActive
<1>4. CASE GateStartsMoving
  <2>1. /\ Reports' = {} /\ UNCHANGED pulses
        /\ gate_task' \in [at : {"idle", "commanded", "moving"}, closing : BOOLEAN, ok : BOOLEAN]
        /\ gate_task'.at = "moving"
        /\ gate_task'.closing = gate_task.closing /\ (gate_task'.closing \/ gate_task'.ok)
        /\ gate_fault_armed' \in BOOLEAN
    BY <1>1, <1>4 DEF GateStartsMoving, Reports, Queued, IInv, TypeOK
  <2>2. UNCHANGED <<step, countdown, arrow, safety, heads, min_green_elapsed, schedule,
                    crossing, rail_alert, ped_request_pending, demand,
                    commands, server, pulses, reports, sim_period>>
    BY <1>4 DEF GateStartsMoving
  <2>3. TypeOK'
    BY <2>1, <2>2 DEF heads, schedule, crossing, commands, IInv, TypeOK
  <2>4. GateOfStep' /\ AwaitedReportComes'
    BY <1>1, <1>2, <2>1
    DEF IInv, GateOfStep, AwaitedReportComes, Reports, crossing, GateSteps
  <2> QED BY <1>3, <2>3, <2>4 DEF IInv
<1>5. CASE GateReports
  <2> DEFINE p == [code |-> "GATE_STATUS", closing |-> gate_task.closing, ok |-> gate_task.ok]
  <2>1. p \in Pulse
    BY <1>1 DEF Pulse, PulseCode
  <2>2. pulses' \in Seq(Pulse) /\ Reports' = {Len(pulses) + 1} /\ pulses'[Len(pulses) + 1] = p
    <3>1. pulses' = Append(pulses, p)
      BY <1>5 DEF GateReports, SendPulse
    <3> HIDE DEF p
    <3>2. /\ pulses' \in Seq(Pulse)
          /\ DOMAIN pulses' = 1..(Len(pulses) + 1)
          /\ \A i \in DOMAIN pulses : pulses'[i] = pulses[i]
          /\ pulses'[Len(pulses) + 1] = p
      BY <1>1, <2>1, <3>1, Sent
    <3>3. DOMAIN pulses = 1..Len(pulses) /\ Len(pulses) \in Nat
      BY <1>1
    <3>4. p.code = "GATE_STATUS"
      BY DEF p
    <3> QED BY <1>1, <3>2, <3>3, <3>4 DEF Reports, Queued
  <2>3. TypeOK'
    BY <1>5, <2>2
    DEF GateReports, IdleGate, heads, schedule, crossing, commands, IInv, TypeOK
  <2>4. GateOfStep' /\ AwaitedReportComes'
    BY <1>1, <1>2, <1>5, <2>2
    DEF IInv, GateOfStep, AwaitedReportComes, Reports, crossing, GateReports, IdleGate,
        GateSteps
  <2> QED BY <1>3, <2>3, <2>4 DEF IInv
<1> QED BY <1>4, <1>5 DEF GateTask

------------------------------------------------------------------------------
(* What a timer tick does before it looks at the countdown *)

LEMMA Prelude ==
  ASSUME IInv
  PROVE  /\ TickedArrow \in [Approach -> Nat]
         /\ \A a \in Approach : TickedArrow[a] > 0 => step \in {"NS_GREEN", "EW_GREEN"}
         /\ ScheduledMode \in Mode
         /\ TickReports \subseteq {"STATUS_EVENT", "FAULT_ALARM"}
         /\ MinGreenNow \in BOOLEAN
         /\ TickedDemand \in [Approach -> BOOLEAN]
         /\ Remaining \in Int
<1>1. /\ TickedArrow \in [Approach -> Nat]
      /\ \A a \in Approach : TickedArrow[a] > 0 => step \in {"NS_GREEN", "EW_GREEN"}
  BY ArrowRow DEF IInv, TypeOK, TickedArrow
<1>2. ScheduledMode \in Mode
  BY DEF IInv, TypeOK, ScheduledMode, ModeFor, Mode
<1>3. TickReports \subseteq {"STATUS_EVENT", "FAULT_ALARM"}
  BY DEF IInv, TypeOK, TickReports, Notify
<1>4. TickedDemand \in [Approach -> BOOLEAN]
  BY DEF IInv, TypeOK, TickedDemand
<1>5. Remaining \in Int
  BY DEF IInv, TypeOK, Remaining
<1>6. MinGreenNow \in BOOLEAN
  BY Zenon DEF MinGreenNow
<1> QED BY <1>1, <1>2, <1>3, <1>4, <1>5, <1>6

(* What is left to check of a tick, once its types are known. *)
StepInv == /\ HeadsOfStep /\ GateOfStep /\ SignalsOfStep
           /\ AwaitedReportComes /\ FaultStopsTrain /\ CloseAttemptsBounded

(* A vehicle or pedestrian step, and the gate stays as it was: open and at *)
(* rest.                                                                   *)
LEMMA TrafficKeeps ==
  ASSUME IInv, SameReports, AdvanceTraffic, UNCHANGED rail_alert
  PROVE  StepInv'
<1>1. step \in Step \ RailStep /\ step' \in Step \ RailStep /\ step' # "FAILSAFE"
  BY DEF AdvanceTraffic, AdvanceGreen, AdvanceYellow, BeginWalk, AdvanceAllRed,
         AdvanceOverrideHold, AdvanceWalk, AdvanceClearance, BeginGreen, EnterStep,
         EnterStepFor, Green, Yellow, AllRed, Other, Approach, Step, VehicleStep, PedStep,
         RailStep
<1>2. GateOfStep' /\ AwaitedReportComes'
  BY <1>1 DEF IInv, GateOfStep, AwaitedReportComes, SameReports, Reports, GateSteps, RailStep,
              AdvanceTraffic, crossing
<1>3. FaultStopsTrain' /\ CloseAttemptsBounded'
  BY <1>1 DEF IInv, FaultStopsTrain, CloseAttemptsBounded, AdvanceTraffic, crossing, RailStep
<1>4. /\ countdown' \in Nat \ {0} /\ safety' = ViewOf(step')
      /\ \A a \in Approach : arrow'[a] > 0 => step' \in {"NS_GREEN", "EW_GREEN"}
  <2>1. EnterStep(step', TickedArrow)
    BY DEF AdvanceTraffic, AdvanceGreen, AdvanceYellow, BeginWalk, AdvanceAllRed,
           AdvanceOverrideHold, AdvanceWalk, AdvanceClearance, BeginGreen, EnterStep,
           EnterStepFor
  <2> QED BY <1>1, <2>1, Lasts, Prelude, Entered DEF EnterStep
<1>5. SignalsOfStep'
  BY <1>1, <1>4
  DEF IInv, SignalsOfStep, AdvanceTraffic, AdvanceGreen, AdvanceYellow, BeginWalk,
      AdvanceAllRed, AdvanceOverrideHold, AdvanceWalk, AdvanceClearance, BeginGreen,
      EnterStep, EnterStepFor, crossing, RailActive, Green, Yellow, AllRed, Other,
      Approach, RailStep, PedStep, GateSteps
<1>6. HeadsOfStep'
  <2> USE <1>1, <1>4 DEF IInv, TypeOK, HeadsOfStep, BeginGreen, EnterStep, EnterStepFor, Green,
          Yellow, AllRed, Other, OnlyGreen, AllAre, Approach, RailStep, PedStep, AllRedSteps
  <2>1. ASSUME NEW a \in Approach, AdvanceGreen(a) PROVE HeadsOfStep'
    BY <2>1 DEF AdvanceGreen
  <2>2. ASSUME NEW a \in Approach, AdvanceYellow(a) PROVE HeadsOfStep'
    <3>1. step = Yellow(a) /\ step' = AllRed(a)
      BY <2>2 DEF AdvanceYellow
    <3>2. vehicle' = AllAre("RED")
      BY <2>2, <3>1 DEF AdvanceYellow
    <3> QED BY <3>1, <3>2
  <2>3. ASSUME NEW a \in Approach, BeginWalk(a) PROVE HeadsOfStep'
    BY <2>3 DEF BeginWalk
  <2>4. ASSUME NEW a \in Approach, AdvanceAllRed(a) PROVE HeadsOfStep'
    BY <2>4 DEF AdvanceAllRed
  <2>5. CASE AdvanceOverrideHold
    BY <2>5 DEF AdvanceOverrideHold
  <2>6. CASE AdvanceWalk
    BY <2>6 DEF AdvanceWalk
  <2>7. CASE AdvanceClearance
    BY <2>7 DEF AdvanceClearance
  <2> QED BY <2>1, <2>2, <2>3, <2>4, <2>5, <2>6, <2>7 DEF AdvanceTraffic
<1> QED BY <1>2, <1>3, <1>5, <1>6 DEF StepInv

(* A railway step.  A step that commands the gate finds it at rest. *)
LEMMA RailwayKeeps ==
  ASSUME IInv, SameReports, AdvanceRailway
  PROVE  StepInv'
<1>1. step \in RailStep /\ step' \in RailStep /\ phase' = "RAIL_PROTECT"
  BY DEF AdvanceRailway, AdvanceRailYellow, AdvanceRailAllRed, AdvancePrearrival, AdvanceWarn,
         Rearm, AdvanceGateFault, AdvanceOccupied, AdvancePostHold, EnterStep, EnterStepFor,
         RailStep, IInv, HeadsOfStep, SignalsOfStep, RailActive
<1>2. /\ countdown' \in Nat \ {0} /\ safety' = ViewOf(step')
      /\ \A a \in Approach : arrow'[a] > 0 => step' \in {"NS_GREEN", "EW_GREEN"}
  <2>1. \E ticks \in Nat \ {0} : EnterStepFor(step', ticks, TickedArrow)
    BY <1>1, Lasts, DurationAssumption
    DEF AdvanceRailway, AdvanceRailYellow, AdvanceRailAllRed, AdvancePrearrival, AdvanceWarn,
        Rearm, AdvanceGateFault, AdvanceOccupied, AdvancePostHold, EnterStep, EnterStepFor,
        Step, RailStep
  <2> QED BY <1>1, <2>1, Prelude, Entered DEF Step
<1>3. HeadsOfStep'
  BY <1>1, <1>2
  DEF AdvanceRailway, AdvanceRailYellow, AdvanceRailAllRed, AdvancePrearrival, AdvanceWarn,
      Rearm, AdvanceGateFault, AdvanceOccupied, AdvancePostHold, EnterStep, EnterStepFor,
      RailStep, IInv, HeadsOfStep, Green, Yellow, Approach, AllRedSteps
<1>4. GateOfStep' /\ AwaitedReportComes'
  <2>1. CASE Rearm
    BY <1>1, <2>1, GateKept DEF Rearm, EnterStepFor, crossing, IInv
  <2>2. CASE ~Rearm
    <3>1. gate_task.at = "idle" /\ Reports' = {}
      BY <1>1, <2>2
      DEF AdvanceRailway, AdvanceRailYellow, AdvanceRailAllRed, AdvancePrearrival,
          AdvanceWarn, AdvanceGateFault, AdvanceOccupied, AdvancePostHold, IInv, GateOfStep,
          SameReports, Reports
    <3> USE <1>1, <3>1 DEF RailStep, GateSteps, IInv, TypeOK, GateOfStep, AwaitedReportComes,
            Reports, crossing, Step, EnterStep, EnterStepFor
    <3>2. CASE AdvanceRailYellow
      BY <3>2 DEF AdvanceRailYellow
    <3>3. CASE AdvanceRailAllRed
      BY <3>3 DEF AdvanceRailAllRed
    <3>4. CASE AdvancePrearrival
      BY <3>4 DEF AdvancePrearrival
    <3>5. CASE AdvanceWarn
      BY <3>5 DEF AdvanceWarn, BeginClose, GateCommand
    <3>6. CASE AdvanceGateFault
      <4>1. /\ step' = "RAIL_GATE_LOWER" /\ gate_state' = "LOWERING"
            /\ gate_task' = [at |-> "commanded", closing |-> TRUE, ok |-> TRUE]
        BY <3>6 DEF AdvanceGateFault, BeginClose, RetryClose, GateCommand
      <4> QED BY <4>1
    <3>7. CASE AdvanceOccupied
      BY <3>7 DEF AdvanceOccupied
    <3>8. CASE AdvancePostHold
      BY <3>8 DEF AdvancePostHold, BeginOpen, GateCommand
    <3> QED BY <2>2, <3>2, <3>3, <3>4, <3>5, <3>6, <3>7, <3>8 DEF AdvanceRailway
  <2> QED BY <2>1, <2>2
<1>5. SignalsOfStep' /\ FaultStopsTrain' /\ CloseAttemptsBounded'
  <2> USE <1>1, <1>2, AttemptsAssumption DEF RailStep, PedStep, GateSteps, IInv, TypeOK,
          SignalsOfStep, RailActive, FaultStopsTrain, CloseAttemptsBounded, crossing,
          EnterStep, EnterStepFor
  <2>1. CASE AdvanceRailYellow
    BY <2>1 DEF AdvanceRailYellow
  <2>2. CASE AdvanceRailAllRed
    BY <2>2 DEF AdvanceRailAllRed
  <2>3. CASE AdvancePrearrival
    BY <2>3 DEF AdvancePrearrival
  <2>4. CASE AdvanceWarn
    BY <2>4 DEF AdvanceWarn, BeginClose, GateCommand
  <2>5. CASE AdvanceGateFault
    BY <2>5 DEF AdvanceGateFault, BeginClose, RetryClose, GateCommand
  <2>6. CASE AdvanceOccupied
    BY <2>6 DEF AdvanceOccupied
  <2>7. CASE AdvancePostHold
    BY <2>7 DEF AdvancePostHold, BeginOpen, GateCommand
  <2>8. CASE Rearm
    BY <2>8 DEF Rearm
  <2> QED BY <2>1, <2>2, <2>3, <2>4, <2>5, <2>6, <2>7, <2>8 DEF AdvanceRailway
<1> QED BY <1>3, <1>4, <1>5 DEF StepInv

(* What either kind of step end leaves in the variables it writes. *)
LEMMA StepEndTypes ==
  ASSUME IInv, AdvanceRailway \/ AdvanceTraffic
  PROVE  /\ step' \in Step /\ countdown' \in Nat
         /\ arrow' \in [Approach -> Nat]
         /\ safety' \in [rail_active : BOOLEAN, ped_crossing : BOOLEAN]
         /\ vehicle' \in [Approach -> VehicleState]
         /\ ped_state' \in PedState /\ phase' \in Phase /\ min_green_elapsed' \in BOOLEAN
         /\ gate_state' \in GateState /\ rail_signal' \in RailSignal
         /\ train_signal' \in RailSignal
         /\ fault' \in BOOLEAN /\ g_close_attempts' \in Nat
         /\ gate_task' \in [at : {"idle", "commanded", "moving"},
                           closing : BOOLEAN, ok : BOOLEAN]
         /\ ped_request_pending' \in BOOLEAN
         /\ reports' \subseteq {"STATUS_EVENT", "FAULT_ALARM"}
<1>1. step' \in Step
  BY DEF AdvanceRailway, AdvanceRailYellow, AdvanceRailAllRed, AdvancePrearrival, AdvanceWarn,
         Rearm, AdvanceGateFault, AdvanceOccupied, AdvancePostHold, AdvanceTraffic,
         AdvanceGreen, AdvanceYellow, BeginWalk, AdvanceAllRed, AdvanceOverrideHold,
         AdvanceWalk, AdvanceClearance, BeginGreen, EnterStep, EnterStepFor, Green, Yellow,
         AllRed, Other, Approach, Step, VehicleStep, PedStep, RailStep
<1>2. \E ticks \in Nat \ {0} : EnterStepFor(step', ticks, TickedArrow)
  BY <1>1, Lasts, DurationAssumption
  DEF AdvanceRailway, AdvanceRailYellow, AdvanceRailAllRed, AdvancePrearrival, AdvanceWarn,
      Rearm, AdvanceGateFault, AdvanceOccupied, AdvancePostHold, AdvanceTraffic,
      AdvanceGreen, AdvanceYellow, BeginWalk, AdvanceAllRed, AdvanceOverrideHold,
      AdvanceWalk, AdvanceClearance, BeginGreen, EnterStep, EnterStepFor
<1>3. /\ countdown' \in Nat /\ arrow' \in [Approach -> Nat]
      /\ safety' \in [rail_active : BOOLEAN, ped_crossing : BOOLEAN]
  BY <1>1, <1>2, Prelude, Entered
<1>4. /\ vehicle' \in [Approach -> VehicleState]
      /\ ped_state' \in PedState /\ phase' \in Phase
  BY DEF AdvanceRailway, AdvanceRailYellow, AdvanceRailAllRed, AdvancePrearrival, AdvanceWarn,
         Rearm, AdvanceGateFault, AdvanceOccupied, AdvancePostHold, AdvanceTraffic,
         AdvanceGreen, AdvanceYellow, BeginWalk, AdvanceAllRed, AdvanceOverrideHold,
         AdvanceWalk, AdvanceClearance, BeginGreen, OnlyGreen, AllAre, Other, Approach,
         VehicleState, PedState, Phase, IInv, TypeOK
<1>5. /\ gate_state' \in GateState /\ rail_signal' \in RailSignal
      /\ train_signal' \in RailSignal /\ g_close_attempts' \in Nat
  <2>1. \/ UNCHANGED gate_state \/ gate_state' \in {"LOWERING", "RAISING"}
    BY DEF AdvanceRailway, AdvanceRailYellow, AdvanceRailAllRed, AdvancePrearrival,
           AdvanceWarn, Rearm, AdvanceGateFault, AdvanceOccupied, AdvancePostHold,
           AdvanceTraffic, BeginClose, RetryClose, BeginOpen, crossing
  <2>2. \/ UNCHANGED rail_signal \/ rail_signal' = "FLASHING_RED"
    BY DEF AdvanceRailway, AdvanceRailYellow, AdvanceRailAllRed, AdvancePrearrival,
           AdvanceWarn, Rearm, AdvanceGateFault, AdvanceOccupied, AdvancePostHold,
           AdvanceTraffic, crossing
  <2>3. UNCHANGED train_signal
    BY DEF AdvanceRailway, AdvanceRailYellow, AdvanceRailAllRed, AdvancePrearrival,
           AdvanceWarn, Rearm, AdvanceGateFault, AdvanceOccupied, AdvancePostHold,
           AdvanceTraffic, crossing
  <2>4. g_close_attempts' \in {g_close_attempts, g_close_attempts + 1, 1}
    BY DEF AdvanceRailway, AdvanceRailYellow, AdvanceRailAllRed, AdvancePrearrival,
           AdvanceWarn, Rearm, AdvanceGateFault, AdvanceOccupied, AdvancePostHold,
           AdvanceTraffic, BeginClose, RetryClose, BeginOpen, crossing
  <2> QED BY <2>1, <2>2, <2>3, <2>4 DEF GateState, RailSignal, IInv, TypeOK
<1>8. UNCHANGED fault
  BY DEF AdvanceRailway, AdvanceRailYellow, AdvanceRailAllRed, AdvancePrearrival, AdvanceWarn,
         Rearm, AdvanceGateFault, AdvanceOccupied, AdvancePostHold, AdvanceTraffic, crossing
<1>9. gate_task' \in [at : {"idle", "commanded", "moving"}, closing : BOOLEAN, ok : BOOLEAN]
  <2>1. \/ UNCHANGED gate_task
        \/ gate_task' = [at |-> "commanded", closing |-> TRUE, ok |-> TRUE]
        \/ gate_task' = [at |-> "commanded", closing |-> FALSE, ok |-> TRUE]
    BY DEF AdvanceRailway, AdvanceRailYellow, AdvanceRailAllRed, AdvancePrearrival,
           AdvanceWarn, Rearm, AdvanceGateFault, AdvanceOccupied, AdvancePostHold,
           AdvanceTraffic, BeginClose, RetryClose, BeginOpen, GateCommand
  <2>2. gate_task \in [at : {"idle", "commanded", "moving"}, closing : BOOLEAN, ok : BOOLEAN]
    BY DEF IInv, TypeOK
  <2>3. CASE UNCHANGED gate_task
    BY <2>2, <2>3
  <2>4. CASE gate_task' = [at |-> "commanded", closing |-> TRUE, ok |-> TRUE]
    BY <2>4
  <2>5. CASE gate_task' = [at |-> "commanded", closing |-> FALSE, ok |-> TRUE]
    BY <2>5
  <2> QED BY <2>1, <2>3, <2>4, <2>5
<1>6. min_green_elapsed' \in BOOLEAN /\ ped_request_pending' \in BOOLEAN
  <2>1. MinGreenNow \in BOOLEAN /\ min_green_elapsed \in BOOLEAN
    BY Prelude DEF IInv, TypeOK
  <2>2. ped_request_pending \in BOOLEAN
    BY DEF IInv, TypeOK
  <2>3. min_green_elapsed' \in BOOLEAN
    BY <2>1, Zenon
    DEF AdvanceRailway, AdvanceTraffic, AdvanceGreen, AdvanceYellow, BeginWalk,
        AdvanceAllRed, AdvanceOverrideHold, AdvanceWalk, AdvanceClearance, BeginGreen
  <2>4. ped_request_pending' \in BOOLEAN
    BY <2>2
    DEF AdvanceRailway, AdvanceTraffic, AdvanceGreen, AdvanceYellow, BeginWalk,
        AdvanceAllRed, AdvanceOverrideHold, AdvanceWalk, AdvanceClearance
  <2> QED BY <2>3, <2>4
<1>7. reports' \subseteq {"STATUS_EVENT", "FAULT_ALARM"}
  BY Prelude
  DEF AdvanceRailway, AdvanceRailYellow, AdvanceRailAllRed, AdvancePrearrival, AdvanceWarn,
      Rearm, AdvanceGateFault, AdvanceOccupied, AdvancePostHold, AdvanceTraffic,
      AdvanceGreen, AdvanceYellow, BeginWalk, AdvanceAllRed, AdvanceOverrideHold,
      AdvanceWalk, AdvanceClearance, Notify
<1>10. fault' \in BOOLEAN
  BY <1>8 DEF IInv, TypeOK
<1> QED BY <1>1, <1>3, <1>4, <1>5, <1>6, <1>7, <1>9, <1>10

LEMMA TickKeeps == IInv /\ HandleTick => IInv'
<1> SUFFICES ASSUME IInv, HandleTick PROVE IInv'
  OBVIOUS
<1>1. SameReports
  BY SameWhenReceived DEF HandleTick, IInv, TypeOK
<1>2. /\ mode' \in Mode /\ g_period' \in Period /\ demand' \in [Approach -> BOOLEAN]
      /\ pulses' \in Seq(Pulse)
      /\ UNCHANGED <<rail_alert, gate_fault_armed, commands, server, sim_period>>
  BY <1>1, Prelude DEF HandleTick, ModeScheduleTick, SameReports, IInv, TypeOK
<1>3. CASE TickRunsOn
  <2>1. TypeOK'
    BY <1>2, <1>3, Prelude DEF TickRunsOn, heads, crossing, commands, IInv, TypeOK
  <2>2. GateOfStep' /\ AwaitedReportComes'
    BY <1>1, <1>3, GateKept DEF TickRunsOn, crossing, IInv
  <2>3. HeadsOfStep' /\ FaultStopsTrain' /\ CloseAttemptsBounded'
    BY <1>3, Prelude
    DEF TickRunsOn, heads, crossing, IInv, HeadsOfStep, FaultStopsTrain, CloseAttemptsBounded
  <2>4. SignalsOfStep'
    BY <1>3, Prelude DEF TickRunsOn, heads, crossing, IInv, SignalsOfStep, RailActive
  <2> QED BY <2>1, <2>2, <2>3, <2>4 DEF IInv
<1>4. CASE TickEndsStep
  <2>1. StepInv'
    BY <1>1, <1>2, <1>4, TrafficKeeps, RailwayKeeps DEF TickEndsStep
  <2>2. TypeOK'
    BY <1>2, <1>4, StepEndTypes DEF TickEndsStep, commands, IInv, TypeOK
  <2> QED BY <2>1, <2>2 DEF IInv, StepInv
<1> QED BY <1>3, <1>4 DEF HandleTick

------------------------------------------------------------------------------
(* The other pulses *)

LEMMA ApproachKeeps == IInv /\ HandleApproach => IInv'
<1> SUFFICES ASSUME IInv, HandleApproach PROVE IInv'
  OBVIOUS
<1>1. SameReports
  BY SameWhenReceived DEF HandleApproach, IInv, TypeOK
<1>2. UNCHANGED <<controllerFrame, schedule, commands, rail_alert, min_green_elapsed>>
  BY DEF HandleApproach, OnApproach, BeginProtection
<1>3. CASE RailActive
  <2>1. UNCHANGED <<step, countdown, arrow, safety, heads, crossing, reports, gate_task>>
    BY <1>2, <1>3 DEF HandleApproach, OnApproach, controllerFrame, gate
  <2>2. TypeOK'
    BY <1>1, <1>2, <2>1
    DEF controllerFrame, gate, schedule, commands, heads, crossing, IInv, TypeOK, SameReports
  <2> QED BY <1>1, <2>1, <2>2, FrameKept
<1>4. CASE ~RailActive
  <2>0. BeginProtection
    BY <1>4 DEF HandleApproach, OnApproach
  <2>1. ArrowsOff \in [Approach -> Nat] /\ "RAIL_YELLOW" \in Step
    BY DEF ArrowsOff, Step, RailStep
  <2>2. /\ step' = "RAIL_YELLOW" /\ countdown' \in Nat \ {0} /\ safety' = ViewOf(step')
        /\ safety' \in [rail_active : BOOLEAN, ped_crossing : BOOLEAN]
        /\ arrow' \in [Approach -> Nat]
        /\ \A a \in Approach : arrow'[a] > 0 => step' \in {"NS_GREEN", "EW_GREEN"}
    BY <2>0, <2>1, Lasts, Entered DEF BeginProtection, EnterStep
  <2>3. /\ vehicle' = AllAre("YELLOW") /\ train_signal' = "CLEAR" /\ phase' = "RAIL_PROTECT"
        /\ reports' = Notify(reports)
        /\ UNCHANGED <<ped_state, gate_state, rail_signal, fault, g_close_attempts>>
    BY <2>0 DEF BeginProtection
  <2>4. step \in Step /\ step \notin RailStep
    BY <1>4 DEF RailActive, IInv, TypeOK
  <2>5. TypeOK'
    <3>1. /\ vehicle' \in [Approach -> VehicleState] /\ train_signal' \in RailSignal
          /\ phase' \in Phase /\ step' \in Step
          /\ reports' \subseteq {"STATUS_EVENT", "FAULT_ALARM"}
      BY <2>1, <2>2, <2>3 DEF AllAre, VehicleState, RailSignal, Phase, Notify, IInv, TypeOK
    <3> QED BY <1>1, <1>2, <2>2, <2>3, <3>1
            DEF controllerFrame, gate, schedule, commands, IInv, TypeOK, SameReports
  <2>6. HeadsOfStep'
    BY <2>2, <2>3 DEF HeadsOfStep, Green, Yellow, Approach, AllRedSteps, PedStep
  <2>7. GateOfStep' /\ AwaitedReportComes'
    BY <1>1, <1>2, <2>2, <2>3, <2>4
    DEF controllerFrame, gate, IInv, GateOfStep, AwaitedReportComes, SameReports, Reports,
        GateSteps, RailStep, Step
  <2>8. SignalsOfStep' /\ FaultStopsTrain' /\ CloseAttemptsBounded'
    BY <2>2, <2>3, <2>4
    DEF IInv, SignalsOfStep, FaultStopsTrain, CloseAttemptsBounded, RailActive, RailStep,
        PedStep, GateSteps
  <2> QED BY <2>5, <2>6, <2>7, <2>8 DEF IInv
<1> QED BY <1>3, <1>4

(* Only the countdown of an occupied crossing changes. *)
LEMMA ClearedKeeps == IInv /\ HandleCleared => IInv'
<1> SUFFICES ASSUME IInv, HandleCleared PROVE IInv'
  OBVIOUS
<1>1. SameReports
  BY SameWhenReceived DEF HandleCleared, IInv, TypeOK
<1>2. UNCHANGED <<controllerFrame, schedule, commands, step, arrow, safety, heads, crossing,
                  rail_alert, min_green_elapsed, reports>>
  BY DEF HandleCleared, OnCleared
<1>3. countdown' \in Nat /\ (countdown' = countdown \/ step = "RAIL_OCCUPIED")
  BY DEF HandleCleared, OnCleared, IInv, TypeOK
<1>4. TypeOK'
  BY <1>1, <1>2, <1>3
  DEF controllerFrame, gate, schedule, commands, heads, crossing, IInv, TypeOK, SameReports
<1>5. GateOfStep' /\ AwaitedReportComes'
  BY <1>1, <1>2, GateKept DEF controllerFrame, gate, crossing, IInv
<1>6. HeadsOfStep' /\ FaultStopsTrain' /\ CloseAttemptsBounded'
  BY <1>2 DEF heads, crossing, IInv, HeadsOfStep, FaultStopsTrain, CloseAttemptsBounded
<1>7. SignalsOfStep'
  BY <1>2, <1>3 DEF heads, crossing, IInv, SignalsOfStep, RailActive
<1> QED BY <1>4, <1>5, <1>6, <1>7 DEF IInv

LEMMA CommandsKeep == IInv /\ HandleCommands => IInv'
<1> SUFFICES ASSUME IInv, HandleCommands PROVE IInv'
  OBVIOUS
<1>1. SameReports
  BY SameWhenReceived DEF HandleCommands, IInv, TypeOK
<1>2. /\ UNCHANGED <<controllerFrame, ped_state, phase, g_period, crossing, rail_alert>>
      /\ override' = None /\ mode_switch' = None /\ mode' \in Mode
      /\ reports' \subseteq {"STATUS_EVENT", "FAULT_ALARM"}
  BY DEF HandleCommands, ApplyCommands, Notify, IInv, TypeOK
<1>3. CASE UNCHANGED <<vehicle, min_green_elapsed, step, countdown, safety, arrow>>
  <2>1. TypeOK'
    BY <1>1, <1>2, <1>3 DEF controllerFrame, gate, crossing, IInv, TypeOK, SameReports
  <2> QED BY <1>1, <1>2, <1>3, <2>1, FrameKept DEF heads, controllerFrame, gate
<1>4. CASE override # None /\ MayOverride /\ ForceHeads(override)
  <2>1. step \in Step \ (RailStep \cup PedStep)
    BY <1>4 DEF MayOverride, RailActive, IInv, TypeOK
  <2>2. /\ step' = "OVERRIDE_HOLD" /\ countdown' \in Nat \ {0} /\ safety' = ViewOf(step')
        /\ safety' \in [rail_active : BOOLEAN, ped_crossing : BOOLEAN]
        /\ arrow' \in [Approach -> Nat]
        /\ \A a \in Approach : arrow'[a] > 0 => step' \in {"NS_GREEN", "EW_GREEN"}
    <3>1. "OVERRIDE_HOLD" \in Step /\ arrow \in [Approach -> Nat]
      BY DEF Step, IInv, TypeOK
    <3>2. EnterStepFor("OVERRIDE_HOLD", Duration["OVERRIDE_HOLD"], arrow)
      BY <1>4 DEF ForceHeads, EnterStep
    <3> QED BY <3>1, <3>2, Lasts, Entered
  <2>3. vehicle' \in {AllAre("RED"), OnlyGreen("NS"), OnlyGreen("EW")}
    BY <1>4 DEF ForceHeads
  <2>4. min_green_elapsed' \in BOOLEAN
    <3>1. min_green_elapsed \in BOOLEAN
      BY DEF IInv, TypeOK
    <3> QED BY <1>4, <3>1, Zenon DEF ForceHeads
  <2>5. TypeOK'
    <3>1. vehicle' \in [Approach -> VehicleState] /\ step' \in Step
      BY <2>2, <2>3 DEF AllAre, OnlyGreen, VehicleState, Step
    <3> QED BY <1>1, <1>2, <2>2, <2>4, <3>1
            DEF controllerFrame, gate, crossing, IInv, TypeOK, SameReports
  <2>6. HeadsOfStep'
    BY <2>2, <2>3 DEF HeadsOfStep, Green, Yellow, Approach, AllRedSteps, PedStep, RailStep
  <2>7. GateOfStep' /\ AwaitedReportComes'
    BY <1>1, <1>2, <2>1, <2>2
    DEF controllerFrame, gate, crossing, IInv, GateOfStep, AwaitedReportComes, SameReports,
        Reports, GateSteps, RailStep, Step
  <2>8. SignalsOfStep' /\ FaultStopsTrain' /\ CloseAttemptsBounded'
    BY <1>2, <2>1, <2>2
    DEF crossing, IInv, SignalsOfStep, FaultStopsTrain, CloseAttemptsBounded, RailActive,
        RailStep, PedStep, GateSteps
  <2> QED BY <2>5, <2>6, <2>7, <2>8 DEF IInv
<1> QED BY <1>3, <1>4 DEF HandleCommands, ApplyCommands

(* A report of the gate: it is the only one, and of the move its step      *)
(* waits for.                                                              *)
LEMMA GateStatusKeeps == IInv /\ HandleGateStatus => IInv'
<1> SUFFICES ASSUME IInv, HandleGateStatus PROVE IInv'
  OBVIOUS
<1> DEFINE p == Head(pulses)
<1>1. /\ pulses' \in Seq(Pulse) /\ Reports' = {}
      /\ p \in Pulse /\ 1 \in Reports /\ p = pulses[1]
  BY ReceivedStatus DEF HandleGateStatus, IInv, TypeOK, GateOfStep, Reports
<1>2. /\ step \in {"RAIL_GATE_LOWER", "RAIL_GATE_RAISE"} /\ gate_task.at = "idle"
      /\ p.closing = (step = "RAIL_GATE_LOWER") /\ (p.closing \/ p.ok)
  BY <1>1 DEF IInv, TypeOK, GateOfStep, AwaitedReportComes, Reports
<1>3. UNCHANGED <<controllerFrame, schedule, commands>> /\ OnGateStatus(p)
  BY DEF HandleGateStatus
<1> HIDE DEF p
<1>4. gate_task'.at = "idle" /\ (gate_task'.closing \/ gate_task'.ok)
  BY <1>2, <1>3 DEF controllerFrame, gate, IInv, GateOfStep
<1>5. CASE p.closing /\ p.ok /\ OnLocked
  <2>1. step = "RAIL_GATE_LOWER" /\ "RAIL_OCCUPIED" \in Step /\ arrow \in [Approach -> Nat]
    BY <1>2, <1>5 DEF IInv, TypeOK, Step, RailStep
  <2>2. EnterStepFor("RAIL_OCCUPIED", Duration["RAIL_OCCUPIED"], arrow)
    BY <1>5, <2>1 DEF OnLocked, EnterStep
  <2>3. /\ step' = "RAIL_OCCUPIED" /\ countdown' \in Nat \ {0} /\ safety' = ViewOf(step')
        /\ safety' \in [rail_active : BOOLEAN, ped_crossing : BOOLEAN]
        /\ arrow' \in [Approach -> Nat]
        /\ \A a \in Approach : arrow'[a] > 0 => step' \in {"NS_GREEN", "EW_GREEN"}
    BY <2>1, <2>2, Lasts, Entered
  <2>4. /\ gate_state' = "LOCKED" /\ fault' = FALSE /\ g_close_attempts' = 0
        /\ rail_signal' = "FLASHING_RED" /\ train_signal' = "CLEAR"
        /\ reports' = Notify(reports)
        /\ UNCHANGED <<heads, min_green_elapsed, rail_alert>>
    BY <1>5, <2>1 DEF OnLocked
  <2>5. TypeOK'
    <3>1. /\ step' \in Step /\ gate_state' \in GateState /\ rail_signal' \in RailSignal
          /\ train_signal' \in RailSignal /\ g_close_attempts' \in Nat
          /\ fault' \in BOOLEAN /\ reports' \subseteq {"STATUS_EVENT", "FAULT_ALARM"}
      BY <2>1, <2>3, <2>4 DEF GateState, RailSignal, Notify, IInv, TypeOK
    <3> QED BY <1>1, <1>3, <2>3, <2>4, <3>1
            DEF controllerFrame, gate, schedule, commands, heads, IInv, TypeOK
  <2>6. HeadsOfStep'
    BY <2>1, <2>3, <2>4
    DEF heads, IInv, HeadsOfStep, Green, Yellow, Approach, AllRedSteps, RailStep, PedStep
  <2>7. GateOfStep' /\ AwaitedReportComes'
    BY <1>1, <1>4, <2>3, <2>4 DEF GateOfStep, AwaitedReportComes, Reports, GateSteps
  <2>8. SignalsOfStep' /\ FaultStopsTrain' /\ CloseAttemptsBounded'
    BY <2>1, <2>3, <2>4, AttemptsAssumption
    DEF heads, IInv, SignalsOfStep, FaultStopsTrain, CloseAttemptsBounded, RailActive,
        RailStep, PedStep, GateSteps
  <2> QED BY <2>5, <2>6, <2>7, <2>8 DEF IInv
<1>6. CASE p.closing /\ ~p.ok /\ OnCloseFailed
  <2>1. step = "RAIL_GATE_LOWER" /\ "RAIL_GATE_FAULT" \in Step /\ arrow \in [Approach -> Nat]
    BY <1>2, <1>6 DEF IInv, TypeOK, Step, RailStep
  <2>2. EnterStepFor("RAIL_GATE_FAULT", Duration["RAIL_GATE_FAULT"], arrow)
    BY <1>6 DEF OnCloseFailed, EnterStep
  <2>3. /\ step' = "RAIL_GATE_FAULT" /\ countdown' \in Nat \ {0} /\ safety' = ViewOf(step')
        /\ safety' \in [rail_active : BOOLEAN, ped_crossing : BOOLEAN]
        /\ arrow' \in [Approach -> Nat]
        /\ \A a \in Approach : arrow'[a] > 0 => step' \in {"NS_GREEN", "EW_GREEN"}
    BY <2>1, <2>2, Lasts, Entered
  <2>4. /\ gate_state' = "TIMEOUT_FAULT" /\ fault' = TRUE
        /\ rail_signal' = "FLASHING_RED" /\ train_signal' = "RED"
        /\ reports' = reports \cup {"FAULT_ALARM"}
        /\ UNCHANGED <<heads, g_close_attempts, min_green_elapsed, rail_alert>>
    BY <1>6 DEF OnCloseFailed
  <2>5. TypeOK'
    <3>1. /\ step' \in Step /\ gate_state' \in GateState /\ rail_signal' \in RailSignal
          /\ train_signal' \in RailSignal
          /\ fault' \in BOOLEAN /\ reports' \subseteq {"STATUS_EVENT", "FAULT_ALARM"}
      BY <2>1, <2>3, <2>4 DEF GateState, RailSignal, IInv, TypeOK
    <3> QED BY <1>1, <1>3, <2>3, <2>4, <3>1
            DEF controllerFrame, gate, schedule, commands, heads, IInv, TypeOK
  <2>6. HeadsOfStep'
    BY <2>1, <2>3, <2>4
    DEF heads, IInv, HeadsOfStep, Green, Yellow, Approach, AllRedSteps, RailStep, PedStep
  <2>7. GateOfStep' /\ AwaitedReportComes'
    BY <1>1, <1>4, <2>3, <2>4 DEF GateOfStep, AwaitedReportComes, Reports, GateSteps
  <2>8. SignalsOfStep' /\ FaultStopsTrain' /\ CloseAttemptsBounded'
    BY <2>1, <2>3, <2>4
    DEF heads, IInv, SignalsOfStep, FaultStopsTrain, CloseAttemptsBounded, RailActive,
        RailStep, PedStep, GateSteps
  <2> QED BY <2>5, <2>6, <2>7, <2>8 DEF IInv
<1>7. CASE ~p.closing /\ OnOpened(p.ok)
  <2>1. /\ step = "RAIL_GATE_RAISE" /\ p.ok
        /\ "NS_GREEN" \in Step /\ arrow \in [Approach -> Nat]
    BY <1>2, <1>7 DEF IInv, TypeOK, Step, VehicleStep
  <2>2. EnterStepFor("NS_GREEN", Duration["NS_GREEN"], arrow)
    BY <1>7, <2>1 DEF OnOpened, BeginGreen, Green, EnterStep
  <2>3. /\ step' = "NS_GREEN" /\ countdown' \in Nat \ {0} /\ safety' = ViewOf(step')
        /\ safety' \in [rail_active : BOOLEAN, ped_crossing : BOOLEAN]
        /\ arrow' \in [Approach -> Nat]
        /\ \A a \in Approach : arrow'[a] > 0 => step' \in {"NS_GREEN", "EW_GREEN"}
    BY <2>1, <2>2, Lasts, Entered
  <2>4. /\ gate_state' = "OPEN" /\ rail_signal' = "CLEAR" /\ train_signal' = "CLEAR"
        /\ vehicle' = OnlyGreen("NS") /\ phase' = "NS" /\ min_green_elapsed' = FALSE
        /\ rail_alert' = FALSE /\ reports' = Notify(reports)
        /\ UNCHANGED <<ped_state, fault, g_close_attempts>>
    BY <1>7, <2>1 DEF OnOpened, BeginGreen
  <2>5. TypeOK'
    <3>1. /\ step' \in Step /\ gate_state' \in GateState /\ rail_signal' \in RailSignal
          /\ train_signal' \in RailSignal /\ vehicle' \in [Approach -> VehicleState]
          /\ phase' \in Phase /\ min_green_elapsed' \in BOOLEAN /\ rail_alert' \in BOOLEAN
          /\ reports' \subseteq {"STATUS_EVENT", "FAULT_ALARM"}
      BY <2>1, <2>3, <2>4
      DEF GateState, RailSignal, VehicleState, OnlyGreen, Phase, Notify, IInv, TypeOK
    <3> QED BY <1>1, <1>3, <2>3, <2>4, <3>1
            DEF controllerFrame, gate, schedule, commands, IInv, TypeOK
  <2>6. HeadsOfStep'
    BY <2>3, <2>4
    DEF HeadsOfStep, Green, Yellow, OnlyGreen, Approach, AllRedSteps, RailStep, PedStep
  <2>7. GateOfStep' /\ AwaitedReportComes'
    BY <1>1, <1>4, <2>3, <2>4 DEF GateOfStep, AwaitedReportComes, Reports, GateSteps, Step,
                                  VehicleStep
  <2>8. SignalsOfStep' /\ FaultStopsTrain' /\ CloseAttemptsBounded'
    BY <2>1, <2>3, <2>4, AttemptsAssumption
    DEF IInv, SignalsOfStep, FaultStopsTrain, CloseAttemptsBounded, RailActive,
        RailStep, PedStep, GateSteps
  <2> QED BY <2>5, <2>6, <2>7, <2>8 DEF IInv
<1> QED BY <1>3, <1>5, <1>6, <1>7 DEF OnGateStatus

------------------------------------------------------------------------------
(* The invariant holds throughout *)

LEMMA NextIInv == IInv /\ [Next]_vars => IInv'
<1> SUFFICES ASSUME IInv, [Next]_vars PROVE IInv'
  OBVIOUS
<1>1. CASE UNCHANGED vars
  <2>1. SameReports
    BY <1>1, SameWhenUnchanged DEF vars, IInv, TypeOK
  <2>2. TypeOK'
    BY <1>1 DEF vars, heads, schedule, crossing, gate, commands, IInv, TypeOK
  <2> QED BY <1>1, <2>1, <2>2, FrameKept DEF vars, gate
<1> QED BY <1>1, TickKeeps, ApproachKeeps, ClearedKeeps, CommandsKeep, GateStatusKeeps,
           TimerKeeps, GateTaskKeeps, ServerKeeps, DrainKeeps, InputsKeep
        DEF Next, PhaseController

(* In every state the controller can reach, all its variables depend on    *)
(* the step the way IInv says.                                             *)
THEOREM Invariance == Spec => []IInv
  BY InitIInv, NextIInv, PTL DEF Spec

(* Every variable stays in its range. *)
THEOREM TypeCorrect == Spec => []TypeOK
<1>1. IInv => TypeOK
  BY DEF IInv
<1> QED BY <1>1, Invariance, PTL

(* No vehicle head and no arrow ever releases a movement the phase table   *)
(* forbids in the current step, for any durations and any interleaving of  *)
(* trains, operators, pedestrians and mode changes.                        *)
THEOREM VehicleHeadsFollowTable == Spec => []VehicleHeadsObeyTable
<1>1. IInv => VehicleHeadsObeyTable
  <2> SUFFICES ASSUME IInv PROVE VehicleHeadsObeyTable
    OBVIOUS
  <2>1. ASSUME NEW a \in Approach, vehicle[a] # "RED"
        PROVE  Allows(step, Through(a)) \/ step = "OVERRIDE_HOLD"
    <3>1. step \in Step /\ HeadsOfStep
      BY DEF IInv, TypeOK
    <3>2. \/ step \in AllRedSteps \cup {"RAIL_YELLOW", "OVERRIDE_HOLD"}
          \/ \E b \in Approach : step \in {Green(b), Yellow(b)}
      BY <3>1 DEF HeadsOfStep, AllRedSteps, Green, Yellow, Approach, Step, VehicleStep,
                  PedStep, RailStep
    <3>3. step \notin AllRedSteps
      BY <2>1, <3>1 DEF HeadsOfStep, AllAre
    <3>4. ASSUME NEW b \in Approach, step \in {Green(b), Yellow(b)} PROVE b = a
      BY <2>1, <3>1, <3>4 DEF HeadsOfStep, OnlyGreen
    <3>5. step \in {Green(a), Yellow(a), "RAIL_YELLOW", "OVERRIDE_HOLD"}
      BY <3>2, <3>3, <3>4
    <3> QED BY <3>1, <3>5, ThroughRow
  <2>2. ASSUME NEW a \in Approach, arrow[a] > 0 PROVE Allows(step, Right(a))
    BY <2>2, ArrowRow DEF IInv, TypeOK, HeadsOfStep
  <2>3. step = "OVERRIDE_HOLD" => \E a \in Approach : vehicle[a] = "RED"
    BY DEF IInv, HeadsOfStep, AllAre, OnlyGreen, Approach
  <2> QED BY <2>1, <2>2, <2>3 DEF VehicleHeadsObeyTable
<1> QED BY <1>1, Invariance, PTL

(* The gate is locked and at rest, the road warned and every movement      *)
(* stopped from the moment the train is let in until the hold after it has *)
(* run out.                                                                *)
THEOREM TrainFindsGateDown == Spec => []GateDownForTrain
<1>1. IInv => GateDownForTrain
  <2> SUFFICES ASSUME IInv, step \in {"RAIL_OCCUPIED", "RAIL_POST_HOLD"}
               PROVE  /\ gate_state = "LOCKED" /\ ~fault
                      /\ gate_task.at = "idle" /\ Queued("GATE_STATUS") = {}
                      /\ rail_signal = "FLASHING_RED"
                      /\ vehicle = AllAre("RED") /\ arrow = ArrowsOff
    BY DEF GateDownForTrain
  <2>1. \A a \in Approach : ~(arrow[a] > 0)
    BY DEF IInv, HeadsOfStep
  <2>2. arrow = ArrowsOff
    <3>1. arrow \in [Approach -> Nat]
      BY DEF IInv, TypeOK
    <3> QED BY <2>1, <3>1 DEF ArrowsOff
  <2>3. vehicle = AllAre("RED")
    BY DEF IInv, HeadsOfStep, AllRedSteps, RailStep
  <2>4. rail_signal = "FLASHING_RED"
    BY DEF IInv, SignalsOfStep, GateSteps
  <2>5. gate_state = "LOCKED" /\ gate_task.at = "idle" /\ Queued("GATE_STATUS") = {}
    <3>1. GateOfStep /\ step \notin {"RAIL_GATE_LOWER", "RAIL_GATE_RAISE"}
      BY DEF IInv
    <3> QED BY <3>1 DEF GateOfStep
  <2>6. ~fault
    BY DEF IInv, FaultStopsTrain
  <2> QED BY <2>2, <2>3, <2>4, <2>5, <2>6
<1> QED BY <1>1, Invariance, PTL

(* The train light and the fault bit agree, retries included. *)
THEOREM FaultAlwaysStopsTrain == Spec => []FaultStopsTrain
<1>1. IInv => FaultStopsTrain
  BY DEF IInv
<1> QED BY <1>1, Invariance, PTL

(* The controller never blocks on the gate task. *)
THEOREM GateHandshake == Spec => []ControllerNeverWaitsOnGate
<1>1. IInv => ControllerNeverWaitsOnGate
  BY DEF IInv, GateOfStep, ControllerNeverWaitsOnGate
<1> QED BY <1>1, Invariance, PTL

(* A closure that waits for the gate to lock or to open has a move running *)
(* or its report on the way: it never waits for one that will not come.    *)
THEOREM GateStepsAreAnswered == Spec => []AwaitedReportComes
<1>1. IInv => AwaitedReportComes
  BY DEF IInv
<1> QED BY <1>1, Invariance, PTL

(* Close attempts are counted from one and never past the maximum. *)
THEOREM AttemptsBounded == Spec => []CloseAttemptsBounded
<1>1. IInv => CloseAttemptsBounded
  BY DEF IInv
<1> QED BY <1>1, Invariance, PTL

------------------------------------------------------------------------------
(* How a closure may move on *)

(* A step that starts in an active protection is one of the ten moves, and *)
(* the last of them is the gate reporting that it is open.                 *)
LEMMA ClosureStep ==
  ASSUME IInv, Next, RailActive
  PROVE  /\ step' = step \/ <<step, step'>> \in ClosureMoves
         /\ ~RailActive' => /\ gate_state = "RAISING" /\ gate_state' = "OPEN"
                            /\ rail_signal' = "CLEAR" /\ ~fault'
<1>1. step \in RailStep
  BY DEF RailActive
<1>2. CASE UNCHANGED step
  BY <1>1, <1>2 DEF RailActive
<1>3. CASE AdvanceRailway
  BY <1>3 DEF AdvanceRailway, AdvanceRailYellow, AdvanceRailAllRed, AdvancePrearrival,
              AdvanceWarn, Rearm, AdvanceGateFault, AdvanceOccupied, AdvancePostHold,
              EnterStep, EnterStepFor, ClosureMoves, RailActive, RailStep
<1>4. CASE AdvanceTraffic
  BY <1>1, <1>4
  DEF AdvanceTraffic, AdvanceGreen, AdvanceYellow, BeginWalk, AdvanceAllRed,
      AdvanceOverrideHold, AdvanceWalk, AdvanceClearance, Green, Yellow, AllRed, RailStep
<1>5. CASE HandleGateStatus
  <2> DEFINE p == Head(pulses)
  <2>1. /\ 1 \in Reports /\ p = pulses[1] /\ p \in Pulse
    BY <1>5, ReceivedStatus DEF HandleGateStatus, IInv, TypeOK, GateOfStep, Reports
  <2>2. /\ step \in {"RAIL_GATE_LOWER", "RAIL_GATE_RAISE"}
        /\ p.closing = (step = "RAIL_GATE_LOWER") /\ (p.closing \/ p.ok)
    BY <2>1 DEF IInv, GateOfStep, AwaitedReportComes, Reports
  <2>3. OnGateStatus(p)
    BY <1>5 DEF HandleGateStatus
  <2> HIDE DEF p
  <2>4. CASE step = "RAIL_GATE_LOWER"
    <3>1. step' \in {"RAIL_OCCUPIED", "RAIL_GATE_FAULT"}
      BY <2>2, <2>3, <2>4
      DEF OnGateStatus, OnLocked, OnCloseFailed, EnterStep, EnterStepFor
    <3> QED BY <2>4, <3>1 DEF ClosureMoves, RailActive, RailStep
  <2>5. CASE step = "RAIL_GATE_RAISE"
    <3>1. /\ step' = "NS_GREEN" /\ gate_state' = "OPEN" /\ rail_signal' = "CLEAR"
          /\ fault' = fault
      BY <2>2, <2>3, <2>5
      DEF OnGateStatus, OnOpened, BeginGreen, Green, EnterStep, EnterStepFor
    <3>2. gate_state = "RAISING" /\ ~fault
      BY <2>5 DEF IInv, GateOfStep, FaultStopsTrain
    <3> QED BY <2>5, <3>1, <3>2 DEF ClosureMoves
  <2> QED BY <2>2, <2>4, <2>5
<1>6. UNCHANGED step \/ AdvanceRailway \/ AdvanceTraffic \/ HandleGateStatus
  <2>1. PhaseController =>
          UNCHANGED step \/ AdvanceRailway \/ AdvanceTraffic \/ HandleGateStatus
    BY DEF PhaseController, HandleTick, TickRunsOn, TickEndsStep, HandleApproach, OnApproach,
           HandleCleared, OnCleared, HandleCommands, ApplyCommands, MayOverride
  <2>2. TimerFires \/ DrainReports \/ Inputs => UNCHANGED step
    BY DEF TimerFires, DrainReports, Inputs, PressPedestrian, TrainApproaches, TrainClears,
           ArmGateFault, DetectVehicle, ClockReaches, inputFrame
  <2>3. GateTask \/ Server => UNCHANGED step
    BY DEF GateTask, GateStartsMoving, GateReports, Server, ServerAcceptsOverride,
           ServerAcceptsModeSwitch, ServerLatches, ServerWakesController, serverFrame
  <2> QED BY <2>1, <2>2, <2>3 DEF Next
<1> QED BY <1>2, <1>3, <1>4, <1>5, <1>6

(* No command, key, tick or late pulse takes a closure out of its order.   *)
THEOREM ClosureOrdered == Spec => ClosureInOrder
<1>1. IInv /\ [Next]_vars =>
        [RailActive => step' = step \/ <<step, step'>> \in ClosureMoves]_vars
  BY ClosureStep
<1> QED BY <1>1, Invariance, PTL DEF Spec, ClosureInOrder

(* The road is released only by the gate's own report that it is open.     *)
THEOREM ReopenedByGate == Spec => ReopensOnlyWhenGateOpen
<1>1. IInv /\ [Next]_vars =>
        [RailActive /\ ~RailActive' =>
           gate_state = "RAISING" /\ gate_state' = "OPEN" /\ rail_signal' = "CLEAR" /\ ~fault']_vars
  BY ClosureStep
<1> QED BY <1>1, Invariance, PTL DEF Spec, ReopensOnlyWhenGateOpen

------------------------------------------------------------------------------
(* The controller implements Crossing *)

Flow == {a \in Approach : vehicle[a] # "RED"}

(* Which roads have a head that is not red. *)
LEMMA FlowOf ==
  /\ vehicle = AllAre("RED") => Flow = {}
  /\ vehicle = AllAre("YELLOW") => Flow = Approach
  /\ \A a \in Approach : vehicle = OnlyGreen(a) => Flow = {a}
  /\ \A a \in Approach : vehicle = [OnlyGreen(a) EXCEPT ![a] = "YELLOW"] => Flow = {a}
  BY DEF Flow, AllAre, OnlyGreen

(* Outside the railway's steps at most one road is released. *)
LEMMA OneRoad ==
  IInv /\ ~RailActive => Flow \in {{}} \cup {{a} : a \in Approach}
<1> SUFFICES ASSUME IInv, ~RailActive PROVE Flow \in {{}} \cup {{a} : a \in Approach}
  OBVIOUS
<1>1. /\ HeadsOfStep /\ step \in Step /\ step \notin RailStep
  BY DEF IInv, TypeOK, RailActive
<1>2. \/ vehicle = AllAre("RED")
      \/ \E a \in Approach : \/ vehicle = OnlyGreen(a)
                            \/ vehicle = [OnlyGreen(a) EXCEPT ![a] = "YELLOW"]
  <2>1. CASE step \in AllRedSteps
    BY <1>1, <2>1 DEF HeadsOfStep
  <2>2. ASSUME NEW a \in Approach, step \in {Green(a), Yellow(a)}
        PROVE  vehicle = OnlyGreen(a) \/ vehicle = [OnlyGreen(a) EXCEPT ![a] = "YELLOW"]
    BY <1>1, <2>2 DEF HeadsOfStep
  <2>3. CASE step = "OVERRIDE_HOLD"
    BY <1>1, <2>3 DEF HeadsOfStep, Approach
  <2>4. \/ step \in AllRedSteps \cup {"OVERRIDE_HOLD"}
        \/ \E a \in Approach : step \in {Green(a), Yellow(a)}
    BY <1>1 DEF HeadsOfStep, AllRedSteps, Green, Yellow, Approach, Step, VehicleStep, PedStep
  <2> QED BY <2>1, <2>2, <2>3, <2>4
<1> QED BY <1>2, FlowOf

LEMMA FlowOfNext ==
  (/\ vehicle = AllAre("RED") => Flow = {}
   /\ vehicle = AllAre("YELLOW") => Flow = Approach
   /\ \A a \in Approach : vehicle = OnlyGreen(a) => Flow = {a})'
  BY FlowOf, PTL

LEMMA OneRoadNext ==
  (IInv /\ ~RailActive => Flow \in {{}} \cup {{a} : a \in Approach})'
  BY OneRoad, PTL

(* Steps of the tasks that are not the controller change nothing the       *)
(* crossing shows.                                                         *)
LEMMA OthersStutter ==
  ASSUME TimerFires \/ DrainReports \/ Inputs \/ GateTask \/ Server
  PROVE  UNCHANGED <<step, vehicle, gate_state, train_signal>>
<1>1. TimerFires \/ DrainReports \/ Inputs => UNCHANGED inputFrame
  BY DEF TimerFires, DrainReports, Inputs, PressPedestrian, TrainApproaches, TrainClears,
         ArmGateFault, DetectVehicle, ClockReaches
<1>2. Server => UNCHANGED serverFrame
  BY DEF Server, ServerAcceptsOverride, ServerAcceptsModeSwitch, ServerLatches,
         ServerWakesController
<1>3. GateTask => UNCHANGED <<step, heads, crossing>>
  BY DEF GateTask, GateStartsMoving, GateReports
<1> QED BY <1>1, <1>2, <1>3 DEF inputFrame, serverFrame, heads, crossing

(* A step that leaves what the crossing shows alone, and one that only     *)
(* changes which road is released while the crossing is open.              *)
LEMMA Stutters ==
  ASSUME UNCHANGED <<vehicle, gate_state, train_signal>>, RailActive' = RailActive
  PROVE  UNCHANGED Guarded!state
  BY DEF Guarded!state

LEMMA Serves ==
  ASSUME IInv', ~RailActive, ~RailActive', UNCHANGED <<gate_state, train_signal>>
  PROVE  Guarded!Serve
<1>1. Flow' \in {{}} \cup {{a} : a \in Approach}
  BY OneRoadNext
<1>2. {{a} : a \in Approach} = {{r} : r \in Guarded!Road}
  BY DEF Approach, Guarded!Road
<1>3. UNCHANGED RailActive
  BY DEF RailActive
<1> QED BY <1>1, <1>2, <1>3 DEF Flow, Guarded!Serve

(* The railway's own steps: Clear, Lower, Raise, or nothing to be seen. *)
LEMMA RailwayImplements ==
  ASSUME IInv, IInv', AdvanceRailway
  PROVE  Guarded!Next \/ UNCHANGED Guarded!state
<1>1. RailActive /\ RailActive'
  BY DEF AdvanceRailway, AdvanceRailYellow, AdvanceRailAllRed, AdvancePrearrival, AdvanceWarn,
         Rearm, AdvanceGateFault, AdvanceOccupied, AdvancePostHold, EnterStep, EnterStepFor,
         RailActive, RailStep, IInv, HeadsOfStep
<1>2. /\ step = "RAIL_YELLOW" => gate_state = "OPEN"
      /\ step \in {"RAIL_WARN", "RAIL_GATE_FAULT"} =>
           gate_state \in {"OPEN", "TIMEOUT_FAULT"} /\ vehicle = AllAre("RED")
      /\ step = "RAIL_POST_HOLD" => gate_state = "LOCKED"
  <2>1. GateOfStep /\ HeadsOfStep
    BY DEF IInv
  <2> QED BY <2>1 DEF GateOfStep, HeadsOfStep, GateSteps, AllRedSteps, Step, RailStep
<1>3. CASE AdvanceRailYellow
  <2>1. Flow' = {}
    BY <1>3, FlowOfNext DEF AdvanceRailYellow
  <2> QED BY <1>1, <1>2, <1>3, <2>1
          DEF AdvanceRailYellow, crossing, Flow, Guarded!Next, Guarded!Clear
<1>4. CASE AdvanceRailAllRed \/ AdvancePrearrival \/ Rearm \/ AdvanceOccupied
  BY <1>1, <1>4, Stutters
  DEF AdvanceRailAllRed, AdvancePrearrival, Rearm, AdvanceOccupied, crossing
<1>5. CASE AdvanceWarn \/ AdvanceGateFault
  <2>1. Flow = {} /\ gate_state \in {"OPEN", "TIMEOUT_FAULT"}
    BY <1>2, <1>5, FlowOf DEF AdvanceWarn, AdvanceGateFault
  <2>2. gate_state' = "LOWERING" /\ UNCHANGED <<vehicle, train_signal>>
    BY <1>5 DEF AdvanceWarn, AdvanceGateFault, BeginClose, RetryClose
  <2> QED BY <1>1, <2>1, <2>2 DEF Flow, Guarded!Next, Guarded!Lower
<1>6. CASE AdvancePostHold
  BY <1>1, <1>2, <1>6 DEF AdvancePostHold, BeginOpen, Guarded!Next, Guarded!Raise
<1> QED BY <1>3, <1>4, <1>5, <1>6 DEF AdvanceRailway

(* The gate's reports: Lock, FailToLock and Reopen. *)
LEMMA GateStatusImplements ==
  ASSUME IInv, HandleGateStatus
  PROVE  Guarded!Next
<1> DEFINE p == Head(pulses)
<1>1. /\ 1 \in Reports /\ p = pulses[1] /\ p \in Pulse
  BY ReceivedStatus DEF HandleGateStatus, IInv, TypeOK, GateOfStep, Reports
<1>2. /\ step \in {"RAIL_GATE_LOWER", "RAIL_GATE_RAISE"}
      /\ p.closing = (step = "RAIL_GATE_LOWER") /\ (p.closing \/ p.ok)
  BY <1>1 DEF IInv, GateOfStep, AwaitedReportComes, Reports
<1>3. OnGateStatus(p)
  BY DEF HandleGateStatus
<1>4. /\ step = "RAIL_GATE_LOWER" => gate_state = "LOWERING"
      /\ step = "RAIL_GATE_RAISE" => gate_state = "RAISING" /\ ~fault
      /\ train_signal = IF fault THEN "RED" ELSE "CLEAR"
  BY DEF IInv, GateOfStep, FaultStopsTrain, SignalsOfStep
<1> HIDE DEF p
<1>5. RailActive
  BY <1>2 DEF RailActive, RailStep
<1>6. CASE step = "RAIL_GATE_LOWER" /\ OnLocked
  <2>1. /\ step' = "RAIL_OCCUPIED" /\ gate_state' = "LOCKED" /\ train_signal' = "CLEAR"
        /\ UNCHANGED vehicle
    BY <1>6 DEF OnLocked, EnterStep, EnterStepFor, heads
  <2>2. RailActive'
    BY <2>1 DEF RailActive, RailStep
  <2> QED BY <1>4, <1>5, <1>6, <2>1, <2>2 DEF Guarded!Next, Guarded!Lock
<1>7. CASE step = "RAIL_GATE_LOWER" /\ OnCloseFailed
  <2>1. /\ step' = "RAIL_GATE_FAULT" /\ gate_state' = "TIMEOUT_FAULT"
        /\ train_signal' = "RED" /\ UNCHANGED vehicle
    BY <1>7 DEF OnCloseFailed, EnterStep, EnterStepFor, heads
  <2>2. RailActive'
    BY <2>1 DEF RailActive, RailStep
  <2> QED BY <1>4, <1>5, <1>7, <2>1, <2>2 DEF Guarded!Next, Guarded!FailToLock
<1>8. CASE step = "RAIL_GATE_RAISE" /\ p.ok /\ OnOpened(p.ok)
  <2>1. /\ step' = "NS_GREEN" /\ gate_state' = "OPEN" /\ train_signal' = "CLEAR"
        /\ vehicle' = OnlyGreen("NS")
    BY <1>8 DEF OnOpened, BeginGreen, Green, EnterStep, EnterStepFor
  <2>2. ~RailActive'
    BY <2>1 DEF RailActive, RailStep
  <2>3. Flow' = {"NS"}
    BY <2>1, FlowOfNext DEF Approach
  <2>4. train_signal = "CLEAR" /\ gate_state = "RAISING"
    BY <1>4, <1>8
  <2> QED BY <2>1, <2>2, <2>3, <2>4 DEF Flow, Guarded!Next, Guarded!Reopen
<1> QED BY <1>2, <1>3, <1>6, <1>7, <1>8 DEF OnGateStatus

LEMMA StepImplements == IInv /\ IInv' /\ [Next]_vars => [Guarded!Next]_(Guarded!state)
<1> SUFFICES ASSUME IInv, IInv', [Next]_vars
             PROVE  Guarded!Next \/ UNCHANGED Guarded!state
  OBVIOUS
<1>1. CASE UNCHANGED <<step, vehicle, gate_state, train_signal>>
  BY <1>1, Stutters DEF RailActive
<1>2. CASE AdvanceRailway
  BY <1>2, RailwayImplements
<1>3. CASE HandleGateStatus
  BY <1>3, GateStatusImplements
<1>4. CASE AdvanceTraffic
  <2>1. ~RailActive /\ ~RailActive'
    BY <1>4
    DEF AdvanceTraffic, AdvanceGreen, AdvanceYellow, BeginWalk, AdvanceAllRed,
        AdvanceOverrideHold, AdvanceWalk, AdvanceClearance, BeginGreen, EnterStep,
        EnterStepFor, Green, Yellow, AllRed, Other, Approach, RailActive, RailStep
  <2> QED BY <1>4, <2>1, Serves DEF AdvanceTraffic, crossing, Guarded!Next
<1>5. CASE HandleCommands
  <2>1. CASE override # None /\ MayOverride
    <3>1. ~RailActive /\ step' = "OVERRIDE_HOLD"
      BY <1>5, <2>1
      DEF HandleCommands, ApplyCommands, MayOverride, ForceHeads, EnterStep, EnterStepFor
    <3>2. ~RailActive'
      BY <3>1 DEF RailActive, RailStep
    <3> QED BY <1>5, <3>1, <3>2, Serves
            DEF HandleCommands, ApplyCommands, crossing, Guarded!Next
  <2>2. CASE ~(override # None /\ MayOverride)
    BY <1>1, <1>5, <2>2 DEF HandleCommands, ApplyCommands, crossing
  <2> QED BY <2>1, <2>2
<1>6. CASE HandleApproach
  <2>1. CASE RailActive
    BY <1>1, <1>6, <2>1 DEF HandleApproach, OnApproach, heads, crossing
  <2>2. CASE ~RailActive
    <3>1. /\ step' = "RAIL_YELLOW" /\ vehicle' = AllAre("YELLOW")
          /\ train_signal' = "CLEAR" /\ UNCHANGED gate_state
      BY <1>6, <2>2 DEF HandleApproach, OnApproach, BeginProtection, EnterStep, EnterStepFor
    <3>2. train_signal = "CLEAR"
      <4>1. ~fault /\ train_signal = IF fault THEN "RED" ELSE "CLEAR"
        BY <2>2 DEF IInv, FaultStopsTrain, SignalsOfStep, RailActive, RailStep
      <4> QED BY <4>1
    <3>3. RailActive' /\ Flow' = Approach
      BY <3>1, FlowOfNext DEF RailActive, RailStep
    <3> QED BY <2>2, <3>1, <3>2, <3>3
            DEF Flow, Approach, Guarded!Next, Guarded!Close, Guarded!Road
  <2> QED BY <2>1, <2>2
<1>7. CASE HandleCleared
  BY <1>1, <1>7 DEF HandleCleared, OnCleared, heads, crossing
<1>8. CASE HandleTick
  BY <1>1, <1>2, <1>4, <1>8 DEF HandleTick, TickRunsOn, TickEndsStep, heads, crossing
<1>9. CASE TimerFires \/ DrainReports \/ Inputs \/ GateTask \/ Server
  BY <1>1, <1>9, OthersStutter
<1>10. CASE UNCHANGED vars
  BY <1>1, <1>10 DEF vars, heads, crossing
<1> QED BY <1>3, <1>5, <1>6, <1>7, <1>8, <1>9, <1>10 DEF Next, PhaseController

(* What the controller shows on its heads, its gate and its train light is *)
(* a behaviour of the abstract crossing.                                   *)
THEOREM Implements == Spec => ImplementsCrossing
<1>1. Init => Guarded!Init
  <2>1. Init => Flow = {"NS"}
    BY FlowOf DEF Init, Approach
  <2> QED BY <2>1 DEF Init, Flow, Guarded!Init, RailActive, RailStep
<1> QED BY <1>1, StepImplements, Invariance, PTL DEF Spec, ImplementsCrossing, Guarded!Spec

------------------------------------------------------------------------------
(* An accepted command reaches the controller *)

(* A queued pulse stays queued until its own handler takes it. *)
LEMMA StaysQueued ==
  ASSUME pulses \in Seq(Pulse), NEW c, Queued(c) # {},
         \/ UNCHANGED pulses
         \/ \E p \in Pulse : SendPulse(p)
         \/ \E d : d # c /\ Receive(d)
  PROVE  Queued(c)' # {}
<1>1. PICK i \in DOMAIN pulses : pulses[i].code = c
  BY DEF Queued
<1>2. CASE UNCHANGED pulses
  BY <1>1, <1>2 DEF Queued
<1>3. ASSUME NEW p \in Pulse, SendPulse(p) PROVE Queued(c)' # {}
  <2>1. pulses' = Append(pulses, p)
    BY <1>3 DEF SendPulse
  <2>2. i \in DOMAIN pulses' /\ pulses'[i] = pulses[i]
    BY <1>1, <2>1
  <2> QED BY <1>1, <2>2 DEF Queued
<1>4. ASSUME NEW d, d # c, Receive(d) PROVE Queued(c)' # {}
  <2>1. pulses # <<>> /\ pulses' = Tail(pulses) /\ pulses[1].code = d
    BY <1>4, Received DEF Receive
  <2>2. i # 1
    BY <1>1, <1>4, <2>1
  <2>3. i - 1 \in DOMAIN pulses' /\ pulses'[i - 1] = pulses[i]
    BY <1>1, <2>1, <2>2
  <2> QED BY <1>1, <2>3 DEF Queued
<1> QED BY <1>2, <1>3, <1>4

(* A pulse that is sent is queued. *)
LEMMA IsQueued ==
  ASSUME pulses \in Seq(Pulse), NEW p \in Pulse, SendPulse(p)
  PROVE  Queued(p.code)' # {}
<1>1. pulses' = Append(pulses, p)
  BY DEF SendPulse
<1>2. Len(pulses) + 1 \in DOMAIN pulses' /\ pulses'[Len(pulses) + 1] = p
  BY <1>1
<1> QED BY <1>2 DEF Queued

LEMMA NextKeepsCommand ==
  TypeOK /\ NoCommandStranded /\ [Next]_vars => NoCommandStranded'
<1> SUFFICES ASSUME TypeOK, NoCommandStranded, [Next]_vars,
                    override' # None \/ mode_switch' # None
             PROVE  server'.at = "latched" \/ Queued("CC_COMMAND_READY")' # {}
  BY DEF NoCommandStranded
<1>0. pulses \in Seq(Pulse)
  BY DEF TypeOK
<1>1. CASE ServerLatches
  <2>1. server' = [server EXCEPT !.at = "latched"]
    BY <1>1 DEF ServerLatches
  <2> QED BY <2>1 DEF TypeOK
<1>2. CASE ServerWakesController
  <2>1. Plain("CC_COMMAND_READY") \in Pulse /\ Plain("CC_COMMAND_READY").code = "CC_COMMAND_READY"
    BY DEF Plain, Pulse, PulseCode
  <2> QED BY <1>0, <1>2, <2>1, IsQueued DEF ServerWakesController
<1>3. CASE HandleCommands
  BY <1>3 DEF HandleCommands, ApplyCommands
<1>4. CASE /\ UNCHANGED <<override, mode_switch>>
           /\ server'.at = "latched" \/ server.at # "latched"
           /\ \/ UNCHANGED pulses
              \/ \E p \in Pulse : SendPulse(p)
              \/ \E d : d # "CC_COMMAND_READY" /\ Receive(d)
  BY <1>0, <1>4, StaysQueued DEF NoCommandStranded
<1>5. CASE HandleTick \/ HandleApproach \/ HandleCleared \/ HandleGateStatus
  BY <1>4, <1>5
  DEF HandleTick, HandleApproach, HandleCleared, HandleGateStatus, commands, controllerFrame
<1>6. CASE TimerFires \/ DrainReports \/ Inputs
  <2>1. \A c \in PulseCode : Plain(c) \in Pulse
    BY DEF Plain, Pulse
  <2>2. UNCHANGED inputFrame
    BY <1>6 DEF TimerFires, DrainReports, Inputs, PressPedestrian, TrainApproaches,
                TrainClears, ArmGateFault, DetectVehicle, ClockReaches
  <2>3. UNCHANGED pulses \/ \E c \in PulseCode : SendPulse(Plain(c))
    BY <1>6 DEF TimerFires, DrainReports, Inputs, PressPedestrian, TrainApproaches,
                TrainClears, ArmGateFault, DetectVehicle, ClockReaches, PulseCode
  <2> QED BY <1>4, <2>1, <2>2, <2>3 DEF inputFrame, commands
<1>7. CASE GateTask
  <2>1. UNCHANGED pulses \/ \E p \in Pulse : SendPulse(p)
    BY <1>7 DEF GateTask, GateStartsMoving, GateReports, Pulse, PulseCode, TypeOK
  <2> QED BY <1>4, <1>7, <2>1 DEF GateTask, GateStartsMoving, GateReports, commands
<1>8. CASE \/ \E o \in Overrides : ServerAcceptsOverride(o)
           \/ \E m \in ModeSwitches : ServerAcceptsModeSwitch(m)
  BY <1>4, <1>8 DEF ServerAcceptsOverride, ServerAcceptsModeSwitch, commands
<1>9. CASE UNCHANGED vars
  BY <1>4, <1>9 DEF vars, commands
<1> QED BY <1>1, <1>2, <1>3, <1>5, <1>6, <1>7, <1>8, <1>9 DEF Next, PhaseController, Server

(* While a command is latched, the pulse that applies it is on its way.    *)
THEOREM CommandsReachController == Spec => []NoCommandStranded
<1>1. Init => NoCommandStranded
  BY DEF Init, NoCommandStranded
<1> QED BY <1>1, NextKeepsCommand, TypeCorrect, PTL DEF Spec

------------------------------------------------------------------------------
(* The minimum green *)

(* The flag is raised only once the minimum has run. *)
MinGreenInv ==
  \A a \in Approach : step = Green(a) /\ min_green_elapsed => Duration[step] - countdown >= MinGreen

(* A step that ends a countdown, or leaves the step alone. *)
LEMMA TickCases ==
  ASSUME IInv, Next, step \in {"NS_GREEN", "EW_GREEN"}
  PROVE  \/ HandleTick /\ TickRunsOn
         \/ HandleTick /\ Remaining <= 0 /\ (\E a \in Approach : AdvanceGreen(a))
         \/ step' = "RAIL_YELLOW" \/ step' = "OVERRIDE_HOLD"
         \/ UNCHANGED <<step, countdown, vehicle, min_green_elapsed>>
<1>1. CASE HandleTick
  <2>1. ~AdvanceRailway
    BY DEF AdvanceRailway, AdvanceRailYellow, AdvanceRailAllRed, AdvancePrearrival, AdvanceWarn,
           Rearm, AdvanceGateFault, AdvanceOccupied, AdvancePostHold
  <2>2. AdvanceTraffic => \E a \in Approach : AdvanceGreen(a)
    BY DEF AdvanceTraffic, AdvanceYellow, BeginWalk, AdvanceAllRed, AdvanceOverrideHold,
           AdvanceWalk, AdvanceClearance, Yellow, AllRed
  <2> QED BY <1>1, <2>1, <2>2 DEF HandleTick, TickEndsStep
<1>2. CASE HandleApproach
  BY <1>2 DEF HandleApproach, OnApproach, BeginProtection, EnterStep, EnterStepFor, heads
<1>3. CASE HandleCleared
  BY <1>3 DEF HandleCleared, OnCleared, heads
<1>4. CASE HandleCommands
  BY <1>4 DEF HandleCommands, ApplyCommands, ForceHeads, EnterStep, EnterStepFor
<1>5. ~HandleGateStatus
  <2> SUFFICES ASSUME HandleGateStatus PROVE FALSE
    OBVIOUS
  <2>1. 1 \in Reports
    BY ReceivedStatus DEF HandleGateStatus, IInv, TypeOK, GateOfStep, Reports
  <2> QED BY <2>1 DEF IInv, GateOfStep, Reports
<1>6. CASE TimerFires \/ DrainReports \/ Inputs
  BY <1>6 DEF TimerFires, DrainReports, Inputs, PressPedestrian, TrainApproaches, TrainClears,
              ArmGateFault, DetectVehicle, ClockReaches, inputFrame, heads
<1>7. CASE GateTask \/ Server
  BY <1>7 DEF GateTask, GateStartsMoving, GateReports, Server, ServerAcceptsOverride,
              ServerAcceptsModeSwitch, ServerLatches, ServerWakesController, serverFrame, heads
<1> QED BY <1>1, <1>2, <1>3, <1>4, <1>5, <1>6, <1>7 DEF Next, PhaseController

(* What the prelude and the end of a green mean for the time it ran. *)
LEMMA GreenTime ==
  ASSUME IInv, MinGreenInv, NEW a \in Approach, step = Green(a)
  PROVE  /\ countdown \in Nat \ {0} /\ Duration[step] \in Nat
         /\ MinGreenNow => Duration[step] - (countdown - 1) >= MinGreen
         /\ Remaining > 0 => Remaining = countdown - 1
         /\ Remaining <= 0 =>
              \/ countdown = 1
              \/ MinGreenNow /\ ScheduledMode = "SENSOR_DRIVEN" /\ ~demand[a]
<1>1. countdown \in Nat /\ step \in Step
  BY DEF IInv, TypeOK
<1>2. countdown > 0
  BY DEF IInv, SignalsOfStep, Green
<1>3. Duration[step] \in Nat /\ MinGreen \in Nat
  BY <1>1, Lasts, DurationAssumption
<1>4. MinGreenNow => Duration[step] - (countdown - 1) >= MinGreen
  BY <1>1, <1>2, <1>3 DEF MinGreenNow, MinGreenInv
<1>5. \A b \in Approach : EndsEarly(b) => b = a
  BY DEF EndsEarly, Watched, Green, Approach
<1>6. Remaining > 0 => Remaining = countdown - 1
  BY DEF Remaining
<1>7. Remaining <= 0 => countdown = 1 \/ EndsEarly(a)
  BY <1>1, <1>2, <1>5 DEF Remaining
<1>8. EndsEarly(a) => MinGreenNow /\ ScheduledMode = "SENSOR_DRIVEN" /\ ~demand[a]
  BY DEF EndsEarly, Watched
<1>9. countdown \in Nat \ {0}
  BY <1>1, <1>2
<1>10. Remaining <= 0 =>
         \/ countdown = 1
         \/ MinGreenNow /\ ScheduledMode = "SENSOR_DRIVEN" /\ ~demand[a]
  BY <1>7, <1>8
<1> QED BY <1>3, <1>4, <1>6, <1>9, <1>10

LEMMA MinGreenStep ==
  IInv /\ IInv' /\ MinGreenInv /\ [Next]_vars => MinGreenInv'
<1> SUFFICES ASSUME IInv, IInv', MinGreenInv, [Next]_vars,
                    NEW a \in Approach, step' = Green(a), min_green_elapsed'
             PROVE  Duration[step'] - countdown' >= MinGreen
  BY DEF MinGreenInv
<1>1. CASE UNCHANGED <<step, countdown, vehicle, min_green_elapsed>>
  BY <1>1 DEF MinGreenInv
<1>2. CASE HandleTick /\ TickRunsOn
  <2>1. step = Green(a) /\ MinGreenNow /\ countdown' = Remaining /\ Remaining > 0
    BY <1>2 DEF TickRunsOn
  <2> QED BY <1>2, <2>1, GreenTime DEF TickRunsOn
<1>3. CASE step \in {"NS_GREEN", "EW_GREEN"} /\ Next
  <2>1. ~(\E b \in Approach : AdvanceGreen(b))
    BY DEF AdvanceGreen, EnterStep, EnterStepFor, Green, Yellow
  <2> QED BY <1>1, <1>2, <1>3, <2>1, TickCases DEF Green
<1>4. CASE step \notin {"NS_GREEN", "EW_GREEN"} /\ Next
  <2>1. step' # step
    BY <1>4 DEF Green
  <2>2. ASSUME NEW b \in Approach, NEW arr, BeginGreen(b, arr) PROVE FALSE
    BY <2>2 DEF BeginGreen
  <2>3. ~AdvanceRailway
    BY DEF AdvanceRailway, AdvanceRailYellow, AdvanceRailAllRed, AdvancePrearrival, AdvanceWarn,
           Rearm, AdvanceGateFault, AdvanceOccupied, AdvancePostHold, EnterStep, EnterStepFor,
           Green
  <2>4. ~AdvanceTraffic
    BY <2>2
    DEF AdvanceTraffic, AdvanceGreen, AdvanceYellow, BeginWalk, AdvanceAllRed,
        AdvanceOverrideHold, AdvanceWalk, AdvanceClearance, EnterStep, EnterStepFor,
        Approach, Other, Green, Yellow, AllRed
  <2>5. ~HandleGateStatus
    BY <2>1, <2>2
    DEF HandleGateStatus, OnGateStatus, OnLocked, OnCloseFailed, OnOpened, EnterStep,
        EnterStepFor, Approach, Green
  <2>6. ~(HandleApproach \/ HandleCleared \/ HandleCommands)
    BY <2>1
    DEF HandleApproach, OnApproach, BeginProtection, HandleCleared, OnCleared,
        HandleCommands, ApplyCommands, ForceHeads, EnterStep, EnterStepFor, Green
  <2>7. ~(TimerFires \/ DrainReports \/ Inputs \/ GateTask \/ Server)
    BY <2>1, OthersStutter
  <2>8. ~HandleTick
    BY <2>1, <2>3, <2>4 DEF HandleTick, TickRunsOn, TickEndsStep
  <2> QED BY <1>4, <2>5, <2>6, <2>7, <2>8 DEF Next, PhaseController
<1>5. CASE UNCHANGED vars
  BY <1>1, <1>5 DEF vars, heads
<1> QED BY <1>3, <1>4, <1>5

(* A green runs its time, or its minimum with nobody waiting, whatever     *)
(* mode switches and demand changes happen while it runs.                  *)
THEOREM GreenRunsItsMinimum == Spec => MinGreenKept
<1>1. Init => MinGreenInv
  BY DEF Init, MinGreenInv
<1>2. IInv /\ MinGreenInv /\ [Next]_vars =>
        [\A a \in Approach : step = Green(a) /\ step' = Yellow(a) =>
           \/ countdown = 1
           \/ /\ Duration[Green(a)] - countdown + 1 >= MinGreen
              /\ mode' = "SENSOR_DRIVEN" /\ ~demand[a]]_vars
  <2> SUFFICES ASSUME IInv, MinGreenInv, Next, NEW a \in Approach,
                      step = Green(a), step' = Yellow(a)
               PROVE  \/ countdown = 1
                      \/ /\ Duration[Green(a)] - countdown + 1 >= MinGreen
                         /\ mode' = "SENSOR_DRIVEN" /\ ~demand[a]
    OBVIOUS
  <2>1. HandleTick /\ Remaining <= 0
    BY TickCases DEF TickRunsOn, Green, Yellow
  <2>2. mode' = ScheduledMode
    BY <2>1 DEF HandleTick, ModeScheduleTick
  <2>3. MinGreen \in Nat
    BY DurationAssumption
  <2> QED BY <2>1, <2>2, <2>3, GreenTime
<1> QED BY <1>1, <1>2, MinGreenStep, Invariance, PTL DEF Spec, MinGreenKept

------------------------------------------------------------------------------
(* The all-red interval *)

(* Who turns a head green finds both roads red, unless it is an override.  *)
LEMMA GreenAfterAllRed ==
  ASSUME IInv, Next, NEW a \in Approach,
         vehicle[a] # "RED", vehicle'[Other(a)] = "GREEN", "OVERRIDE_HOLD" \notin {step, step'}
  PROVE  FALSE
<1>1. HeadsOfStep /\ step \in Step
  BY DEF IInv, TypeOK
<1>2. step \notin AllRedSteps /\ step # "OVERRIDE_HOLD"
  BY <1>1 DEF HeadsOfStep, AllAre
<1>3. vehicle[Other(a)] # "GREEN"
  <2>1. \/ step = "RAIL_YELLOW"
        \/ \E b \in Approach : step \in {Green(b), Yellow(b)}
    BY <1>1, <1>2 DEF HeadsOfStep, AllRedSteps, Green, Yellow, Approach, Step, VehicleStep,
                      PedStep, RailStep
  <2>2. CASE step = "RAIL_YELLOW"
    BY <1>1, <2>2 DEF HeadsOfStep, AllAre, Other, Approach
  <2>3. ASSUME NEW b \in Approach, step \in {Green(b), Yellow(b)}
        PROVE  vehicle[Other(a)] # "GREEN"
    BY <1>1, <2>3 DEF HeadsOfStep, OnlyGreen, Other, Approach
  <2> QED BY <2>1, <2>2, <2>3
<1>4. CASE UNCHANGED vehicle
  BY <1>3, <1>4
<1>5. CASE HandleTick /\ TickEndsStep
  <2>1. CASE AdvanceRailway
    <3>1. UNCHANGED vehicle \/ vehicle' = AllAre("RED")
      BY <2>1 DEF AdvanceRailway, AdvanceRailYellow, AdvanceRailAllRed, AdvancePrearrival,
                  AdvanceWarn, Rearm, AdvanceGateFault, AdvanceOccupied, AdvancePostHold
    <3> QED BY <1>4, <3>1 DEF AllAre, Other, Approach
  <2>2. CASE AdvanceTraffic
    <3>1. \/ \E b \in Approach : AdvanceGreen(b)
          \/ \E b \in Approach : AdvanceYellow(b)
      BY <1>2, <2>2
      DEF AdvanceTraffic, BeginWalk, AdvanceAllRed, AdvanceOverrideHold, AdvanceWalk,
          AdvanceClearance, AllRedSteps, AllRed, PedStep, Approach
    <3>2. \E b \in Approach, c \in {"YELLOW", "RED"} : vehicle' = [vehicle EXCEPT ![b] = c]
      BY <3>1 DEF AdvanceGreen, AdvanceYellow
    <3>3. vehicle \in [Approach -> VehicleState] /\ Other(a) \in Approach
      BY DEF IInv, TypeOK, Other, Approach
    <3> QED BY <1>3, <3>2, <3>3
  <2> QED BY <1>5, <2>1, <2>2 DEF TickEndsStep
<1>6. CASE HandleTick /\ TickRunsOn
  BY <1>4, <1>6 DEF TickRunsOn, heads
<1>7. CASE HandleApproach
  BY <1>4, <1>7 DEF HandleApproach, OnApproach, BeginProtection, heads, AllAre, Other, Approach
<1>8. CASE HandleCleared
  BY <1>4, <1>8 DEF HandleCleared, OnCleared, heads
<1>9. CASE HandleCommands
  BY <1>4, <1>9 DEF HandleCommands, ApplyCommands, ForceHeads, EnterStep, EnterStepFor
<1>10. ~HandleGateStatus
  <2> SUFFICES ASSUME HandleGateStatus PROVE FALSE
    OBVIOUS
  <2>1. 1 \in Reports
    BY ReceivedStatus DEF HandleGateStatus, IInv, TypeOK, GateOfStep, Reports
  <2>2. step \in {"RAIL_GATE_LOWER", "RAIL_GATE_RAISE"}
    BY <2>1 DEF IInv, GateOfStep, Reports
  <2> QED BY <1>2, <2>2 DEF AllRedSteps, RailStep
<1>11. CASE TimerFires \/ DrainReports \/ Inputs \/ GateTask \/ Server
  BY <1>4, <1>11, OthersStutter
<1> QED BY <1>5, <1>6, <1>7, <1>8, <1>9, <1>10, <1>11 DEF Next, PhaseController, HandleTick

(* Only an operator's override skips the all-red interval between two      *)
(* roads, whatever trains, crossings and mode changes come between.        *)
THEOREM OnlyOverridesSkipAllRed == Spec => AllRedNotSkipped
<1>1. IInv /\ [Next]_vars =>
        [\A a \in Approach : vehicle[a] # "RED" /\ vehicle'[Other(a)] = "GREEN" =>
           "OVERRIDE_HOLD" \in {step, step'}]_vars
  BY GreenAfterAllRed
<1> QED BY <1>1, Invariance, PTL DEF Spec, AllRedNotSkipped

(* Seen through the mapping: while the boom gate is anywhere but up, the   *)
(* railway has closed the intersection and no vehicle head is released,    *)
(* and a stopped train stands before a gate that is moving or has failed.  *)
THEOREM NobodyUnderBoomGate == Spec => []Guarded!NobodyUnderGate
<1>1. IInv => Guarded!NobodyUnderGate
  <2> SUFFICES ASSUME IInv PROVE Guarded!NobodyUnderGate
    OBVIOUS
  <2>1. HeadsOfStep /\ GateOfStep /\ FaultStopsTrain /\ step \in Step
    BY DEF IInv, TypeOK
  <2>2. gate_state # "OPEN" => RailActive /\ Flow = {}
    <3>1. gate_state # "OPEN" => step \in GateSteps
      BY <2>1 DEF GateOfStep
    <3>2. step \in GateSteps => RailActive /\ vehicle = AllAre("RED")
      BY <2>1 DEF HeadsOfStep, GateSteps, RailActive, RailStep, AllRedSteps
    <3> QED BY <3>1, <3>2, FlowOf
  <2>3. train_signal = "RED" => RailActive /\ gate_state \in {"LOWERING", "TIMEOUT_FAULT"}
    BY <2>1 DEF FaultStopsTrain, GateOfStep, RailActive, RailStep
  <2> QED BY <2>2, <2>3 DEF Flow, Guarded!NobodyUnderGate
<1> QED BY <1>1, Invariance, PTL

================================================================================
