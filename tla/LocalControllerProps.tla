-------------------------- MODULE LocalControllerProps -------------------------
(***************************************************************************)
(* What a local controller promises, and the inductive invariant that      *)
(* shows it.                                                               *)
(***************************************************************************)
EXTENDS LocalController

(* Every variable stays in its range. *)
TypeOK ==
  /\ step \in Step /\ countdown \in Nat
  /\ arrow \in [Approach -> Nat]
  /\ safety \in [rail_active : BOOLEAN, ped_crossing : BOOLEAN]
  /\ vehicle \in [Approach -> VehicleState]
  /\ ped_state \in PedState /\ phase \in Phase /\ min_green_elapsed \in BOOLEAN
  /\ mode \in Mode /\ g_period \in Period /\ sim_period \in Period
  /\ gate_state \in GateState /\ rail_signal \in RailSignal /\ train_signal \in RailSignal
  /\ fault \in BOOLEAN /\ g_close_attempts \in Nat /\ rail_alert \in BOOLEAN
  /\ gate_task \in [at : {"idle", "commanded", "moving"}, closing : BOOLEAN, ok : BOOLEAN]
  /\ gate_fault_armed \in BOOLEAN
  /\ ped_request_pending \in BOOLEAN /\ demand \in [Approach -> BOOLEAN]
  /\ override \in Override \cup {None} /\ mode_switch \in Mode \cup {None}
  /\ server \in [at : {"idle", "accepted", "latched"},
                 override : Override \cup {None}, mode : Mode \cup {None}]
  /\ pulses \in Seq(Pulse)
  /\ reports \subseteq {"STATUS_EVENT", "FAULT_ALARM"}

Queued(c) == {i \in DOMAIN pulses : pulses[i].code = c}

------------------------------------------------------------------------------
(* The vehicle heads and arrows follow the phase table in every step,      *)
(* whatever order trains, overrides, mode changes and crossings come in:   *)
(* none releases a movement its step forbids.  An override shows what the  *)
(* operator asked for instead: at most one road, no arrows                 *)
(* (phase_table.c).  The pedestrian head does not: a train that preempts a *)
(* crossing leaves WALK lit in steps that forbid it, see                   *)
(* NoTrafficWhileWalking.                                                  *)
VehicleHeadsObeyTable ==
  /\ \A a \in Approach :
       /\ vehicle[a] # "RED" => Allows(step, Through(a)) \/ step = "OVERRIDE_HOLD"
       /\ arrow[a] > 0 => Allows(step, Right(a))
  /\ step = "OVERRIDE_HOLD" => \E a \in Approach : vehicle[a] = "RED"

(* While the train is due on the crossing and until the hold after it has  *)
(* run out, the gate is locked and stays so (no move is under way and no   *)
(* outcome of one is still queued), the road is warned and no vehicle head *)
(* or arrow lets anything through.                                         *)
GateDownForTrain ==
  step \in {"RAIL_OCCUPIED", "RAIL_POST_HOLD"} =>
    /\ gate_state = "LOCKED" /\ ~fault
    /\ gate_task.at = "idle" /\ Queued("GATE_STATUS") = {}
    /\ rail_signal = "FLASHING_RED"
    /\ vehicle = AllAre("RED") /\ arrow = ArrowsOff

(* The train light is red exactly while the gate fault is raised, which is *)
(* from a failed close until a lock, retries included; never once the      *)
(* crossing is open to the road.                                           *)
FaultStopsTrain ==
  /\ train_signal = "RED" <=> fault
  /\ fault => step \in {"RAIL_GATE_LOWER", "RAIL_GATE_FAULT"} /\ rail_signal = "FLASHING_RED"
  /\ step = "RAIL_GATE_FAULT" => fault

(* "Nothing in this loop waits on hardware" (local_controller.c): whenever *)
(* the next thing the controller may do is command the gate, the gate task *)
(* is back at its channel and has nothing left to report.                  *)
ControllerNeverWaitsOnGate ==
  step \in {"RAIL_WARN", "RAIL_GATE_FAULT", "RAIL_POST_HOLD"} =>
    gate_task.at = "idle" /\ Queued("GATE_STATUS") = {}

(* The converse: while the controller re-arms its wait for the gate, the   *)
(* one report it waits for is still to come, and it is of that move.       *)
AwaitedReportComes ==
  step \in {"RAIL_GATE_LOWER", "RAIL_GATE_RAISE"} =>
    /\ gate_task.at # "idle" \/ Queued("GATE_STATUS") # {}
    /\ gate_task.at # "idle" => gate_task.closing = (step = "RAIL_GATE_LOWER")
    /\ \A i \in Queued("GATE_STATUS") : pulses[i].closing = (step = "RAIL_GATE_LOWER")

(* A close sequence counts its attempts from one, never past the maximum,  *)
(* and leaves no count behind for the next train.                          *)
CloseAttemptsBounded ==
  /\ g_close_attempts <= MaxCloseAttempts
  /\ g_close_attempts # 0 <=> step \in {"RAIL_GATE_LOWER", "RAIL_GATE_FAULT"}

(* No accepted command is stranded: while a slot is full, the pulse that   *)
(* empties it is queued or the server is about to send it.                 *)
NoCommandStranded ==
  override # None \/ mode_switch # None =>
    server.at = "latched" \/ Queued("CC_COMMAND_READY") # {}

------------------------------------------------------------------------------
(* The closure runs through its steps in order: no override, key, tick or  *)
(* late pulse skips one, goes back, or leaves before the gate has opened.  *)
ClosureMoves ==
  {<<"RAIL_YELLOW", "RAIL_ALLRED">>,         <<"RAIL_ALLRED", "RAIL_PREARRIVAL">>,
   <<"RAIL_PREARRIVAL", "RAIL_WARN">>,       <<"RAIL_WARN", "RAIL_GATE_LOWER">>,
   <<"RAIL_GATE_LOWER", "RAIL_OCCUPIED">>,   <<"RAIL_GATE_LOWER", "RAIL_GATE_FAULT">>,
   <<"RAIL_GATE_FAULT", "RAIL_GATE_LOWER">>, <<"RAIL_OCCUPIED", "RAIL_POST_HOLD">>,
   <<"RAIL_POST_HOLD", "RAIL_GATE_RAISE">>,  <<"RAIL_GATE_RAISE", "NS_GREEN">>}
ClosureInOrder == [][RailActive => step' = step \/ <<step, step'>> \in ClosureMoves]_vars

(* The road is only released in a step in which the gate reports open, and *)
(* with the crossing lights out and no fault left.                         *)
ReopensOnlyWhenGateOpen ==
  [][RailActive /\ ~RailActive' =>
       gate_state = "RAISING" /\ gate_state' = "OPEN" /\ rail_signal' = "CLEAR" /\ ~fault']_vars

(* Whatever the mode, and however often it was switched meanwhile, a green *)
(* turns yellow only after it ran its time out or, in sensor mode, ran its *)
(* minimum with nobody on its approach.                                    *)
MinGreenKept ==
  [][\A a \in Approach : step = Green(a) /\ step' = Yellow(a) =>
       \/ countdown = 1
       \/ /\ Duration[Green(a)] - countdown + 1 >= MinGreen
          /\ mode' = "SENSOR_DRIVEN" /\ ~demand[a]]_vars

(* No road gets green in a step that finds the other still green or        *)
(* yellow: trains, crossings, mode changes and the end of a closure all    *)
(* come through the all-red interval (fixed_timing.c).  Only an override   *)
(* skips it, to a green when its hold begins, and back to NS green when it *)
(* ends.                                                                   *)
AllRedNotSkipped ==
  [][\A a \in Approach : vehicle[a] # "RED" /\ vehicle'[Other(a)] = "GREEN" =>
       "OVERRIDE_HOLD" \in {step, step'}]_vars

(* The pedestrian head shows WALK or CLEARANCE only while every vehicle    *)
(* head is red and no arrow runs (phase_table.c, "never during a           *)
(* pedestrian crossing").  A train that preempts a crossing breaks it.     *)
NoTrafficWhileWalking ==
  ped_state # "DONT_WALK" => vehicle = AllAre("RED") /\ arrow = ArrowsOff

(* "Train approaching; starts railway protection" (README): every approach *)
(* the sensor reports gets its time on a closed crossing.                  *)
EveryTrainProtected == Queued("TRAIN_APPROACH") # {} ~> step = "RAIL_OCCUPIED"

(* The controller implements the crossing it is there to guard. *)
Guarded == INSTANCE Crossing WITH
  flow    <- {a \in Approach : vehicle[a] # "RED"},
  closed  <- RailActive,
  barrier <- gate_state,
  train   <- IF train_signal = "RED" THEN "STOP" ELSE "PROCEED"
ImplementsCrossing == Guarded!Spec

------------------------------------------------------------------------------
(* Every closure ends and the road is released again, if from some time on *)
(* no gate fault is forced by hand.                                        *)
ProtectionEnds == <>[](~gate_fault_armed) => (RailActive ~> ~RailActive)

(* An approach that finds the crossing open is protected in the end: the   *)
(* gate locks, through faults, retries and whatever else is queued.        *)
ApproachProtected ==
  <>[](~gate_fault_armed) =>
    (step = "RAIL_YELLOW" ~> step = "RAIL_OCCUPIED" /\ gate_state = "LOCKED")

(* A latched pedestrian request gets its whole crossing, WALK and          *)
(* CLEARANCE, even if trains cut earlier attempts short, as long as trains *)
(* and overrides do not come for ever.                                     *)
PedestrianServed ==
  <>[](~RailActive /\ step # "OVERRIDE_HOLD") =>
    (ped_request_pending ~> step = "PED_CLEARANCE")

(* A latched command leaves its slot. *)
CommandsApplied == override # None \/ mode_switch # None
                     ~> override = None /\ mode_switch = None

------------------------------------------------------------------------------
(* The inductive invariant: how every other variable depends on the step.  *)

AllRedSteps == {"NS_ALLRED", "EW_ALLRED"} \cup PedStep \cup (RailStep \ {"RAIL_YELLOW"})

HeadsOfStep ==
  /\ \A a \in Approach :
       /\ step = Green(a)  => vehicle = OnlyGreen(a)
       /\ step = Yellow(a) => vehicle = [OnlyGreen(a) EXCEPT ![a] = "YELLOW"]
       /\ arrow[a] > 0 => step \in {"NS_GREEN", "EW_GREEN"}
  /\ step \in AllRedSteps => vehicle = AllAre("RED")
  /\ step = "RAIL_YELLOW" => vehicle = AllAre("YELLOW")
  /\ step = "OVERRIDE_HOLD" =>
       vehicle \in {AllAre("RED"), OnlyGreen("NS"), OnlyGreen("EW")}
  /\ step # "FAILSAFE"

GateSteps == {"RAIL_GATE_LOWER", "RAIL_GATE_FAULT", "RAIL_OCCUPIED",
              "RAIL_POST_HOLD", "RAIL_GATE_RAISE"}

GateOfStep ==
  /\ step = "RAIL_GATE_LOWER" => gate_state = "LOWERING"
  /\ step = "RAIL_GATE_FAULT" => gate_state = "TIMEOUT_FAULT"
  /\ step \in {"RAIL_OCCUPIED", "RAIL_POST_HOLD"} => gate_state = "LOCKED"
  /\ step = "RAIL_GATE_RAISE" => gate_state = "RAISING"
  /\ step \in Step \ GateSteps => gate_state = "OPEN"
  /\ step \notin {"RAIL_GATE_LOWER", "RAIL_GATE_RAISE"} =>
       gate_task.at = "idle" /\ Queued("GATE_STATUS") = {}
  /\ gate_task.at # "idle" => Queued("GATE_STATUS") = {}
  /\ \A i, j \in Queued("GATE_STATUS") : i = j
  /\ gate_task.closing \/ gate_task.ok
  /\ \A i \in Queued("GATE_STATUS") : pulses[i].closing \/ pulses[i].ok

SignalsOfStep ==
  /\ rail_signal = IF step \in GateSteps \cup {"RAIL_WARN"} THEN "FLASHING_RED" ELSE "CLEAR"
  /\ train_signal = IF fault THEN "RED" ELSE "CLEAR"
  /\ phase = "RAIL_PROTECT" <=> RailActive
  /\ phase = "PED" <=> step \in PedStep
  /\ safety = ViewOf(step)
  /\ countdown > 0 \/ step = "RAIL_OCCUPIED"

IInv == /\ TypeOK /\ HeadsOfStep /\ GateOfStep /\ SignalsOfStep
        /\ AwaitedReportComes /\ FaultStopsTrain /\ CloseAttemptsBounded
================================================================================
