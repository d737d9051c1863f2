------------------------------ MODULE LcContext -------------------------------
(***************************************************************************)
(* lc_context_t: the state every task of the local controller shares, and  *)
(* lc_enter_step(), through which every step change goes, with the         *)
(* right-turn arrows it re-checks (right_turn.c).  Durations are counted   *)
(* in PHASE_TICK_MS ticks, after the scaling lc_enter_step() applies.      *)
(***************************************************************************)
EXTENDS Integers, Sequences, PhaseTable

CONSTANTS
  Duration,       \* ticks each step runs when it is entered
  GateWaitRearm,  \* GATE_WAIT_REARM_MS: one more slice of waiting for the gate
  MinGreen,       \* VEHICLE_MIN_GREEN_S
  ArrowTime,      \* RIGHT_TURN_ARROW_S
  MaxPulses       \* bound: inputs wait while this many pulses are queued

ASSUME DurationAssumption ==
  /\ Duration \in [Step -> Nat \ {0}]
  /\ GateWaitRearm \in Nat \ {0}
  /\ MinGreen \in Nat
  /\ ArrowTime \in Nat \ {0}
  /\ MaxPulses \in Nat \ {0}

VARIABLES
  step, countdown,       \* the current step and its remaining ticks
  arrow,                 \* per approach: remaining ticks of the arrow, 0 is OFF
  safety,                \* lc_safety_view_t, what the command server may read
  vehicle, ped_state, phase, min_green_elapsed,
  mode, g_period,        \* control mode, and the period it was last set for
  gate_state, rail_signal, train_signal,
  fault,                 \* the FAULT_BOOM_GATE bit of fault_flags
  g_close_attempts, rail_alert,
  gate_task, gate_fault_armed,
  ped_request_pending, demand,
  override, mode_switch, \* the slots of accepted CC commands
  server,                \* Central_Command_Server_Task
  pulses,                \* the queue of phase_chid
  reports,               \* pulses waiting on status_chid
  sim_period             \* service period of the simulated clock

heads     == <<vehicle, ped_state, phase>>
schedule  == <<mode, g_period>>
crossing  == <<gate_state, rail_signal, train_signal, fault, g_close_attempts>>
gate      == <<gate_task, gate_fault_armed>>
commands  == <<override, mode_switch>>
vars      == <<step, countdown, arrow, safety, heads, min_green_elapsed, schedule,
               crossing, rail_alert, gate, ped_request_pending, demand,
               commands, server, pulses, reports, sim_period>>

VehicleState == {"RED", "YELLOW", "GREEN"}
PedState     == {"DONT_WALK", "WALK", "CLEARANCE"}
RailSignal   == {"CLEAR", "FLASHING_RED", "RED"}
GateState    == {"OPEN", "LOWERING", "LOCKED", "RAISING", "TIMEOUT_FAULT"}
Mode         == {"FIXED_TIMING", "SENSOR_DRIVEN", "ADVANCED"}
Phase        == {"NS", "EW", "PED", "RAIL_PROTECT"}
Period       == {"PEAK", "OFFPEAK", "NIGHT"}
Override     == {"ALL_RED", "NS_GREEN", "EW_GREEN", "DIGNITARY_PATH"}
None         == "none"

(* A pulse is its code and its value.  Only GATE_STATUS has a value: which *)
(* move ended and whether it ended in time; the others send 0.             *)
PulseCode == {"PHASE_TIMER", "TRAIN_APPROACH", "TRAIN_CLEARED",
              "CC_COMMAND_READY", "GATE_STATUS"}
Pulse     == [code : PulseCode, closing : BOOLEAN, ok : BOOLEAN]
Plain(c)  == [code |-> c, closing |-> FALSE, ok |-> TRUE]

SendPulse(p) == pulses' = Append(pulses, p)
HasRoom      == Len(pulses) < MaxPulses
Notify(r)    == r \cup {"STATUS_EVENT"}

RailActive == step \in RailStep

(* The part of the safety view that gates a command; busy_until_ms is a    *)
(* time the server only reports.                                           *)
ViewOf(s) == [rail_active |-> s \in RailStep, ped_crossing |-> s \in PedStep]

(* Mutant: the step change starts arrows but does not stop them. *)
ArrowsOnNotStopped(s, arr) ==
  [a \in Approach |-> IF Allows(s, Right(a)) /\ arr[a] = 0 THEN ArrowTime ELSE arr[a]]

(* right_turn_on_step_change(): an arrow the new step forbids stops, one   *)
(* it permits starts unless it is running already.                         *)
ArrowsOn(s, arr) == [a \in Approach |-> IF ~Allows(s, Right(a)) THEN 0
                                        ELSE IF arr[a] = 0 THEN ArrowTime
                                        ELSE arr[a]]
ArrowsOff        == [a \in Approach |-> 0]

EnterStepFor(s, ticks, arr) ==
  /\ step' = s
  /\ countdown' = ticks
  /\ safety' = ViewOf(s)
  /\ arrow' = ArrowsOn(s, arr)

EnterStep(s, arr) == EnterStepFor(s, Duration[s], arr)

(* fixed_timing_begin_{ns,ew}_green() without its notify_status(). *)
OnlyGreen(a) == [b \in Approach |-> IF b = a THEN "GREEN" ELSE "RED"]
AllAre(c)    == [a \in Approach |-> c]
BeginGreen(a, arr) ==
  /\ vehicle' = OnlyGreen(a)
  /\ min_green_elapsed' = FALSE
  /\ EnterStep(Green(a), arr)
================================================================================
