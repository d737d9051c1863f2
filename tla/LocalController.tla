---------------------------- MODULE LocalController ----------------------------
(***************************************************************************)
(* One local controller: Phase_Controller_Task takes pulses from its queue *)
(* in order and handles each to the end (local_controller.c); the timer,   *)
(* the console and timetable threads, the gate task and the command server *)
(* run beside it.  Inputs that a handler reads only through a flag         *)
(* (PED_REQUEST, VEHICLE_DEMAND) send a pulse the controller ignores, and  *)
(* rail_clear_req is written and never read: both are left out.            *)
(***************************************************************************)
EXTENDS GateAndServer

CONSTANTS
  Keys,     \* the console inputs that may occur
  Periods   \* the service periods the simulated clock may reach

ASSUME InputAssumption ==
  /\ Keys \subseteq {"p", "n", "e", "t", "c", "g"}
  /\ Periods \subseteq Period /\ Periods # {}

------------------------------------------------------------------------------
(* main() and the head of phase_controller_task(): mode_schedule_init(),   *)
(* fixed_timing_begin_ns_green(), lc_set_phase().                          *)

Init ==
  /\ step = "NS_GREEN"
  /\ countdown = Duration["NS_GREEN"]
  /\ arrow = ArrowsOn("NS_GREEN", ArrowsOff)
  /\ safety = ViewOf("NS_GREEN")
  /\ vehicle = OnlyGreen("NS")
  /\ ped_state = "DONT_WALK"
  /\ phase = "NS"
  /\ min_green_elapsed = FALSE
  /\ sim_period \in Periods
  /\ g_period = sim_period
  /\ mode = ModeFor(sim_period)
  /\ gate_state = "OPEN"
  /\ rail_signal = "CLEAR"
  /\ train_signal = "CLEAR"
  /\ fault = FALSE
  /\ g_close_attempts = 0
  /\ rail_alert = FALSE
  /\ gate_task = IdleGate
  /\ gate_fault_armed = FALSE
  /\ ped_request_pending = FALSE
  /\ demand = [a \in Approach |-> FALSE]
  /\ override = None
  /\ mode_switch = None
  /\ server = IdleServer
  /\ pulses = <<>>
  /\ reports = {"STATUS_EVENT"}

------------------------------------------------------------------------------
(* Phase_Controller_Task *)

Receive(c) ==
  /\ pulses # <<>>
  /\ Head(pulses).code = c
  /\ pulses' = Tail(pulses)

(* A tick that leaves the step running. *)
TickRunsOn ==
  /\ Remaining > 0
  /\ countdown' = Remaining
  /\ arrow' = TickedArrow
  /\ min_green_elapsed' = MinGreenNow
  /\ reports' = TickReports
  /\ UNCHANGED <<step, safety, heads, crossing, gate_task, ped_request_pending>>

(* advance_step() *)
TickEndsStep ==
  /\ Remaining <= 0
  /\ AdvanceRailway \/ AdvanceTraffic

HandleTick ==
  /\ Receive("PHASE_TIMER")
  /\ ModeScheduleTick
  /\ demand' = TickedDemand
  /\ TickRunsOn \/ TickEndsStep
  /\ UNCHANGED <<rail_alert, gate_fault_armed, commands, server, sim_period>>

controllerFrame == <<gate, ped_request_pending, demand, server, sim_period>>

HandleApproach ==
  /\ Receive("TRAIN_APPROACH")
  /\ OnApproach
  /\ UNCHANGED <<controllerFrame, schedule, commands>>

HandleCleared ==
  /\ Receive("TRAIN_CLEARED")
  /\ OnCleared
  /\ UNCHANGED <<controllerFrame, schedule, commands>>

HandleCommands ==
  /\ Receive("CC_COMMAND_READY")
  /\ ApplyCommands
  /\ UNCHANGED controllerFrame

HandleGateStatus ==
  /\ Receive("GATE_STATUS")
  /\ OnGateStatus(Head(pulses))
  /\ UNCHANGED <<controllerFrame, schedule, commands>>

PhaseController == HandleTick \/ HandleApproach \/ HandleCleared
                     \/ HandleCommands \/ HandleGateStatus

------------------------------------------------------------------------------
(* The timer and the input threads *)

inputFrame == <<step, countdown, arrow, safety, heads, min_green_elapsed, schedule,
                crossing, gate_task, commands, server>>

(* The handlers are assumed to finish well inside one 100 ms tick, so at   *)
(* most one tick waits.                                                    *)
TimerFires ==
  /\ \A i \in DOMAIN pulses : pulses[i].code # "PHASE_TIMER"
  /\ SendPulse(Plain("PHASE_TIMER"))
  /\ UNCHANGED <<inputFrame, reports, rail_alert, gate_fault_armed,
                 ped_request_pending, demand, sim_period>>

PressPedestrian ==
  /\ "p" \in Keys /\ ~ped_request_pending
  /\ ped_request_pending' = TRUE
  /\ UNCHANGED <<inputFrame, pulses, reports, rail_alert, gate_fault_armed,
                 demand, sim_period>>

DetectVehicle(a) ==
  /\ (IF a = "NS" THEN "n" ELSE "e") \in Keys
  /\ demand' = [demand EXCEPT ![a] = TRUE]
  /\ UNCHANGED <<inputFrame, pulses, reports, rail_alert, gate_fault_armed,
                 ped_request_pending, sim_period>>

(* From the 't' key or the timetable thread. *)
TrainApproaches ==
  /\ "t" \in Keys /\ HasRoom
  /\ rail_alert' = TRUE
  /\ SendPulse(Plain("TRAIN_APPROACH"))
  /\ UNCHANGED <<inputFrame, reports, gate_fault_armed, ped_request_pending,
                 demand, sim_period>>

TrainClears ==
  /\ "c" \in Keys /\ HasRoom
  /\ SendPulse(Plain("TRAIN_CLEARED"))
  /\ UNCHANGED <<inputFrame, reports, rail_alert, gate_fault_armed,
                 ped_request_pending, demand, sim_period>>

ArmGateFault ==
  /\ "g" \in Keys /\ ~gate_fault_armed
  /\ gate_fault_armed' = TRUE
  /\ UNCHANGED <<inputFrame, pulses, reports, rail_alert, ped_request_pending,
                 demand, sim_period>>

(* The simulated clock passes into another service period. *)
ClockReaches(p) ==
  /\ p # sim_period
  /\ sim_period' = p
  /\ UNCHANGED <<inputFrame, pulses, reports, rail_alert, gate_fault_armed,
                 ped_request_pending, demand>>

(* Status_Reporting_Task drains whatever waits and coalesces it. *)
DrainReports ==
  /\ reports # {}
  /\ reports' = {}
  /\ UNCHANGED <<inputFrame, pulses, rail_alert, gate_fault_armed,
                 ped_request_pending, demand, sim_period>>

------------------------------------------------------------------------------
GateTask == GateStartsMoving \/ GateReports

Server == \/ \E o \in Overrides : ServerAcceptsOverride(o)
          \/ \E m \in ModeSwitches : ServerAcceptsModeSwitch(m)
          \/ ServerLatches
          \/ ServerWakesController

Inputs == \/ PressPedestrian \/ TrainApproaches \/ TrainClears \/ ArmGateFault
          \/ \E a \in Approach : DetectVehicle(a)
          \/ \E p \in Periods : ClockReaches(p)

Next == PhaseController \/ TimerFires \/ GateTask \/ Server \/ DrainReports \/ Inputs

Spec == Init /\ [][Next]_vars

(* Every task is its own thread and never blocks for good; nothing is      *)
(* assumed of the people, trains and operators outside.                    *)
Fairness ==
  /\ WF_vars(PhaseController)
  /\ WF_vars(TimerFires)
  /\ WF_vars(GateTask)
  /\ WF_vars(ServerLatches \/ ServerWakesController)
  /\ WF_vars(DrainReports)

FairSpec == Spec /\ Fairness
================================================================================
