----------------------------- MODULE GateAndServer -----------------------------
(***************************************************************************)
(* The two tasks that work beside the controller and wake it by a pulse:   *)
(* Boom_Gate_Controller_Task (boom_gate.c) and Central_Command_Server_Task *)
(* (central_command_server.c), with apply_pending_cc_commands(), which the *)
(* controller runs when the server wakes it.                               *)
(***************************************************************************)
EXTENDS RailwayProtection

CONSTANTS
  ForceGateFault,  \* "no", "once" (..._FAULT_ONCE is set) or "always"
  Overrides,       \* override commands the CC may send
  ModeSwitches     \* modes the CC may ask for

ASSUME CommandAssumption ==
  /\ ForceGateFault \in {"no", "once", "always"}
  /\ Overrides \subseteq Override
  /\ ModeSwitches \subseteq Mode

------------------------------------------------------------------------------
(* Boom_Gate_Controller_Task.  A close misses its deadline exactly when a  *)
(* fault is forced on it; an opening takes half the time it may take.      *)

Forced == \/ ForceGateFault = "always"
          \/ ForceGateFault = "once" /\ g_close_attempts <= 1
          \/ gate_fault_armed

GateStartsMoving ==
  /\ gate_task.at = "commanded"
  /\ gate_task' = [gate_task EXCEPT !.at = "moving", !.ok = ~(gate_task.closing /\ Forced)]
  /\ gate_fault_armed' = IF gate_task.closing THEN FALSE ELSE gate_fault_armed
  /\ UNCHANGED <<step, countdown, arrow, safety, heads, min_green_elapsed, schedule,
                 crossing, rail_alert, ped_request_pending, demand,
                 commands, server, pulses, reports, sim_period>>

(* Mutant: a close that failed is not reported. *)
GateReportsSuccess ==
  /\ gate_task.at = "moving"
  /\ IF gate_task.ok
       THEN SendPulse([code |-> "GATE_STATUS", closing |-> gate_task.closing, ok |-> TRUE])
       ELSE UNCHANGED pulses
  /\ gate_task' = IdleGate
  /\ UNCHANGED <<step, countdown, arrow, safety, heads, min_green_elapsed, schedule,
                 crossing, rail_alert, gate_fault_armed, ped_request_pending, demand,
                 commands, server, reports, sim_period>>

GateReports ==
  /\ gate_task.at = "moving"
  /\ SendPulse([code |-> "GATE_STATUS", closing |-> gate_task.closing, ok |-> gate_task.ok])
  /\ gate_task' = IdleGate
  /\ UNCHANGED <<step, countdown, arrow, safety, heads, min_green_elapsed, schedule,
                 crossing, rail_alert, gate_fault_armed, ped_request_pending, demand,
                 commands, server, reports, sim_period>>

------------------------------------------------------------------------------
(* Central_Command_Server_Task: decide from the published view, latch,     *)
(* reply, wake the controller.  Other tasks run between any two of these.  *)

IdleServer == [at |-> "idle", override |-> None, mode |-> None]

serverFrame == <<step, countdown, arrow, safety, heads, min_green_elapsed, schedule,
                 crossing, rail_alert, gate, ped_request_pending, demand,
                 reports, sim_period>>

(* An override that finds the railway or a crossing active is answered     *)
(* WAIT and changes nothing, so only accepted ones are steps.              *)
ServerAcceptsOverride(o) ==
  /\ server.at = "idle"
  /\ HasRoom
  /\ ~safety.rail_active /\ ~safety.ped_crossing
  /\ server' = [at |-> "accepted", override |-> o, mode |-> None]
  /\ UNCHANGED <<serverFrame, commands, pulses>>

ServerAcceptsModeSwitch(m) ==
  /\ server.at = "idle"
  /\ HasRoom
  /\ server' = [at |-> "accepted", override |-> None, mode |-> m]
  /\ UNCHANGED <<serverFrame, commands, pulses>>

(* One slot per kind of command: a second one replaces the first.          *)
ServerLatches ==
  /\ server.at = "accepted"
  /\ override' = IF server.override # None THEN server.override ELSE override
  /\ mode_switch' = IF server.mode # None THEN server.mode ELSE mode_switch
  /\ server' = [server EXCEPT !.at = "latched"]
  /\ UNCHANGED <<serverFrame, pulses>>

(* Mutant: only an override wakes the controller. *)
ServerWakesForOverride ==
  /\ server.at = "latched"
  /\ IF server.override # None THEN SendPulse(Plain("CC_COMMAND_READY")) ELSE UNCHANGED pulses
  /\ server' = IdleServer
  /\ UNCHANGED <<serverFrame, commands>>

ServerWakesController ==
  /\ server.at = "latched"
  /\ SendPulse(Plain("CC_COMMAND_READY"))
  /\ server' = IdleServer
  /\ UNCHANGED <<serverFrame, commands>>

------------------------------------------------------------------------------
(* apply_pending_cc_commands() *)

(* begin_{ns,ew}_green() enters its green before OVERRIDE_HOLD replaces it, *)
(* so an arrow that had expired starts again; OVERRIDE_HOLD stops them all. *)
ForceHeads(o) ==
  /\ vehicle' = IF o = "ALL_RED" THEN AllAre("RED")
                ELSE OnlyGreen(IF o = "EW_GREEN" THEN "EW" ELSE "NS")
  /\ min_green_elapsed' = IF o = "ALL_RED" THEN min_green_elapsed ELSE FALSE
  /\ EnterStep("OVERRIDE_HOLD", arrow)

(* Mutants: the decision taken when the command came in is not taken again *)
(* for a train, or for a pedestrian, that came since.                      *)
MayOverrideDespiteTrain == step \notin PedStep
MayOverrideDespiteWalk  == ~RailActive

MayOverride == ~RailActive /\ step \notin PedStep

(* Mutant: an override that comes at a bad time is kept for a later one. *)
ApplyCommandsKeeps ==
  /\ override' = IF MayOverride THEN None ELSE override
  /\ mode_switch' = None
  /\ mode' = IF mode_switch # None THEN mode_switch ELSE mode
  /\ IF override # None /\ MayOverride
       THEN ForceHeads(override)
       ELSE UNCHANGED <<vehicle, min_green_elapsed, step, countdown, safety, arrow>>
  /\ reports' = IF mode_switch # None \/ (override # None /\ MayOverride)
                THEN Notify(reports) ELSE reports
  /\ UNCHANGED <<ped_state, phase, g_period, crossing, rail_alert>>

ApplyCommands ==
  /\ override' = None
  /\ mode_switch' = None
  /\ mode' = IF mode_switch # None THEN mode_switch ELSE mode
  /\ IF override # None /\ MayOverride
       THEN ForceHeads(override)
       ELSE UNCHANGED <<vehicle, min_green_elapsed, step, countdown, safety, arrow>>
  /\ reports' = IF mode_switch # None \/ (override # None /\ MayOverride)
                THEN Notify(reports) ELSE reports
  /\ UNCHANGED <<ped_state, phase, g_period, crossing, rail_alert>>
================================================================================
