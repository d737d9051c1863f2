-------------------------- MODULE RailwayProtection ----------------------------
(***************************************************************************)
(* Railway protection (railway_protection.c) with the controller's half of *)
(* the boom gate (boom_gate.c).  The gate task answers a command at once   *)
(* and works it off afterwards, so a command is a rendezvous: it needs the *)
(* task back in MsgReceive, or the controller would wait for it.           *)
(***************************************************************************)
EXTENDS VehicleControl

CONSTANT MaxCloseAttempts  \* GATE_CLOSE_MAX_ATTEMPTS
ASSUME AttemptsAssumption == MaxCloseAttempts \in Nat \ {0}

IdleGate == [at |-> "idle", closing |-> FALSE, ok |-> TRUE]

GateCommand(closing) ==
  /\ gate_task.at = "idle"
  /\ gate_task' = [at |-> "commanded", closing |-> closing, ok |-> TRUE]

BeginClose ==
  /\ g_close_attempts' = 1
  /\ gate_state' = "LOWERING"
  /\ GateCommand(TRUE)

RetryClose ==
  /\ g_close_attempts' = g_close_attempts + 1
  /\ gate_state' = "LOWERING"
  /\ GateCommand(TRUE)

BeginOpen ==
  /\ gate_state' = "RAISING"
  /\ GateCommand(FALSE)
  /\ UNCHANGED g_close_attempts

------------------------------------------------------------------------------
(* railway_advance(): the countdown of a railway step ran out. *)

(* Mutant: the heads stay yellow. *)
AdvanceRailYellowNotRed ==
  /\ step = "RAIL_YELLOW"
  /\ EnterStep("RAIL_ALLRED", TickedArrow)
  /\ reports' = Notify(TickReports)
  /\ UNCHANGED <<vehicle, crossing, gate_task>>

AdvanceRailYellow ==
  /\ step = "RAIL_YELLOW"
  /\ vehicle' = AllAre("RED")
  /\ EnterStep("RAIL_ALLRED", TickedArrow)
  /\ reports' = Notify(TickReports)
  /\ UNCHANGED <<crossing, gate_task>>

AdvanceRailAllRed ==
  /\ step = "RAIL_ALLRED"
  /\ EnterStep("RAIL_PREARRIVAL", TickedArrow)
  /\ reports' = TickReports
  /\ UNCHANGED <<vehicle, crossing, gate_task>>

AdvancePrearrival ==
  /\ step = "RAIL_PREARRIVAL"
  /\ rail_signal' = "FLASHING_RED"
  /\ EnterStep("RAIL_WARN", TickedArrow)
  /\ reports' = Notify(TickReports)
  /\ UNCHANGED <<vehicle, gate_state, train_signal, fault, g_close_attempts, gate_task>>

AdvanceWarn ==
  /\ step = "RAIL_WARN"
  /\ BeginClose
  /\ EnterStep("RAIL_GATE_LOWER", TickedArrow)
  /\ reports' = Notify(TickReports)
  /\ UNCHANGED <<vehicle, rail_signal, train_signal, fault>>

(* Mutant: a wait for the lock that runs out is taken for a fault. *)
RearmAsFault ==
  /\ step \in {"RAIL_GATE_LOWER", "RAIL_GATE_RAISE"}
  /\ EnterStep(IF step = "RAIL_GATE_LOWER" THEN "RAIL_GATE_FAULT" ELSE step, TickedArrow)
  /\ reports' = TickReports
  /\ UNCHANGED <<vehicle, crossing, gate_task>>

(* The gate has not reported yet (or nothing leaves FAILSAFE): re-arm. *)
Rearm ==
  /\ step \in {"RAIL_GATE_LOWER", "RAIL_GATE_RAISE", "FAILSAFE"}
  /\ EnterStepFor(step, IF step = "FAILSAFE" THEN Duration[step] ELSE GateWaitRearm,
                  TickedArrow)
  /\ reports' = TickReports
  /\ UNCHANGED <<vehicle, crossing, gate_task>>

(* Mutant: no attempt left, the crossing waits in its fault. *)
AdvanceGateFaultGivesUp ==
  /\ step = "RAIL_GATE_FAULT"
  /\ IF g_close_attempts < MaxCloseAttempts
       THEN RetryClose /\ EnterStep("RAIL_GATE_LOWER", TickedArrow)
       ELSE /\ EnterStep("RAIL_GATE_FAULT", TickedArrow)
            /\ UNCHANGED <<gate_state, gate_task, g_close_attempts>>
  /\ reports' = TickReports
  /\ UNCHANGED <<vehicle, rail_signal, train_signal, fault>>

(* Attempts left: retry.  None left: start over, the crossing stays closed. *)
AdvanceGateFault ==
  /\ step = "RAIL_GATE_FAULT"
  /\ IF g_close_attempts < MaxCloseAttempts THEN RetryClose ELSE BeginClose
  /\ EnterStep("RAIL_GATE_LOWER", TickedArrow)
  /\ reports' = TickReports
  /\ UNCHANGED <<vehicle, rail_signal, train_signal, fault>>

(* Mutant: the gate is raised when the hold begins, not when it ends. *)
AdvanceOccupiedRaises ==
  /\ step = "RAIL_OCCUPIED"
  /\ BeginOpen
  /\ EnterStep("RAIL_POST_HOLD", TickedArrow)
  /\ reports' = Notify(TickReports)
  /\ UNCHANGED <<vehicle, rail_signal, train_signal, fault>>

AdvanceOccupied ==
  /\ step = "RAIL_OCCUPIED"
  /\ EnterStep("RAIL_POST_HOLD", TickedArrow)
  /\ reports' = Notify(TickReports)
  /\ UNCHANGED <<vehicle, crossing, gate_task>>

(* Mutant: the road is released while the gate is on its way up. *)
AdvancePostHoldReleases ==
  /\ step = "RAIL_POST_HOLD"
  /\ BeginOpen
  /\ vehicle' = OnlyGreen("NS")
  /\ EnterStep("NS_GREEN", TickedArrow)
  /\ reports' = Notify(TickReports)
  /\ UNCHANGED <<rail_signal, train_signal, fault>>

AdvancePostHold ==
  /\ step = "RAIL_POST_HOLD"
  /\ BeginOpen
  /\ EnterStep("RAIL_GATE_RAISE", TickedArrow)
  /\ reports' = TickReports
  /\ UNCHANGED <<vehicle, rail_signal, train_signal, fault>>

AdvanceRailway ==
  /\ \/ AdvanceRailYellow \/ AdvanceRailAllRed \/ AdvancePrearrival
     \/ AdvanceWarn \/ Rearm \/ AdvanceGateFault
     \/ AdvanceOccupied \/ AdvancePostHold
  /\ UNCHANGED <<ped_state, phase, ped_request_pending, min_green_elapsed>>

------------------------------------------------------------------------------
(* The pulses of the train sensor and of the gate, as the controller       *)
(* handles them.  What they leave alone besides is in LocalController.     *)

(* railway_begin_protection().  The pedestrian head is not touched. *)
BeginProtection ==
  /\ vehicle' = AllAre("YELLOW")
  /\ train_signal' = "CLEAR"
  /\ EnterStep("RAIL_YELLOW", ArrowsOff)
  /\ phase' = "RAIL_PROTECT"
  /\ reports' = Notify(reports)
  /\ UNCHANGED <<ped_state, gate_state, rail_signal, fault, g_close_attempts,
                 min_green_elapsed, rail_alert>>

(* An approach that meets an active protection changes nothing. *)
OnApproach ==
  \/ ~RailActive /\ BeginProtection
  \/ RailActive /\ UNCHANGED <<step, countdown, arrow, safety, heads, crossing,
                               min_green_elapsed, rail_alert, reports>>

(* Cuts the occupied step short; the next tick moves on. *)
OnCleared ==
  /\ countdown' = IF step = "RAIL_OCCUPIED" THEN 0 ELSE countdown
  /\ UNCHANGED <<step, arrow, safety, heads, crossing, min_green_elapsed,
                 rail_alert, reports>>

(* Mutant: the lock does not clear the fault. *)
OnLockedFaultStays ==
  /\ gate_state' = "LOCKED"
  /\ g_close_attempts' = 0
  /\ IF step \in {"RAIL_GATE_LOWER", "RAIL_GATE_FAULT"}
       THEN /\ rail_signal' = "FLASHING_RED"
            /\ train_signal' = "CLEAR"
            /\ EnterStep("RAIL_OCCUPIED", arrow)
            /\ reports' = Notify(reports)
       ELSE UNCHANGED <<rail_signal, train_signal, step, countdown, safety, arrow, reports>>
  /\ UNCHANGED <<fault, heads, min_green_elapsed, rail_alert>>

(* GATE_EVT_LOCKED; a lock outside the closing steps only sets the gate.   *)
OnLocked ==
  /\ gate_state' = "LOCKED"
  /\ fault' = FALSE
  /\ g_close_attempts' = 0
  /\ IF step \in {"RAIL_GATE_LOWER", "RAIL_GATE_FAULT"}
       THEN /\ rail_signal' = "FLASHING_RED"
            /\ train_signal' = "CLEAR"
            /\ EnterStep("RAIL_OCCUPIED", arrow)
            /\ reports' = Notify(reports)
       ELSE UNCHANGED <<rail_signal, train_signal, step, countdown, safety, arrow, reports>>
  /\ UNCHANGED <<heads, min_green_elapsed, rail_alert>>

(* enter_gate_fault(), the same after a failed close that leaves attempts  *)
(* and after the last one.                                                 *)
OnCloseFailed ==
  /\ gate_state' = "TIMEOUT_FAULT"
  /\ fault' = TRUE
  /\ rail_signal' = "FLASHING_RED"
  /\ train_signal' = "RED"
  /\ reports' = reports \cup {"FAULT_ALARM"}
  /\ EnterStep("RAIL_GATE_FAULT", arrow)
  /\ UNCHANGED <<heads, g_close_attempts, min_green_elapsed, rail_alert>>

(* GATE_EVT_OPENED, whether or not the opening ended in time.              *)
OnOpened(ok) ==
  /\ gate_state' = IF ok THEN "OPEN" ELSE "TIMEOUT_FAULT"
  /\ IF step = "RAIL_GATE_RAISE"
       THEN /\ rail_signal' = "CLEAR"
            /\ train_signal' = "CLEAR"
            /\ rail_alert' = FALSE
            /\ BeginGreen("NS", arrow)
            /\ phase' = "NS"
            /\ reports' = Notify(reports)
       ELSE UNCHANGED <<rail_signal, train_signal, rail_alert, vehicle, phase,
                        min_green_elapsed, step, countdown, safety, arrow, reports>>
  /\ UNCHANGED <<ped_state, fault, g_close_attempts>>

OnGateStatus(p) ==
  \/ ~p.closing       /\ OnOpened(p.ok)
  \/ p.closing /\ p.ok  /\ OnLocked
  \/ p.closing /\ ~p.ok /\ OnCloseFailed
================================================================================
