------------------------------- MODULE LinkAge ---------------------------------
(***************************************************************************)
(* How old the dashboard's record of a live LC can get.  "An LC only       *)
(* reports when its state changes" (central_controller.c), which is when   *)
(* a handler calls notify_status(), and some steps end without a call.     *)
(* The steps of the controller with their times, the reports, and the age  *)
(* of the CC's record.  A report takes at most as long as the sender needs *)
(* when LostRounds of its rounds of sends fail (StatusReport has the       *)
(* sender).  Times are real milliseconds.                                  *)
(***************************************************************************)
EXTENDS CommonTimes, PhaseTable

CONSTANTS
  GateLate,     \* bound: ms by which the gate's report may come late
  LostRounds    \* bound: rounds of sends that fail before a report is received

ASSUME LinkAssumption == GateLate \in Nat /\ LostRounds \in Nat

VARIABLES
  step, countdown_ms,
  tick,                \* a tick pulse waits
  gate,                \* ms the gate still moves, and the step its report leads to
  unheard,             \* ms since the first notification not yet recorded, -1: none
  age                  \* ms since the CC's last record

vars == <<step, countdown_ms, tick, gate, unheard, age>>

OVERRIDE_HOLD_S        == 20
STATUS_SEND_TIMEOUT_MS == 500
STATUS_RESEND_GAP_MS   == 1000

(* Mutant: stale after the longest step. *)
StaleAfterOneGreen == VEHICLE_GREEN_S \div TIME_SCALE_FACTOR

CC_LINK_STALE_S == (2 * VEHICLE_GREEN_S) \div TIME_SCALE_FACTOR + 5

(* STATUS_MAX_RETRY sends time out, with gaps, and then the back-off. *)
LostRound == STATUS_MAX_RETRY * STATUS_SEND_TIMEOUT_MS
               + (STATUS_MAX_RETRY - 1) * STATUS_RESEND_GAP_MS
               + STATUS_RETRY_DELAY_S * 1000
Delivery  == LostRounds * LostRound + STATUS_SEND_TIMEOUT_MS

------------------------------------------------------------------------------
(* The steps: how long each runs, where its countdown leads, and whether   *)
(* the CC is told.                                                         *)

Seconds ==
  [NS_GREEN |-> VEHICLE_GREEN_S, NS_YELLOW |-> VEHICLE_YELLOW_S, NS_ALLRED |-> VEHICLE_ALL_RED_S,
   EW_GREEN |-> VEHICLE_GREEN_S, EW_YELLOW |-> VEHICLE_YELLOW_S, EW_ALLRED |-> VEHICLE_ALL_RED_S,
   PED_WALK |-> PED_WALK_S, PED_CLEARANCE |-> PED_CLEARANCE_S,
   OVERRIDE_HOLD |-> OVERRIDE_HOLD_S,
   RAIL_YELLOW |-> VEHICLE_YELLOW_S, RAIL_ALLRED |-> VEHICLE_ALL_RED_S,
   RAIL_PREARRIVAL |-> RAIL_PREARRIVAL_QUIET_S, RAIL_WARN |-> RAIL_WARNING_LEAD_S,
   RAIL_GATE_LOWER |-> RAIL_GATE_LOWER_S, RAIL_GATE_FAULT |-> GATE_RETRY_INTERVAL_S,
   RAIL_OCCUPIED |-> RAIL_TRAIN_OCCUPY_S, RAIL_POST_HOLD |-> RAIL_POST_TRAIN_HOLD_S,
   RAIL_GATE_RAISE |-> RAIL_GATE_LOWER_S]

GateMoves == {"RAIL_GATE_LOWER", "RAIL_GATE_RAISE"}

Follows ==
  [NS_GREEN |-> {"NS_YELLOW"}, NS_YELLOW |-> {"NS_ALLRED"}, NS_ALLRED |-> {"EW_GREEN", "PED_WALK"},
   EW_GREEN |-> {"EW_YELLOW"}, EW_YELLOW |-> {"EW_ALLRED"}, EW_ALLRED |-> {"NS_GREEN", "PED_WALK"},
   PED_WALK |-> {"PED_CLEARANCE"}, PED_CLEARANCE |-> {"EW_GREEN"},
   OVERRIDE_HOLD |-> {"NS_GREEN"},
   RAIL_YELLOW |-> {"RAIL_ALLRED"}, RAIL_ALLRED |-> {"RAIL_PREARRIVAL"},
   RAIL_PREARRIVAL |-> {"RAIL_WARN"}, RAIL_WARN |-> {"RAIL_GATE_LOWER"},
   RAIL_GATE_LOWER |-> {}, RAIL_GATE_FAULT |-> {"RAIL_GATE_LOWER"},
   RAIL_OCCUPIED |-> {"RAIL_POST_HOLD"}, RAIL_POST_HOLD |-> {"RAIL_GATE_RAISE"},
   RAIL_GATE_RAISE |-> {}]

(* The steps whose countdown ends without notify_status(). *)
Silent == {"NS_YELLOW", "EW_YELLOW", "RAIL_ALLRED", "RAIL_GATE_FAULT", "RAIL_POST_HOLD"}

(* A close that fails is known a second after its deadline. *)
MovesIn(s) ==
  IF s = "RAIL_GATE_LOWER"
    THEN {[left |-> Scaled(RAIL_GATE_LOWER_S), leads |-> "RAIL_OCCUPIED"],
          [left |-> Scaled(GATE_MOVE_TIMEOUT_S + 1), leads |-> "RAIL_GATE_FAULT"]}
  ELSE IF s = "RAIL_GATE_RAISE" THEN {[left |-> Scaled(GATE_RAISE_S), leads |-> "NS_GREEN"]}
  ELSE {[left |-> 0, leads |-> s]}

EnterStep(s) ==
  /\ step' = s
  /\ countdown_ms' = Scaled(Seconds[s])
  /\ gate' \in MovesIn(s)

(* Mutant: a change makes the sender start anew. *)
NotifyAnew == unheard' = 0

Notify == unheard' = IF unheard = -1 THEN 0 ELSE unheard

(* The first report has been recorded. *)
Init ==
  /\ step = "NS_GREEN" /\ countdown_ms = Scaled(VEHICLE_GREEN_S)
  /\ tick = FALSE
  /\ gate \in MovesIn("NS_GREEN")
  /\ unheard = -1 /\ age = 0

------------------------------------------------------------------------------
(* Phase_Controller_Task *)

RunsOn ==
  /\ countdown_ms > PHASE_TICK_MS
  /\ countdown_ms' = countdown_ms - PHASE_TICK_MS
  /\ UNCHANGED <<step, gate, unheard>>

(* Only a green may end before its time (sensor_driven_tick). *)
AdvanceStep ==
  /\ countdown_ms <= PHASE_TICK_MS \/ step \in {"NS_GREEN", "EW_GREEN"}
  /\ \E s \in Follows[step] : EnterStep(s)
  /\ IF step \in Silent THEN UNCHANGED unheard ELSE Notify

(* The time for the move is up; the wait is armed again. *)
Rearm ==
  /\ countdown_ms <= PHASE_TICK_MS /\ step \in GateMoves
  /\ countdown_ms' = SCALE_MS(GATE_WAIT_REARM_MS * TIME_SCALE_FACTOR)
  /\ UNCHANGED <<step, gate, unheard>>

HandleTick ==
  /\ tick /\ tick' = FALSE
  /\ RunsOn \/ AdvanceStep \/ Rearm
  /\ UNCHANGED age

GateReports ==
  /\ step \in GateMoves /\ gate.left < PHASE_TICK_MS
  /\ EnterStep(gate.leads) /\ Notify
  /\ UNCHANGED <<tick, age>>

TrainApproaches ==
  /\ step \notin RailStep
  /\ EnterStep("RAIL_YELLOW") /\ Notify
  /\ UNCHANGED <<tick, age>>

TrainClears ==
  /\ step = "RAIL_OCCUPIED"
  /\ countdown_ms' = 0
  /\ UNCHANGED <<step, tick, gate, unheard, age>>

OverrideApplied ==
  /\ step \notin RailStep \cup PedStep
  /\ EnterStep("OVERRIDE_HOLD") /\ Notify
  /\ UNCHANGED <<tick, age>>

(* By the schedule or the operator. *)
ModeChanges ==
  /\ Notify
  /\ UNCHANGED <<step, countdown_ms, tick, gate, age>>

------------------------------------------------------------------------------
(* comm_worker() records a report of the state after the notification. *)
ReportRecorded ==
  /\ unheard # -1
  /\ unheard' = -1 /\ age' = 0
  /\ UNCHANGED <<step, countdown_ms, tick, gate>>

TimePasses ==
  /\ ~tick /\ tick' = TRUE
  /\ step \in GateMoves => gate.left > -GateLate
  /\ gate' = IF step \in GateMoves THEN [gate EXCEPT !.left = @ - PHASE_TICK_MS] ELSE gate
  /\ unheard # -1 => unheard + PHASE_TICK_MS <= Delivery
  /\ unheard' = IF unheard = -1 THEN -1 ELSE unheard + PHASE_TICK_MS
  /\ age' = age + PHASE_TICK_MS
  /\ UNCHANGED <<step, countdown_ms>>

Next == \/ HandleTick \/ GateReports \/ TrainApproaches \/ TrainClears
        \/ OverrideApplied \/ ModeChanges \/ ReportRecorded \/ TimePasses

Spec == Init /\ [][Next]_vars
================================================================================
