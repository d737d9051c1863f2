------------------------------- MODULE RailTiming ------------------------------
(***************************************************************************)
(* The same closures as in RailwayProtection, in time: the scaled          *)
(* durations of common.h, the 100 ms tick, the boom gate's travel, the     *)
(* train of the timetable, and the wait an LC tells the CC when it refuses *)
(* an override (railway_remaining_ms(), pedestrian_remaining_ms(),         *)
(* central_command_server.c).  Times are real milliseconds and relative to *)
(* now.  Road steps are one step, for no time runs in them that matters.   *)
(* promised, promise, since, locked and failed are read by no step of the  *)
(* controller.                                                             *)
(***************************************************************************)
EXTENDS CommonTimes

CONSTANT GateLate   \* bound: ms by which nanosleep() may oversleep the gate's travel

(* The simulated clock of the timetable runs faster, it does not round. *)
SimMs(s) == (s * 1000) \div TIME_SCALE_FACTOR

ASSUME TimingAssumption == GateLate \in Nat

RailStep == {"RAIL_YELLOW", "RAIL_ALLRED", "RAIL_PREARRIVAL", "RAIL_WARN", "RAIL_GATE_LOWER",
             "RAIL_GATE_FAULT", "RAIL_OCCUPIED", "RAIL_POST_HOLD", "RAIL_GATE_RAISE"}
PedStep  == {"PED_WALK", "PED_CLEARANCE"}
Step     == RailStep \cup PedStep \cup {"ROAD"}

VARIABLES
  step, countdown_ms,
  busy,                  \* busy_until_ms of the published safety view, from now
  tick,                  \* a tick pulse waits
  gate_state, train_signal,
  gate_task,             \* the move it works off
  since,                 \* ms since the train tripped the sensor, -1: no train
  cleared,               \* the timetable has reported the train clear
  locked,                \* ms the gate has been locked
  failed,                \* an attempt of this closure has failed
  promised, promise      \* what is left of the least wait told in this sequence

train == <<since, cleared>>
wait  == <<promised, promise>>
vars  == <<step, countdown_ms, busy, tick, gate_state, train_signal, gate_task, train,
           locked, failed, wait>>

Idle == [moving |-> FALSE, closing |-> FALSE, fails |-> FALSE, left |-> 0]

Init ==
  /\ step = "ROAD" /\ countdown_ms = 0 /\ busy = 0
  /\ tick = FALSE
  /\ gate_state = "OPEN" /\ train_signal = "CLEAR"
  /\ gate_task = Idle
  /\ since = -1 /\ cleared = FALSE
  /\ locked = 0 /\ failed = FALSE
  /\ promised = FALSE /\ promise = 0

------------------------------------------------------------------------------
(* Steps and the time they announce *)

(* The nominal time of the steps after each one: k_rail_sequence, summed.  *)
Rest ==
  LET raise == Scaled(RAIL_GATE_LOWER_S)
      hold  == raise + Scaled(RAIL_POST_TRAIN_HOLD_S)
      occ   == hold + Scaled(RAIL_TRAIN_OCCUPY_S)
      lower == occ + Scaled(RAIL_GATE_LOWER_S)
      warn  == lower + Scaled(RAIL_WARNING_LEAD_S)
      quiet == warn + Scaled(RAIL_PREARRIVAL_QUIET_S)
      red   == quiet + Scaled(VEHICLE_ALL_RED_S)
  IN  [RAIL_YELLOW |-> red, RAIL_ALLRED |-> quiet, RAIL_PREARRIVAL |-> warn,
       RAIL_WARN |-> lower, RAIL_GATE_FAULT |-> lower, RAIL_GATE_LOWER |-> occ,
       RAIL_OCCUPIED |-> hold, RAIL_POST_HOLD |-> raise, RAIL_GATE_RAISE |-> 0]

(* Mutant: the step's own time only, as the status line shows it. *)
RemainingOfStep(s, ms) == ms

RailwayRemaining(s, ms) == ms + Rest[s]

PedestrianRemaining(s, ms) == IF s = "PED_WALK" THEN ms + Scaled(PED_CLEARANCE_S) ELSE ms

EnterStep(s, ms) ==
  /\ step' = s
  /\ countdown_ms' = ms
  /\ busy' = IF s \in RailStep THEN RailwayRemaining(s, ms)
             ELSE IF s \in PedStep THEN PedestrianRemaining(s, ms)
             ELSE 0

(* An outstanding wait ends with the sequence it was told for. *)
SequenceEnds == promised' = FALSE /\ promise' = 0

------------------------------------------------------------------------------
(* Phase_Controller_Task: the tick *)

GateCommand(closing, fails) ==
  /\ ~gate_task.moving
  /\ gate_task' = [moving |-> TRUE, closing |-> closing, fails |-> fails,
                   left |-> Scaled(IF ~closing THEN GATE_RAISE_S
                                   ELSE IF fails THEN GATE_MOVE_TIMEOUT_S + 1
                                   ELSE RAIL_GATE_LOWER_S)]

RunsOn(ms) ==
  /\ ms > 0
  /\ countdown_ms' = ms
  /\ UNCHANGED <<step, busy, gate_state, gate_task, wait>>

(* Steps that only time out into the next one. *)
AdvanceInLine ==
  /\ \/ step = "RAIL_YELLOW"     /\ EnterStep("RAIL_ALLRED", Scaled(VEHICLE_ALL_RED_S))
     \/ step = "RAIL_ALLRED"     /\ EnterStep("RAIL_PREARRIVAL", Scaled(RAIL_PREARRIVAL_QUIET_S))
     \/ step = "RAIL_PREARRIVAL" /\ EnterStep("RAIL_WARN", Scaled(RAIL_WARNING_LEAD_S))
     \/ step = "RAIL_OCCUPIED"   /\ EnterStep("RAIL_POST_HOLD", Scaled(RAIL_POST_TRAIN_HOLD_S))
     \/ step = "PED_WALK"        /\ EnterStep("PED_CLEARANCE", Scaled(PED_CLEARANCE_S))
  /\ UNCHANGED <<gate_state, gate_task, wait>>

(* The first close, a retry, or the first of a new round. *)
AdvanceToLower ==
  /\ step \in {"RAIL_WARN", "RAIL_GATE_FAULT"}
  /\ \E fails \in BOOLEAN : GateCommand(TRUE, fails)
  /\ gate_state' = "LOWERING"
  /\ EnterStep("RAIL_GATE_LOWER", Scaled(RAIL_GATE_LOWER_S))
  /\ UNCHANGED wait

AdvanceToRaise ==
  /\ step = "RAIL_POST_HOLD"
  /\ GateCommand(FALSE, FALSE)
  /\ gate_state' = "RAISING"
  /\ EnterStep("RAIL_GATE_RAISE", Scaled(RAIL_GATE_LOWER_S))
  /\ UNCHANGED wait

AdvanceRearm ==
  /\ step \in {"RAIL_GATE_LOWER", "RAIL_GATE_RAISE"}
  /\ EnterStep(step, SCALE_MS(GATE_WAIT_REARM_MS * TIME_SCALE_FACTOR))
  /\ UNCHANGED <<gate_state, gate_task, wait>>

AdvanceToRoad ==
  /\ step = "PED_CLEARANCE"
  /\ EnterStep("ROAD", 0)
  /\ SequenceEnds
  /\ UNCHANGED <<gate_state, gate_task>>

RoadGoesOn ==
  /\ step = "ROAD"
  /\ UNCHANGED <<step, countdown_ms, busy, gate_state, gate_task, wait>>

HandleTick ==
  /\ tick
  /\ tick' = FALSE
  /\ \/ RunsOn(countdown_ms - PHASE_TICK_MS)
     \/ /\ countdown_ms - PHASE_TICK_MS <= 0
        /\ \/ AdvanceInLine \/ AdvanceToLower \/ AdvanceToRaise \/ AdvanceRearm
           \/ AdvanceToRoad
     \/ RoadGoesOn
  /\ UNCHANGED <<train_signal, train, locked, failed>>

(* A crossing request is served at an all-red of the road. *)
PedestrianBeginWalk ==
  /\ step = "ROAD"
  /\ EnterStep("PED_WALK", Scaled(PED_WALK_S))
  /\ UNCHANGED <<tick, gate_state, train_signal, gate_task, train, locked, failed, wait>>

------------------------------------------------------------------------------
(* The gate *)

GateReports ==
  /\ gate_task.moving /\ gate_task.left < PHASE_TICK_MS
  /\ gate_task' = Idle

Locks ==
  /\ GateReports
  /\ gate_task.closing /\ ~gate_task.fails
  /\ gate_state' = "LOCKED" /\ train_signal' = "CLEAR"
  /\ EnterStep("RAIL_OCCUPIED", Scaled(RAIL_TRAIN_OCCUPY_S))
  /\ UNCHANGED <<tick, train, locked, failed, wait>>

FailsToLock ==
  /\ GateReports
  /\ gate_task.closing /\ gate_task.fails
  /\ gate_state' = "TIMEOUT_FAULT" /\ train_signal' = "RED"
  /\ EnterStep("RAIL_GATE_FAULT", Scaled(GATE_RETRY_INTERVAL_S))
  /\ failed' = TRUE
  /\ UNCHANGED <<tick, train, locked, wait>>

Opens ==
  /\ GateReports
  /\ ~gate_task.closing
  /\ gate_state' = "OPEN" /\ train_signal' = "CLEAR"
  /\ EnterStep("ROAD", 0)
  /\ SequenceEnds
  /\ locked' = 0 /\ failed' = FALSE
  /\ UNCHANGED <<tick, train>>

------------------------------------------------------------------------------
(* The train of the timetable: train_schedule_task() trips the sensor at   *)
(* the lead and reports the train clear when it has passed.  The next one  *)
(* is a headway away, when this closure is over (TrainSchedule).           *)

TrainApproaches ==
  /\ since = -1 /\ step \notin RailStep
  /\ since' = 0 /\ cleared' = FALSE
  /\ train_signal' = "CLEAR"
  /\ EnterStep("RAIL_YELLOW", Scaled(VEHICLE_YELLOW_S))
  /\ SequenceEnds
  /\ UNCHANGED <<tick, gate_state, gate_task, locked, failed>>

(* Mutant: the timetable's arrival is taken for its clear. *)
ClearAtArrival == SimMs(RAIL_PROTECT_LEAD_S)

ClearAt == SimMs(RAIL_PROTECT_LEAD_S + RAIL_TRAIN_OCCUPY_S)

TrainClears ==
  /\ ~cleared /\ since >= ClearAt
  /\ cleared' = TRUE
  /\ countdown_ms' = IF step = "RAIL_OCCUPIED" THEN 0 ELSE countdown_ms
  /\ UNCHANGED <<since, step, busy, tick, gate_state, train_signal, gate_task,
                 locked, failed, wait>>

TrainGone ==
  /\ cleared /\ step \notin RailStep
  /\ since' = -1 /\ cleared' = FALSE
  /\ UNCHANGED <<step, countdown_ms, busy, tick, gate_state, train_signal, gate_task,
                 locked, failed, wait>>

------------------------------------------------------------------------------
(* Central_Command_Server_Task refuses an override with a wait. *)

SecondsUntil(ms) == IF ms > 0 THEN (ms + 999) \div 1000 ELSE 0

(* The end of the wait, from now, of an answer given ms into this tick. *)
WaitTold(ms) == (SecondsUntil(busy - ms) + 1) * 1000 + ms

(* Seconds are rounded up: of all the moments of a tick, those of the      *)
(* least wait.                                                             *)
Shortest == {ms \in 0..(PHASE_TICK_MS - 1) : ms = 0 \/ (busy - ms) % 1000 = 0}

OverrideRefused ==
  /\ step \in RailStep \cup PedStep
  /\ promised' = TRUE
  /\ \E ms \in Shortest : promise' = IF promised /\ promise < WaitTold(ms) THEN promise
                                   ELSE WaitTold(ms)
  /\ UNCHANGED <<step, countdown_ms, busy, tick, gate_state, train_signal, gate_task, train,
                 locked, failed>>

------------------------------------------------------------------------------
(* A tick's time passes: the controller has handled the last one, and the  *)
(* gate's report and the timetable are at most a tick and GateLate late.   *)
TimePasses ==
  /\ ~tick
  /\ gate_task.moving => gate_task.left > -GateLate
  /\ ~cleared => since < ClearAt + PHASE_TICK_MS
  /\ tick' = TRUE
  /\ busy' = IF step = "ROAD" THEN 0 ELSE busy - PHASE_TICK_MS
  /\ gate_task' = IF gate_task.moving THEN [gate_task EXCEPT !.left = @ - PHASE_TICK_MS]
                  ELSE gate_task
  /\ since' = IF since = -1 \/ cleared THEN since ELSE since + PHASE_TICK_MS
  /\ locked' = IF gate_state = "LOCKED" THEN locked + PHASE_TICK_MS ELSE locked
  /\ promise' = IF promise > 0 THEN promise - PHASE_TICK_MS ELSE promise
  /\ UNCHANGED <<step, countdown_ms, gate_state, train_signal, cleared, failed, promised>>

Next == \/ HandleTick \/ PedestrianBeginWalk
        \/ Locks \/ FailsToLock \/ Opens
        \/ TrainApproaches \/ TrainClears \/ TrainGone
        \/ OverrideRefused \/ TimePasses

Spec == Init /\ [][Next]_vars
================================================================================
