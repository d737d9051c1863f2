--------------------------- MODULE RailTimingProps -----------------------------
(* What the times of common.h must achieve together. *)
EXTENDS RailTiming

(* No variable leaves its range; the gate moves only for a lowering or a   *)
(* raising the controller is waiting for (railway_protection.c:194,217).   *)
TypeOK ==
  /\ step \in Step /\ countdown_ms \in Nat /\ busy \in Int
  /\ tick \in BOOLEAN
  /\ gate_state \in {"OPEN", "LOWERING", "LOCKED", "RAISING", "TIMEOUT_FAULT"}
  /\ train_signal \in {"CLEAR", "RED"}
  /\ gate_task \in [moving : BOOLEAN, closing : BOOLEAN, fails : BOOLEAN, left : Int]
  /\ gate_task.moving <=> step \in {"RAIL_GATE_LOWER", "RAIL_GATE_RAISE"}
  /\ since \in Int /\ cleared \in BOOLEAN
  /\ locked \in Nat /\ failed \in BOOLEAN
  /\ promised \in BOOLEAN /\ promise \in Int

(* No attempt to close the gate has failed in this closure or is bound to. *)
NoFault == ~failed /\ ~(gate_task.moving /\ gate_task.fails)

(* "The wait covers the rest of the whole railway or pedestrian sequence"  *)
(* (central_command_server.c:33): no wait told in a sequence has elapsed   *)
(* while the sequence lasts, although a step ends on a tick and the gate   *)
(* in its own time.  railway_remaining_ms() counts no retry, so a closure  *)
(* with a gate fault is not covered.                                       *)
WaitCovers == promised /\ NoFault => promise > 0

(* What rounding up to ticks and a late gate may add to the lead: four     *)
(* steps and the pulse that starts them.                                   *)
Slack == 5 * PHASE_TICK_MS + GateLate

(* A close that fails is known later than one that succeeds. *)
FaultKnownAfter == IF NoFault THEN 0
                   ELSE Scaled(GATE_MOVE_TIMEOUT_S + 1) - Scaled(RAIL_GATE_LOWER_S)

TrainOnCrossing ==
  since > SimMs(RAIL_PROTECT_LEAD_S) + Slack + FaultKnownAfter /\ ~cleared

(* From its arrival to its clear, a train has the gate locked or a red     *)
(* light before it: "stop the train with a red train light"                *)
(* (railway_protection.c:149).  A gate that fails leaves the light clear   *)
(* for the second by which its timeout exceeds the lowering.               *)
TrainMeetsLockedGate == TrainOnCrossing => gate_state = "LOCKED" \/ train_signal = "RED"

(* "gate held down after the train" (common.h:68): also when the lead ran  *)
(* short by a tick per step, the gate is not raised before the timetable   *)
(* has reported the train clear, however many attempts the gate took.      *)
GateHeldUntilClear == gate_state = "RAISING" => cleared

(* "25s train on the crossing" (common.h:67): the gate is not raised       *)
(* before it has been down as long as a train takes.  After a retry it may *)
(* be: the timetable reports the clear by the clock.                       *)
TrainGetsItsTime ==
  gate_state = "RAISING" /\ NoFault => locked >= Scaled(RAIL_TRAIN_OCCUPY_S)

------------------------------------------------------------------------------
(* Why the wait covers: without a fault, what is left of a sequence, were  *)
(* each step to end in time, is never more than the published busy time,   *)
(* and the answer's extra second and the gate, which rises faster than it  *)
(* is given, make up for every step's tick and for a late gate.            *)

Due == IF gate_task.moving THEN gate_task.left
       ELSE IF tick THEN countdown_ms - PHASE_TICK_MS ELSE countdown_ms

After == IF step \in RailStep THEN Rest[step] ELSE PedestrianRemaining(step, 0)

Overrun == [RAIL_YELLOW |-> 0, RAIL_ALLRED |-> 100, RAIL_PREARRIVAL |-> 200, RAIL_WARN |-> 300,
            RAIL_GATE_LOWER |-> 400, RAIL_GATE_FAULT |-> 400, RAIL_OCCUPIED |-> 500 + GateLate,
            RAIL_POST_HOLD |-> 600 + GateLate, RAIL_GATE_RAISE |-> GateLate,
            PED_WALK |-> 0, PED_CLEARANCE |-> 100]

LeftIsCovered ==
  /\ step # "RAIL_GATE_FAULT"
  /\ gate_task.moving =>
       /\ gate_task.closing <=> step = "RAIL_GATE_LOWER"
       /\ ~gate_task.fails
       /\ gate_task.left > -GateLate - PHASE_TICK_MS
       /\ gate_task.left <= (IF tick THEN countdown_ms - PHASE_TICK_MS ELSE countdown_ms)
  /\ step # "ROAD" => busy >= Due + After
  /\ promised => step # "ROAD" /\ promise >= Due + After + 1000 - Overrun[step]

(* In a closure without a fault the published busy time and every wait     *)
(* told cover what is left (railway_protection.c:101-116); a fault in an   *)
(* earlier closure leaves nothing behind.                                  *)
WaitInv == NoFault => LeftIsCovered
================================================================================
