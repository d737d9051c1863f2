----------------------------- MODULE CommonTimes ------------------------------
(***************************************************************************)
(* The durations the tasks and the two programs share (common.h, and the   *)
(* gate's own in boom_gate.c and railway_protection.c), and their scaling. *)
(***************************************************************************)
EXTENDS Integers

CONSTANT TIME_SCALE_FACTOR

PHASE_TICK_MS           == 100
VEHICLE_GREEN_S         == 45
VEHICLE_YELLOW_S        == 3
VEHICLE_ALL_RED_S       == 2
PED_WALK_S              == 12
PED_CLEARANCE_S         == 4
RAIL_PROTECT_LEAD_S     == 50
RAIL_WARNING_LEAD_S     == 15
RAIL_GATE_LOWER_S       == 10
(* Mutant: the gate is not held down after the train. *)
NoHold                  == 0
RAIL_POST_TRAIN_HOLD_S  == 5
RAIL_TRAIN_OCCUPY_S     == 25

(* Mutant: the time the gate takes is not part of the lead. *)
QuietUntilWarning       == RAIL_PROTECT_LEAD_S - VEHICLE_YELLOW_S - VEHICLE_ALL_RED_S
                             - RAIL_WARNING_LEAD_S
RAIL_PREARRIVAL_QUIET_S == RAIL_PROTECT_LEAD_S - VEHICLE_YELLOW_S - VEHICLE_ALL_RED_S
                             - RAIL_WARNING_LEAD_S - RAIL_GATE_LOWER_S
GATE_RETRY_INTERVAL_S   == 5
STATUS_MAX_RETRY        == 3
STATUS_RETRY_DELAY_S    == 5
GATE_RAISE_S            == RAIL_GATE_LOWER_S \div 2
GATE_MOVE_TIMEOUT_S     == RAIL_GATE_LOWER_S
GATE_WAIT_REARM_MS      == 1000

SCALE_MS(ms) == (ms + TIME_SCALE_FACTOR - 1) \div TIME_SCALE_FACTOR
Scaled(s)    == SCALE_MS(s * 1000)

(* The build refuses a factor that leaves the all-red less than 4 ticks.   *)
ASSUME ScaleAssumption ==
  /\ TIME_SCALE_FACTOR \in Nat \ {0}
  /\ (VEHICLE_ALL_RED_S * 1000) \div TIME_SCALE_FACTOR >= 4 * PHASE_TICK_MS
================================================================================
