---------------------------- MODULE VehicleControl -----------------------------
(***************************************************************************)
(* What a timer tick does before the countdown is looked at, and what the  *)
(* end of a countdown does in the vehicle cycle and the pedestrian         *)
(* crossing: mode_schedule.c, sensor_driven.c, fixed_timing.c,             *)
(* pedestrian.c.  The Advance actions are only taken by the tick of        *)
(* LocalController, so they see the arrows, the mode and the minimum green *)
(* as the tick has just left them.                                         *)
(***************************************************************************)
EXTENDS LcContext

------------------------------------------------------------------------------
(* The tick's prelude: arrows, then the mode, then the early end of a      *)
(* green, which already sees the new mode.                                 *)

TickedArrow == [a \in Approach |-> IF arrow[a] > 0 /\ Allows(step, Right(a))
                                   THEN arrow[a] - 1 ELSE 0]

ModeFor(p) == IF p = "PEAK" THEN "FIXED_TIMING" ELSE "SENSOR_DRIVEN"

ScheduledMode == IF sim_period = g_period THEN mode ELSE ModeFor(sim_period)
TickReports   == IF ScheduledMode # mode THEN Notify(reports) ELSE reports

ModeScheduleTick ==
  /\ mode' = ScheduledMode
  /\ g_period' = sim_period

(* The approach sensor_driven_tick() watches, if it watches one. *)
Watched == {a \in Approach : ScheduledMode = "SENSOR_DRIVEN" /\ step = Green(a)}

MinGreenNow == \/ min_green_elapsed
               \/ Watched # {} /\ Duration[step] - (countdown - 1) >= MinGreen

(* Mutant: an empty approach ends its green at once. *)
EndsEarlyAtOnce(a) == a \in Watched /\ ~demand[a]

EndsEarly(a) == a \in Watched /\ MinGreenNow /\ ~demand[a]

TickedDemand == [a \in Approach |-> IF EndsEarly(a) THEN FALSE ELSE demand[a]]

Remaining == IF \E a \in Approach : EndsEarly(a) THEN 0 ELSE countdown - 1

------------------------------------------------------------------------------
(* fixed_timing_advance() *)

AdvanceGreen(a) ==
  /\ step = Green(a)
  /\ vehicle' = [vehicle EXCEPT ![a] = "YELLOW"]
  /\ EnterStep(Yellow(a), TickedArrow)
  /\ reports' = Notify(TickReports)
  /\ min_green_elapsed' = MinGreenNow
  /\ UNCHANGED <<ped_state, phase, ped_request_pending>>

(* Mutant: the head is left yellow. *)
AdvanceYellowNotRed(a) ==
  /\ step = Yellow(a)
  /\ EnterStep(AllRed(a), TickedArrow)
  /\ reports' = TickReports
  /\ UNCHANGED <<vehicle, ped_state, phase, ped_request_pending, min_green_elapsed>>

(* No notify_status() here: the CC is not told of the all-red. *)
AdvanceYellow(a) ==
  /\ step = Yellow(a)
  /\ vehicle' = [vehicle EXCEPT ![a] = "RED"]
  /\ EnterStep(AllRed(a), TickedArrow)
  /\ reports' = TickReports
  /\ UNCHANGED <<ped_state, phase, ped_request_pending, min_green_elapsed>>

(* pedestrian_begin_walk(), from either all-red. *)
BeginWalk(a) ==
  /\ step = AllRed(a)
  /\ ped_request_pending
  /\ ped_state' = "WALK"
  /\ EnterStep("PED_WALK", TickedArrow)
  /\ phase' = "PED"
  /\ reports' = Notify(TickReports)
  /\ UNCHANGED <<vehicle, ped_request_pending, min_green_elapsed>>

(* Mutant: the green does not give way to a pending request. *)
AdvanceAllRedFirst(a) ==
  /\ step = AllRed(a)
  /\ BeginGreen(Other(a), TickedArrow)
  /\ phase' = Other(a)
  /\ reports' = Notify(TickReports)
  /\ UNCHANGED <<ped_state, ped_request_pending>>

AdvanceAllRed(a) ==
  /\ step = AllRed(a)
  /\ ~ped_request_pending
  /\ BeginGreen(Other(a), TickedArrow)
  /\ phase' = Other(a)
  /\ reports' = Notify(TickReports)
  /\ UNCHANGED <<ped_state, ped_request_pending>>

AdvanceOverrideHold ==
  /\ step = "OVERRIDE_HOLD"
  /\ BeginGreen("NS", TickedArrow)
  /\ phase' = "NS"
  /\ reports' = Notify(TickReports)
  /\ UNCHANGED <<ped_state, ped_request_pending>>

------------------------------------------------------------------------------
(* pedestrian_advance() *)

AdvanceWalk ==
  /\ step = "PED_WALK"
  /\ ped_state' = "CLEARANCE"
  /\ EnterStep("PED_CLEARANCE", TickedArrow)
  /\ reports' = Notify(TickReports)
  /\ UNCHANGED <<vehicle, phase, ped_request_pending, min_green_elapsed>>

(* Always hands back to EW green, whichever all-red the crossing started   *)
(* from.                                                                   *)
AdvanceClearance ==
  /\ step = "PED_CLEARANCE"
  /\ ped_state' = "DONT_WALK"
  /\ ped_request_pending' = FALSE
  /\ BeginGreen("EW", TickedArrow)
  /\ phase' = "EW"
  /\ reports' = Notify(TickReports)

AdvanceTraffic ==
  /\ \/ \E a \in Approach : \/ AdvanceGreen(a)
                            \/ AdvanceYellow(a)
                            \/ BeginWalk(a)
                            \/ AdvanceAllRed(a)
     \/ AdvanceOverrideHold
     \/ AdvanceWalk
     \/ AdvanceClearance
  /\ UNCHANGED <<crossing, gate_task>>
================================================================================
