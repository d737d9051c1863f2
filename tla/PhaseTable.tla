------------------------------ MODULE PhaseTable ------------------------------
(***************************************************************************)
(* The steps of the local controller and the table that says which         *)
(* movements each of them permits (lc_context.h, phase_table.c).  Constant *)
(* level: no variable is declared here.                                    *)
(***************************************************************************)

Approach == {"NS", "EW"}
Other(a) == IF a = "NS" THEN "EW" ELSE "NS"

(* The three steps of the vehicle cycle, per approach. *)
Green(a)  == IF a = "NS" THEN "NS_GREEN"  ELSE "EW_GREEN"
Yellow(a) == IF a = "NS" THEN "NS_YELLOW" ELSE "EW_YELLOW"
AllRed(a) == IF a = "NS" THEN "NS_ALLRED" ELSE "EW_ALLRED"

VehicleStep == {"NS_GREEN", "NS_YELLOW", "NS_ALLRED",
                "EW_GREEN", "EW_YELLOW", "EW_ALLRED"}
PedStep     == {"PED_WALK", "PED_CLEARANCE"}
RailStep    == {"RAIL_YELLOW", "RAIL_ALLRED", "RAIL_PREARRIVAL", "RAIL_WARN",
                "RAIL_GATE_LOWER", "RAIL_GATE_FAULT", "RAIL_OCCUPIED",
                "RAIL_POST_HOLD", "RAIL_GATE_RAISE"}
Step        == VehicleStep \cup PedStep \cup RailStep
                 \cup {"OVERRIDE_HOLD", "FAILSAFE"}

(* Movements, per approach: the through movement and the right-turn arrow. *)
Through(a) == IF a = "NS" THEN "NS_THROUGH" ELSE "EW_THROUGH"
Right(a)   == IF a = "NS" THEN "NS_RIGHT"   ELSE "EW_RIGHT"
Movement   == {"NS_THROUGH", "EW_THROUGH", "NS_RIGHT", "EW_RIGHT", "PED"}

(* g_phase_table, read by column: both arrows run during either green, and *)
(* both roads show yellow while the railway clears the intersection.       *)
Allows(s, m) ==
  \/ \E a \in Approach : m = Through(a) /\ s \in {Green(a), Yellow(a), "RAIL_YELLOW"}
  \/ \E a, b \in Approach : m = Right(a) /\ s = Green(b)
  \/ m = "PED" /\ s \in PedStep

(* The four conflicts phase_table_validate() looks for in one row. *)
RowConflict(s) ==
  \/ Allows(s, "NS_THROUGH") /\ Allows(s, "EW_THROUGH") /\ s # "RAIL_YELLOW"
  \/ Allows(s, "PED") /\ \E m \in Movement \ {"PED"} : Allows(s, m)
  \/ s \in RailStep \ {"RAIL_YELLOW"} /\ \E m \in Movement : Allows(s, m)
  \/ s \in {"FAILSAFE", "RAIL_GATE_FAULT"} /\ \E m \in Movement : Allows(s, m)

(* The startup check of UC-01: the controller drives no signal unless this *)
(* holds.                                                                  *)
TableSafe == \A s \in Step : ~RowConflict(s)
================================================================================
