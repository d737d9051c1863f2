----------------------------- MODULE LinkAgeProps ------------------------------
(* What the dashboard's LINK column promises of a live LC. *)
EXTENDS LinkAge

(* No variable leaves its range. *)
TypeOK ==
  /\ step \in Step \ {"FAILSAFE"} /\ countdown_ms \in Nat /\ tick \in BOOLEAN
  /\ gate \in [left : Int, leads : Step \ {"FAILSAFE"}]
  /\ unheard \in Int /\ unheard >= -1 /\ unheard <= Delivery
  /\ age \in Nat

(* The most whole seconds time() may count since the record, between two   *)
(* ticks.                                                                  *)
AgeShown == (age + PHASE_TICK_MS - 1 + 999) \div 1000

(* An LC that is up and reports is not shown STALE (central_controller.c,  *)
(* "a quiet link is normal for up to one step"), though a step may end     *)
(* without a report, the gate may be late and a round of sends be lost.    *)
LiveLinkNotStale == AgeShown <= CC_LINK_STALE_S

(* Why: the next notification is never further away than the longest       *)
(* step, through the steps that end in silence.                            *)
Due == IF step \in GateMoves THEN gate.left + GateLate + PHASE_TICK_MS
       ELSE IF tick THEN countdown_ms - PHASE_TICK_MS ELSE countdown_ms

After ==
  IF step \notin Silent THEN 0
  ELSE PHASE_TICK_MS +
    CASE step \in {"NS_YELLOW", "EW_YELLOW"} -> Scaled(VEHICLE_ALL_RED_S)
      [] step = "RAIL_ALLRED"     -> Scaled(RAIL_PREARRIVAL_QUIET_S)
      [] step = "RAIL_GATE_FAULT" -> Scaled(GATE_MOVE_TIMEOUT_S + 1) + GateLate + PHASE_TICK_MS
      [] step = "RAIL_POST_HOLD"  -> Scaled(GATE_RAISE_S) + GateLate + PHASE_TICK_MS

LongestSilence == Scaled(VEHICLE_GREEN_S)

NeverLongSilent ==
  /\ Due + After <= LongestSilence
  /\ unheard = -1 => age + Due + After <= LongestSilence
  /\ unheard # -1 => age <= LongestSilence + PHASE_TICK_MS + unheard
================================================================================
