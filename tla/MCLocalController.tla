--------------------------- MODULE MCLocalController ---------------------------
(* Small instances of LocalControllerProps for TLC.  Steps last one tick,  *)
(* but for the greens, which are long enough for an arrow to expire and    *)
(* for the minimum green to pass before they end.                          *)
EXTENDS LocalControllerProps

MCDuration   == [s \in Step |-> IF s \in {"NS_GREEN", "EW_GREEN"} THEN 3 ELSE 1]
LongSteps    == [s \in Step |-> IF s \in {"NS_GREEN", "EW_GREEN"} THEN 3
                                ELSE IF s \in {"RAIL_OCCUPIED", "OVERRIDE_HOLD"} THEN 2
                                ELSE 1]
================================================================================
