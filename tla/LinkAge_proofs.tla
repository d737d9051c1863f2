---------------------------- MODULE LinkAge_proofs -----------------------------
(***************************************************************************)
(* The dashboard does not show a live LC as STALE, for every time scale    *)
(* the build admits, every gate report at most five seconds late and at    *)
(* most one lost round of sends.                                           *)
(***************************************************************************)
EXTENDS LinkAgeProps, CommonTimes_proofs

(* The inductive invariant: the gate's report is at most GateLate late,    *)
(* and leads where its move can lead.                                      *)
GateInTime ==
  step \in GateMoves => gate.left > -GateLate - PHASE_TICK_MS

IInv == TypeOK /\ GateInTime /\ NeverLongSilent

LSteps == Step \ {"FAILSAFE"}

(* The gate's report is at most five seconds late. *)
Punctual == GateLate <= 5000

------------------------------------------------------------------------------
(* Durations *)

(* A step is no longer than the longest silence, together with the silence *)
(* that follows it.                                                        *)
LEMMA StepsAreShort ==
  ASSUME Punctual
  PROVE
  /\ LongestSilence \in Nat
  /\ \A s \in LSteps : Scaled(Seconds[s]) \in Nat
  /\ \A s \in LSteps \ (Silent \cup GateMoves) : Scaled(Seconds[s]) <= LongestSilence
  /\ \A s \in {"NS_YELLOW", "EW_YELLOW"} :
       Scaled(Seconds[s]) + PHASE_TICK_MS + Scaled(VEHICLE_ALL_RED_S) <= LongestSilence
  /\ Scaled(Seconds["RAIL_ALLRED"]) + PHASE_TICK_MS + Scaled(RAIL_PREARRIVAL_QUIET_S)
       <= LongestSilence
  /\ Scaled(Seconds["RAIL_GATE_FAULT"]) + PHASE_TICK_MS + Scaled(GATE_MOVE_TIMEOUT_S + 1)
       + GateLate + PHASE_TICK_MS <= LongestSilence
  /\ Scaled(Seconds["RAIL_POST_HOLD"]) + PHASE_TICK_MS + Scaled(GATE_RAISE_S)
       + GateLate + PHASE_TICK_MS <= LongestSilence
<1>1. TIME_SCALE_FACTOR \in {1, 2, 3, 4, 5}
  BY Factors, SMT
<1> USE DEF LongestSilence, Scaled, SCALE_MS, VEHICLE_GREEN_S, PHASE_TICK_MS, VEHICLE_ALL_RED_S,
      RAIL_PREARRIVAL_QUIET_S, RAIL_PROTECT_LEAD_S, VEHICLE_YELLOW_S, RAIL_WARNING_LEAD_S,
      RAIL_GATE_LOWER_S, GATE_MOVE_TIMEOUT_S, GATE_RAISE_S, GATE_RETRY_INTERVAL_S,
      RAIL_POST_TRAIN_HOLD_S, RAIL_TRAIN_OCCUPY_S, PED_WALK_S, PED_CLEARANCE_S, OVERRIDE_HOLD_S
<1>2. \A n \in {2, 3, 4, 5, 10, 12, 15, 20, 25, 45} : Scaled(n) \in Nat /\ Scaled(n) <= Scaled(45)
  BY <1>1, SMT
<1>3. \A s \in LSteps : Seconds[s] \in {2, 3, 4, 5, 10, 12, 15, 20, 25, 45}
  BY SMT DEF LSteps, Step, VehicleStep, PedStep, RailStep, Seconds
<1>4. LongestSilence = Scaled(45)
  BY SMT
<1>5. \A s \in LSteps : Scaled(Seconds[s]) \in Nat /\ Scaled(Seconds[s]) <= Scaled(45)
  BY <1>2, <1>3
<1>6. \A s \in {"NS_YELLOW", "EW_YELLOW"} :
        Scaled(Seconds[s]) + PHASE_TICK_MS + Scaled(VEHICLE_ALL_RED_S) <= LongestSilence
  BY <1>1, SMT DEF Seconds
<1>7. Scaled(Seconds["RAIL_ALLRED"]) + PHASE_TICK_MS + Scaled(RAIL_PREARRIVAL_QUIET_S)
        <= LongestSilence
  BY <1>1, SMT DEF Seconds
<1>8. GateLate \in 0..5000
  BY LinkAssumption, SMT DEF Punctual
<1>9. Scaled(Seconds["RAIL_GATE_FAULT"]) + PHASE_TICK_MS + Scaled(GATE_MOVE_TIMEOUT_S + 1)
        + GateLate + PHASE_TICK_MS <= LongestSilence
  BY <1>1, <1>8, SMT DEF Seconds
<1>10. Scaled(Seconds["RAIL_POST_HOLD"]) + PHASE_TICK_MS + Scaled(GATE_RAISE_S)
        + GateLate + PHASE_TICK_MS <= LongestSilence
  BY <1>1, <1>8, SMT DEF Seconds
<1>11. LongestSilence \in Nat
  BY <1>4, <1>2
<1>. QED BY <1>4, <1>5, <1>6, <1>7, <1>9, <1>10, <1>11

(* A sum is no greater than one of greater parts. *)
LEMMA Sums == \A b, d, e, a \in Int : e <= d /\ d + a <= b => e + a <= b
BY SMT

LEMMA NatIsInt == \A n \in Nat : n \in Int
BY SMT

(* The times of the gate's moves. *)
LEMMA Travels ==
  /\ Scaled(RAIL_GATE_LOWER_S) \in Nat /\ Scaled(GATE_MOVE_TIMEOUT_S + 1) \in Nat
  /\ Scaled(GATE_RAISE_S) \in Nat
  /\ Scaled(RAIL_GATE_LOWER_S) <= Scaled(GATE_MOVE_TIMEOUT_S + 1)
<1>1. TIME_SCALE_FACTOR \in {1, 2, 3, 4, 5}
  BY Factors, SMT
<1>. QED BY <1>1, SMT DEF Scaled, SCALE_MS, RAIL_GATE_LOWER_S, GATE_MOVE_TIMEOUT_S, GATE_RAISE_S

(* Where a move leads, and within what time. *)
LEMMA Moves ==
  ASSUME Punctual, NEW s \in LSteps, NEW g \in MovesIn(s)
  PROVE  /\ g \in [left : Int, leads : LSteps]
         /\ s \in GateMoves => g.left >= 0 /\ g.left + GateLate + PHASE_TICK_MS <= LongestSilence
<1>1. /\ Scaled(RAIL_GATE_LOWER_S) \in Nat /\ Scaled(GATE_MOVE_TIMEOUT_S + 1) \in Nat
      /\ Scaled(GATE_RAISE_S) \in Nat
      /\ Scaled(RAIL_GATE_LOWER_S) <= Scaled(GATE_MOVE_TIMEOUT_S + 1)
  BY Travels
<1>2. /\ Scaled(GATE_MOVE_TIMEOUT_S + 1) + GateLate + PHASE_TICK_MS <= LongestSilence
      /\ Scaled(GATE_RAISE_S) + GateLate + PHASE_TICK_MS <= LongestSilence
  <2>1. Scaled(Seconds["RAIL_GATE_FAULT"]) \in Nat /\ Scaled(Seconds["RAIL_POST_HOLD"]) \in Nat
    BY StepsAreShort DEF LSteps, Step, RailStep
  <2>. QED BY <1>1, <2>1, StepsAreShort, LinkAssumption, SMT DEF PHASE_TICK_MS
<1>3. {"RAIL_OCCUPIED", "RAIL_GATE_FAULT", "NS_GREEN"} \subseteq LSteps /\ 0 \in Int
  BY SMT DEF LSteps, Step, RailStep, VehicleStep
<1>4. CASE s = "RAIL_GATE_LOWER"
  <2>1. \/ g = [left |-> Scaled(RAIL_GATE_LOWER_S), leads |-> "RAIL_OCCUPIED"]
        \/ g = [left |-> Scaled(GATE_MOVE_TIMEOUT_S + 1), leads |-> "RAIL_GATE_FAULT"]
    BY <1>4, SMT DEF MovesIn
  <2>2. g \in [left : Nat, leads : LSteps] /\ g.left <= Scaled(GATE_MOVE_TIMEOUT_S + 1)
    BY <1>1, <1>3, <2>1, SMT
  <2>3. g.left \in Nat
    BY <2>2
  <2>. QED BY <1>1, <1>2, <1>3, <2>2, <2>3, StepsAreShort, LinkAssumption, SMT DEF PHASE_TICK_MS
<1>5. CASE s = "RAIL_GATE_RAISE"
  BY <1>1, <1>2, <1>3, <1>5, LinkAssumption, SMT DEF MovesIn, PHASE_TICK_MS
<1>6. CASE s \notin GateMoves
  <2>1. g = [left |-> 0, leads |-> s]
    BY <1>6 DEF MovesIn, GateMoves
  <2>. QED BY <1>6, <2>1, <1>3
<1>. QED BY <1>4, <1>5, <1>6 DEF GateMoves

------------------------------------------------------------------------------
(* Types *)

LEMMA TypesStep ==
  ASSUME Punctual, TypeOK, [Next]_vars
  PROVE  TypeOK'
<1>1. Delivery \in Nat /\ PHASE_TICK_MS \in Nat
  BY LinkAssumption, SMT DEF Delivery, LostRound, STATUS_MAX_RETRY, STATUS_SEND_TIMEOUT_MS,
     STATUS_RESEND_GAP_MS, STATUS_RETRY_DELAY_S, PHASE_TICK_MS
<1>2. ASSUME NEW s \in LSteps, EnterStep(s)
      PROVE  step' \in LSteps /\ countdown_ms' \in Nat /\ gate' \in [left : Int, leads : LSteps]
  BY <1>2, StepsAreShort, Moves DEF EnterStep
<1>3. ASSUME Notify
      PROVE  unheard' \in Int /\ unheard' >= -1 /\ unheard' <= Delivery
  BY <1>1, <1>3, SMT DEF Notify, TypeOK
<1>4. CASE HandleTick
  <2>1. tick' \in BOOLEAN
    <3>1. tick' = FALSE
      BY <1>4, SMT DEF HandleTick
    <3>. QED BY <3>1
  <2>2. age' \in Nat
    BY <1>4 DEF HandleTick, TypeOK
  <2>3. CASE RunsOn
    <3>1. countdown_ms' \in Nat
      BY <1>1, <2>3, SMT DEF RunsOn, TypeOK
    <3>2. step' = step /\ gate' = gate /\ unheard' = unheard
      BY <2>3 DEF RunsOn
    <3>. QED BY <2>1, <2>2, <3>1, <3>2 DEF TypeOK
  <2>4. CASE AdvanceStep
    <3>1. PICK s \in Follows[step] : EnterStep(s)
      BY <2>4 DEF AdvanceStep
    <3>2. s \in LSteps
      BY SMT DEF Follows, TypeOK, LSteps, Step, RailStep, VehicleStep, PedStep
    <3>3. step' \in LSteps /\ countdown_ms' \in Nat /\ gate' \in [left : Int, leads : LSteps]
      BY <1>2, <3>1, <3>2
    <3>4. unheard' \in Int /\ unheard' >= -1 /\ unheard' <= Delivery
      <4>1. CASE step \in Silent
        BY <2>4, <4>1 DEF AdvanceStep, TypeOK
      <4>2. CASE step \notin Silent
        BY <1>3, <2>4, <4>2 DEF AdvanceStep
      <4>. QED BY <4>1, <4>2
    <3>. QED BY <2>1, <2>2, <3>3, <3>4 DEF TypeOK, LSteps
  <2>5. CASE Rearm
    <3>1. step' = step /\ gate' = gate /\ unheard' = unheard /\ countdown_ms' \in Nat
      BY <2>5, Durations DEF Rearm
    <3>. QED BY <2>1, <2>2, <3>1 DEF TypeOK
  <2>. QED BY <1>4, <2>3, <2>4, <2>5 DEF HandleTick
<1>5. CASE GateReports
  BY <1>2, <1>3, <1>5 DEF GateReports, TypeOK, LSteps
<1>6. CASE TrainApproaches \/ OverrideApplied
  <2>1. {"RAIL_YELLOW", "OVERRIDE_HOLD"} \subseteq LSteps
    BY SMT DEF LSteps, Step, RailStep
  <2>. QED BY <1>2, <1>3, <1>6, <2>1 DEF TrainApproaches, OverrideApplied, TypeOK, LSteps
<1>7. CASE TrainClears \/ ModeChanges
  BY <1>3, <1>7, SMT DEF TrainClears, ModeChanges, TypeOK
<1>8. CASE ReportRecorded
  BY <1>1, <1>8, SMT DEF ReportRecorded, TypeOK
<1>9. CASE TimePasses
  <2>1. gate' \in [left : Int, leads : LSteps]
    BY <1>1, <1>9, SMT DEF TimePasses, TypeOK, LSteps
  <2>2. unheard' \in Int /\ unheard' >= -1 /\ unheard' <= Delivery
    BY <1>1, <1>9, SMT DEF TimePasses, TypeOK
  <2>3. age' \in Nat
    BY <1>1, <1>9, SMT DEF TimePasses, TypeOK
  <2>. QED BY <1>9, <2>1, <2>2, <2>3 DEF TimePasses, TypeOK, LSteps
<1>10. CASE UNCHANGED vars
  BY <1>10 DEF vars, TypeOK
<1>. QED BY <1>4, <1>5, <1>6, <1>7, <1>8, <1>9, <1>10 DEF Next

------------------------------------------------------------------------------
(* The longest silence *)

(* A step is entered with what is due of it, and after it, in bounds. *)
LEMMA Enters ==
  ASSUME Punctual, NEW s \in LSteps, EnterStep(s), tick' \in BOOLEAN
  PROVE  /\ Due' \in Int /\ After' \in Int /\ Due' + After' <= LongestSilence
         /\ s \in GateMoves => gate'.left >= 0
         /\ s \notin GateMoves => Due' <= Scaled(Seconds[s])
<1>1. step' = s /\ countdown_ms' = Scaled(Seconds[s]) /\ gate' \in MovesIn(s)
  BY DEF EnterStep
<1>2. GateLate \in Nat /\ LongestSilence \in Nat /\ Scaled(Seconds[s]) \in Nat
      /\ PHASE_TICK_MS \in Nat
  BY LinkAssumption, StepsAreShort, SMT DEF PHASE_TICK_MS
<1>3. gate'.left \in Int
  BY <1>1, Moves
<1>4. CASE s \in GateMoves
  <2>1. After' = 0
    BY <1>1, <1>4 DEF After, GateMoves, Silent
  <2>2. Due' = gate'.left + GateLate + PHASE_TICK_MS
    BY <1>1, <1>4 DEF Due
  <2>3. gate'.left >= 0 /\ gate'.left + GateLate + PHASE_TICK_MS <= LongestSilence
    BY <1>1, <1>4, Moves
  <2>. QED BY <1>2, <1>3, <1>4, <2>1, <2>2, <2>3, SMT
<1>5. CASE s \notin GateMoves
  <2>1. Due' \in Int /\ Due' <= Scaled(Seconds[s])
    BY <1>1, <1>2, <1>5, SMT DEF Due
  <2>2. After' \in Int /\ Scaled(Seconds[s]) + After' <= LongestSilence
    <3>1. CASE s \notin Silent
      <4>1. After' = 0
        BY <1>1, <3>1 DEF After
      <4>2. Scaled(Seconds[s]) <= LongestSilence
        BY <1>5, <3>1, StepsAreShort
      <4>. QED BY <1>2, <4>1, <4>2, SMT
    <3>2. CASE s \in {"NS_YELLOW", "EW_YELLOW"}
      <4>1. After' = PHASE_TICK_MS + Scaled(VEHICLE_ALL_RED_S)
        BY <1>1, <3>2, SMT DEF After, Silent
      <4>2. Scaled(VEHICLE_ALL_RED_S) \in Nat
        BY Durations, SMT DEF VEHICLE_ALL_RED_S
      <4>. QED BY <1>2, <3>2, <4>1, <4>2, StepsAreShort, SMT
    <3>3. CASE s = "RAIL_ALLRED"
      <4>1. After' = PHASE_TICK_MS + Scaled(RAIL_PREARRIVAL_QUIET_S)
        BY <1>1, <3>3, SMT DEF After, Silent
      <4>2. Scaled(RAIL_PREARRIVAL_QUIET_S) \in Nat
        BY StepsAreShort DEF LSteps, Step, RailStep, Seconds
      <4>. QED BY <1>2, <3>3, <4>1, <4>2, StepsAreShort, SMT
    <3>4. CASE s = "RAIL_GATE_FAULT"
      <4>1. After' = PHASE_TICK_MS + (Scaled(GATE_MOVE_TIMEOUT_S + 1) + GateLate + PHASE_TICK_MS)
        BY <1>1, <3>4, SMT DEF After, Silent
      <4>2. Scaled(GATE_MOVE_TIMEOUT_S + 1) \in Nat
        BY Durations, SMT DEF GATE_MOVE_TIMEOUT_S, RAIL_GATE_LOWER_S
      <4>. QED BY <1>2, <3>4, <4>1, <4>2, StepsAreShort, SMT
    <3>5. CASE s = "RAIL_POST_HOLD"
      <4>1. After' = PHASE_TICK_MS + (Scaled(GATE_RAISE_S) + GateLate + PHASE_TICK_MS)
        BY <1>1, <3>5, SMT DEF After, Silent
      <4>2. Scaled(GATE_RAISE_S) \in Nat
        BY Durations, SMT DEF GATE_RAISE_S, RAIL_GATE_LOWER_S
      <4>. QED BY <1>2, <3>5, <4>1, <4>2, StepsAreShort, SMT
    <3>. QED BY <3>1, <3>2, <3>3, <3>4, <3>5 DEF Silent
  <2>3. Due' + After' <= LongestSilence
    BY <1>2, <2>1, <2>2, Sums, NatIsInt, Zenon
  <2>. QED BY <1>5, <2>1, <2>2, <2>3, Zenon
<1>. QED BY <1>4, <1>5

------------------------------------------------------------------------------
(* The invariant as a relation of numbers: age, unheard, Due and After. *)
InBounds(a, u, d, f) ==
  /\ d + f <= LongestSilence
  /\ u = -1 => a + d + f <= LongestSilence
  /\ u # -1 => a <= LongestSilence + PHASE_TICK_MS + u

LEMMA BoundsNow  == NeverLongSilent <=> InBounds(age, unheard, Due, After)
BY DEF NeverLongSilent, InBounds

LEMMA BoundsNext == NeverLongSilent' <=> InBounds(age', unheard', Due', After')
BY DEF NeverLongSilent, InBounds, LongestSilence

(* What a notification, a step without one, a tick and a record do to it. *)
LEMMA Bounds ==
  ASSUME Punctual, NEW a \in Nat, NEW u \in Int, NEW d \in Int, NEW f \in Int, InBounds(a, u, d, f)
  PROVE  /\ \A d2, f2 \in Int :
              d + f >= -PHASE_TICK_MS /\ d2 + f2 <= LongestSilence
                => InBounds(a, IF u = -1 THEN 0 ELSE u, d2, f2)
         /\ \A d2, f2 \in Int : d2 + f2 <= d + f => InBounds(a, u, d2, f2)
         /\ \A d2 \in Int : d2 = d - PHASE_TICK_MS /\ u >= -1
              => InBounds(a + PHASE_TICK_MS, IF u = -1 THEN -1 ELSE u + PHASE_TICK_MS, d2, f)
         /\ InBounds(0, -1, d, f)
<1> USE DEF InBounds
<1>1. LongestSilence \in Nat /\ PHASE_TICK_MS \in Nat
  BY StepsAreShort, SMT DEF PHASE_TICK_MS
<1>. QED BY <1>1, SMT

LEMMA DueTypes ==
  ASSUME TypeOK, GateInTime
  PROVE  Due \in Int /\ After \in Nat /\ Due >= -PHASE_TICK_MS
<1>1. PHASE_TICK_MS \in Nat /\ GateLate \in Nat
  BY LinkAssumption, SMT DEF PHASE_TICK_MS
<1>2. Due \in Int /\ Due >= -PHASE_TICK_MS
  BY <1>1, SMT DEF Due, TypeOK, GateInTime
<1>3. /\ Scaled(VEHICLE_ALL_RED_S) \in Nat /\ Scaled(RAIL_PREARRIVAL_QUIET_S) \in Nat
      /\ Scaled(GATE_MOVE_TIMEOUT_S + 1) \in Nat /\ Scaled(GATE_RAISE_S) \in Nat
  BY Durations, SMT DEF VEHICLE_ALL_RED_S, RAIL_PREARRIVAL_QUIET_S, RAIL_PROTECT_LEAD_S,
     VEHICLE_YELLOW_S, RAIL_WARNING_LEAD_S, RAIL_GATE_LOWER_S, GATE_MOVE_TIMEOUT_S, GATE_RAISE_S
<1>4. After \in Nat
  BY <1>1, <1>3, SMT DEF After, Silent
<1>. QED BY <1>2, <1>4

(* A step that is entered with a word to the CC. *)
LEMMA ToldStep ==
  ASSUME Punctual, IInv, NEW s \in LSteps, EnterStep(s), tick' \in BOOLEAN, Notify, age' = age
  PROVE  GateInTime' /\ NeverLongSilent'
<1>1. /\ Due \in Int /\ After \in Nat /\ Due >= -PHASE_TICK_MS
      /\ age \in Nat /\ unheard \in Int /\ InBounds(age, unheard, Due, After)
  BY DueTypes, BoundsNow DEF IInv, TypeOK
<1>2. /\ Due' \in Int /\ After' \in Int /\ Due' + After' <= LongestSilence
      /\ s \in GateMoves => gate'.left >= 0
  BY Enters
<1>3. Due + After >= -PHASE_TICK_MS /\ After \in Int
  BY <1>1, SMT DEF PHASE_TICK_MS
<1>4. unheard' = IF unheard = -1 THEN 0 ELSE unheard
  BY DEF Notify
<1>5. NeverLongSilent'
  BY <1>1, <1>2, <1>3, <1>4, Bounds, BoundsNext, Zenon
<1>6. GateInTime'
  <2>1. gate'.left \in Int /\ step' = s
    BY Moves DEF EnterStep
  <2>. QED BY <1>2, <2>1, LinkAssumption, SMT DEF GateInTime, PHASE_TICK_MS
<1>. QED BY <1>5, <1>6

(* A step that ends in silence hands on what was due after it. *)
LEMMA SilentStep ==
  ASSUME Punctual, IInv, tick, tick' = FALSE, step \in Silent, NEW s \in Follows[step], EnterStep(s)
  PROVE  /\ Due' \in Int /\ After' = 0 /\ Due' <= Due + After
         /\ s \in GateMoves => gate'.left >= 0 /\ gate'.left \in Int
<1>1. step' = s /\ countdown_ms' = Scaled(Seconds[s]) /\ gate' \in MovesIn(s)
  BY DEF EnterStep
<1>2. Due = countdown_ms - PHASE_TICK_MS /\ countdown_ms \in Nat
  BY SMT DEF Due, GateMoves, Silent, IInv, TypeOK
<1>3. GateLate \in Nat /\ PHASE_TICK_MS \in Nat
  BY LinkAssumption, SMT DEF PHASE_TICK_MS
<1>4. CASE step \in {"NS_YELLOW", "EW_YELLOW", "RAIL_ALLRED"}
  <2>1. s \in {"NS_ALLRED", "EW_ALLRED", "RAIL_PREARRIVAL"}
    BY <1>4, SMT DEF Follows
  <2>2. Due' = Scaled(Seconds[s]) /\ After' = 0
    BY <1>1, <2>1, SMT DEF Due, After, GateMoves, Silent
  <2>3. Scaled(Seconds[s]) \in Nat /\ After = PHASE_TICK_MS + Scaled(Seconds[s])
    <3>1. After = PHASE_TICK_MS + Scaled(Seconds[s])
      BY <1>4, <2>1, SMT DEF After, Follows, Silent, Seconds
    <3>2. s \in LSteps
      BY <2>1, SMT DEF LSteps, Step, VehicleStep, RailStep
    <3>. QED BY <3>1, <3>2, StepsAreShort
  <2>4. countdown_ms + Scaled(Seconds[s]) >= Scaled(Seconds[s]) /\ s \notin GateMoves
    BY <1>2, <2>1, <2>3, SMT DEF GateMoves
  <2>5. Due + After = countdown_ms + Scaled(Seconds[s])
    BY <1>2, <1>3, <2>3, SMT
  <2>. QED BY <2>2, <2>3, <2>4, <2>5, NatIsInt, Zenon
<1>5. CASE step \in {"RAIL_GATE_FAULT", "RAIL_POST_HOLD"}
  <2>1. s \in GateMoves /\ s \in LSteps
    BY <1>5, SMT DEF Follows, GateMoves, LSteps, Step, RailStep
  <2>2. Due' = gate'.left + GateLate + PHASE_TICK_MS /\ After' = 0
    BY <1>1, <2>1, SMT DEF Due, After, GateMoves, Silent
  <2>3. gate'.left \in Int /\ gate'.left >= 0
    BY <1>1, <2>1, Moves
  <2>4. After \in Nat /\ After >= gate'.left + GateLate + PHASE_TICK_MS + PHASE_TICK_MS
    <3>1. /\ Scaled(RAIL_GATE_LOWER_S) \in Nat /\ Scaled(GATE_MOVE_TIMEOUT_S + 1) \in Nat
          /\ Scaled(GATE_RAISE_S) \in Nat
          /\ Scaled(RAIL_GATE_LOWER_S) <= Scaled(GATE_MOVE_TIMEOUT_S + 1)
      BY Travels
    <3>2. CASE step = "RAIL_GATE_FAULT"
      <4>1. s = "RAIL_GATE_LOWER"
        BY <3>2, SMT DEF Follows
      <4>2. gate'.left <= Scaled(GATE_MOVE_TIMEOUT_S + 1)
        BY <1>1, <3>1, <4>1, SMT DEF MovesIn
      <4>3. After = PHASE_TICK_MS + (Scaled(GATE_MOVE_TIMEOUT_S + 1) + GateLate + PHASE_TICK_MS)
        BY <3>2, SMT DEF After, Silent
      <4>. QED BY <1>3, <2>3, <3>1, <4>2, <4>3, SMT
    <3>3. CASE step = "RAIL_POST_HOLD"
      <4>1. s = "RAIL_GATE_RAISE"
        BY <3>3, SMT DEF Follows
      <4>2. gate'.left = Scaled(GATE_RAISE_S)
        BY <1>1, <4>1, SMT DEF MovesIn
      <4>3. After = PHASE_TICK_MS + (Scaled(GATE_RAISE_S) + GateLate + PHASE_TICK_MS)
        BY <3>3, SMT DEF After, Silent
      <4>. QED BY <1>3, <2>3, <3>1, <4>2, <4>3, SMT
    <3>. QED BY <1>5, <3>2, <3>3
  <2>5. gate'.left + GateLate + PHASE_TICK_MS \in Int
    BY <1>3, <2>3, SMT
  <2>6. gate'.left + GateLate + PHASE_TICK_MS <= Due + After
    BY <1>2, <1>3, <2>3, <2>4, SMT
  <2>. QED BY <2>2, <2>3, <2>5, <2>6, Zenon
<1>. QED BY <1>4, <1>5 DEF Silent

LEMMA StepsFollow == \A s \in LSteps : Follows[s] \subseteq LSteps
BY SMT DEF Follows, LSteps, Step, RailStep, VehicleStep, PedStep

LEMMA TickInTime ==
  ASSUME Punctual, IInv, HandleTick
  PROVE  GateInTime' /\ NeverLongSilent'
<1>1. /\ Due \in Int /\ After \in Nat /\ After \in Int
      /\ age \in Nat /\ unheard \in Int /\ InBounds(age, unheard, Due, After)
  BY DueTypes, BoundsNow, NatIsInt DEF IInv, TypeOK
<1>2. tick /\ tick' = FALSE /\ tick' \in BOOLEAN /\ age' = age
  <2>1. tick' = FALSE /\ tick /\ age' = age
    BY SMT DEF HandleTick
  <2>. QED BY <2>1
<1>3. CASE RunsOn \/ Rearm
  <2>1. step' = step /\ gate' = gate /\ unheard' = unheard
    BY <1>3 DEF RunsOn, Rearm
  <2>2. After' = After
    BY <2>1 DEF After
  <2>3. Due' = Due
    <3>1. CASE step \in GateMoves
      BY <2>1, <3>1 DEF Due
    <3>2. CASE step \notin GateMoves
      <4>1. countdown_ms' = countdown_ms - PHASE_TICK_MS
        BY <1>3, <3>2 DEF RunsOn, Rearm
      <4>. QED BY <1>2, <2>1, <3>2, <4>1 DEF Due
    <3>. QED BY <3>1, <3>2
  <2>4. NeverLongSilent'
    BY <1>1, <1>2, <2>1, <2>2, <2>3, BoundsNext
  <2>. QED BY <2>1, <2>4 DEF IInv, GateInTime
<1>4. CASE AdvanceStep
  <2>1. PICK s \in Follows[step] : EnterStep(s)
    BY <1>4 DEF AdvanceStep
  <2>2. s \in LSteps
    BY <2>1, StepsFollow DEF IInv, TypeOK, LSteps
  <2>3. CASE step \notin Silent
    BY <1>2, <1>4, <2>1, <2>2, <2>3, ToldStep DEF AdvanceStep
  <2>4. CASE step \in Silent
    <3>1. unheard' = unheard
      BY <1>4, <2>4 DEF AdvanceStep
    <3>2. /\ Due' \in Int /\ After' = 0 /\ Due' <= Due + After
          /\ s \in GateMoves => gate'.left >= 0 /\ gate'.left \in Int
      BY <1>2, <2>1, <2>4, SilentStep
    <3>3. 0 \in Int /\ \A d \in Int : d + 0 = d
      BY SMT
    <3>4. NeverLongSilent'
      <4>1. After' \in Int /\ Due' + After' <= Due + After
        BY <3>2, <3>3, Zenon
      <4>2. InBounds(age, unheard, Due', After')
        BY <1>1, <3>2, <4>1, Bounds, Zenon
      <4>. QED BY <1>2, <3>1, <4>2, BoundsNext
    <3>5. step' = s
      BY <2>1 DEF EnterStep
    <3>6. GateInTime'
      BY <3>2, <3>5, LinkAssumption, SMT DEF GateInTime, PHASE_TICK_MS
    <3>. QED BY <3>4, <3>6
  <2>. QED BY <2>3, <2>4
<1>. QED BY <1>3, <1>4 DEF HandleTick

LEMMA TimeInTime ==
  ASSUME Punctual, IInv, TimePasses
  PROVE  GateInTime' /\ NeverLongSilent'
<1>1. /\ Due \in Int /\ After \in Nat /\ After \in Int
      /\ age \in Nat /\ unheard \in Int /\ unheard >= -1
      /\ InBounds(age, unheard, Due, After)
  BY DueTypes, BoundsNow, NatIsInt DEF IInv, TypeOK
<1>2. /\ ~tick /\ tick' /\ step' = step /\ countdown_ms' = countdown_ms
      /\ age' = age + PHASE_TICK_MS
      /\ unheard' = IF unheard = -1 THEN -1 ELSE unheard + PHASE_TICK_MS
  BY SMT DEF TimePasses
<1>3. After' = After
  BY <1>2 DEF After
<1>4. step \in GateMoves => gate'.left = gate.left - PHASE_TICK_MS /\ gate.left > -GateLate
  BY SMT DEF TimePasses, IInv, TypeOK
<1>5. Due' = Due - PHASE_TICK_MS
  <2>1. CASE step \in GateMoves
    BY <1>2, <1>4, <2>1, LinkAssumption, SMT DEF Due, IInv, TypeOK, PHASE_TICK_MS
  <2>2. CASE step \notin GateMoves
    <3>1. Due = countdown_ms /\ Due' = countdown_ms' - PHASE_TICK_MS
      BY <1>2, <2>2, Zenon DEF Due
    <3>. QED BY <1>2, <3>1
  <2>. QED BY <2>1, <2>2
<1>6. Due' \in Int
  BY <1>1, <1>5, SMT DEF PHASE_TICK_MS
<1>7. NeverLongSilent'
  BY <1>1, <1>2, <1>3, <1>5, <1>6, Bounds, BoundsNext, Zenon
<1>8. GateInTime'
  BY <1>2, <1>4, LinkAssumption, SMT DEF GateInTime, PHASE_TICK_MS, IInv, TypeOK
<1>. QED BY <1>7, <1>8

LEMMA InvInit == ASSUME Punctual PROVE Init => IInv
<1> SUFFICES ASSUME Init PROVE IInv
  OBVIOUS
<1>1. "NS_GREEN" \in LSteps /\ "NS_GREEN" \notin GateMoves /\ "NS_GREEN" \notin Silent
  BY SMT DEF LSteps, Step, VehicleStep, GateMoves, Silent
<1>2. Delivery \in Nat /\ PHASE_TICK_MS \in Nat /\ LongestSilence \in Nat
  BY LinkAssumption, StepsAreShort, SMT DEF Delivery, LostRound, STATUS_MAX_RETRY,
     STATUS_SEND_TIMEOUT_MS, STATUS_RESEND_GAP_MS, STATUS_RETRY_DELAY_S, PHASE_TICK_MS
<1>3. countdown_ms = LongestSilence /\ unheard = -1 /\ age = 0 /\ step = "NS_GREEN" /\ tick = FALSE
  BY DEF Init, LongestSilence
<1>4. gate \in [left : Int, leads : LSteps]
  BY <1>1, Moves DEF Init
<1>5. TypeOK
  <2>1. unheard \in Int /\ unheard >= -1 /\ unheard <= Delivery /\ age \in Nat
    BY <1>2, <1>3, SMT
  <2>. QED BY <1>1, <1>2, <1>3, <1>4, <2>1, Zenon DEF TypeOK, LSteps
<1>6. Due = LongestSilence /\ After = 0
  BY <1>1, <1>3, Zenon DEF Due, After
<1>7. NeverLongSilent
  BY <1>2, <1>3, <1>6, SMT DEF NeverLongSilent
<1>8. GateInTime
  BY <1>1, <1>3 DEF GateInTime
<1>. QED BY <1>5, <1>7, <1>8 DEF IInv

LEMMA InvStep ==
  ASSUME Punctual, IInv, [Next]_vars
  PROVE  IInv'
<1>1. TypeOK'
  BY TypesStep DEF IInv
<1>2. tick \in BOOLEAN /\ step \in LSteps
  BY DEF IInv, TypeOK, LSteps
<1>3. CASE HandleTick
  BY <1>1, <1>3, TickInTime DEF IInv
<1>4. CASE GateReports
  <2>1. gate.leads \in LSteps
    BY DEF IInv, TypeOK, LSteps
  <2>. QED BY <1>1, <1>2, <1>4, <2>1, ToldStep DEF IInv, GateReports
<1>5. CASE TrainApproaches \/ OverrideApplied
  <2>1. "RAIL_YELLOW" \in LSteps /\ "OVERRIDE_HOLD" \in LSteps
    BY SMT DEF LSteps, Step, RailStep
  <2>. QED BY <1>1, <1>2, <1>5, <2>1, ToldStep DEF IInv, TrainApproaches, OverrideApplied
<1>6. CASE TrainClears
  <2>1. /\ Due \in Int /\ After \in Nat /\ After \in Int
        /\ age \in Nat /\ unheard \in Int /\ InBounds(age, unheard, Due, After)
    BY DueTypes, BoundsNow, NatIsInt DEF IInv, TypeOK
  <2>2. /\ step = "RAIL_OCCUPIED" /\ countdown_ms' = 0 /\ step' = step /\ tick' = tick
        /\ gate' = gate /\ unheard' = unheard /\ age' = age
    BY <1>6 DEF TrainClears
  <2>3. After' = After
    BY <2>2 DEF After
  <2>4. step \notin GateMoves
    BY <2>2, SMT DEF GateMoves
  <2>5. Due' \in Int /\ Due' <= Due
    BY <2>2, <2>4, SMT DEF Due, IInv, TypeOK, PHASE_TICK_MS
  <2>6. Due' + After' <= Due + After
    <3>1. \A x, y, z \in Int : x <= y => x + z <= y + z
      BY SMT
    <3>. QED BY <2>1, <2>3, <2>5, <3>1, Zenon
  <2>7. NeverLongSilent'
    BY <2>1, <2>2, <2>3, <2>5, <2>6, Bounds, BoundsNext, Zenon
  <2>. QED BY <1>1, <2>2, <2>7 DEF IInv, GateInTime
<1>7. CASE ModeChanges
  <2>1. /\ Due \in Int /\ After \in Nat /\ After \in Int /\ Due >= -PHASE_TICK_MS
        /\ age \in Nat /\ unheard \in Int /\ InBounds(age, unheard, Due, After)
    BY DueTypes, BoundsNow, NatIsInt DEF IInv, TypeOK
  <2>2. Due' = Due /\ After' = After /\ age' = age
    BY <1>7 DEF ModeChanges, Due, After
  <2>3. unheard' = IF unheard = -1 THEN 0 ELSE unheard
    BY <1>7 DEF ModeChanges, Notify
  <2>4. Due + After >= -PHASE_TICK_MS /\ Due + After <= LongestSilence
    BY <2>1, SMT DEF PHASE_TICK_MS, InBounds
  <2>5. NeverLongSilent'
    BY <2>1, <2>2, <2>3, <2>4, Bounds, BoundsNext, Zenon
  <2>. QED BY <1>1, <1>7, <2>5 DEF IInv, ModeChanges, GateInTime
<1>8. CASE ReportRecorded
  <2>1. /\ Due \in Int /\ After \in Nat /\ After \in Int
        /\ age \in Nat /\ unheard \in Int /\ InBounds(age, unheard, Due, After)
    BY DueTypes, BoundsNow, NatIsInt DEF IInv, TypeOK
  <2>2. Due' = Due /\ After' = After /\ age' = 0 /\ unheard' = -1
    BY <1>8 DEF ReportRecorded, Due, After
  <2>3. NeverLongSilent'
    BY <2>1, <2>2, Bounds, BoundsNext
  <2>. QED BY <1>1, <1>8, <2>3 DEF IInv, ReportRecorded, GateInTime
<1>9. CASE TimePasses
  BY <1>1, <1>9, TimeInTime DEF IInv
<1>10. CASE UNCHANGED vars
  BY <1>1, <1>10 DEF IInv, vars, GateInTime, NeverLongSilent, Due, After
<1>. QED BY <1>3, <1>4, <1>5, <1>6, <1>7, <1>8, <1>9, <1>10 DEF Next

(* NeverLongSilent: whatever the steps, and those of them that end without *)
(* notify_status(), a notification is never further away than a green is   *)
(* long, or else one is still on its way to the CC.                        *)
THEOREM SilenceIsBounded ==
  ASSUME Punctual
  PROVE  Spec => [](TypeOK /\ NeverLongSilent)
<1>1. IInv => TypeOK /\ NeverLongSilent
  BY DEF IInv
<1>. QED BY <1>1, InvInit, InvStep, PTL DEF Spec

(* LiveLinkNotStale: with one round of sends lost at most, the age shown   *)
(* of a live LC stays within CC_LINK_STALE_S at every time scale.          *)
THEOREM LiveIsNotStale ==
  ASSUME Punctual, LostRounds <= 1
  PROVE  Spec => []LiveLinkNotStale
<1>1. IInv => LiveLinkNotStale
  <2> SUFFICES ASSUME IInv PROVE LiveLinkNotStale
    OBVIOUS
  <2>1. LostRounds \in {0, 1} /\ TIME_SCALE_FACTOR \in {1, 2, 3, 4, 5}
    BY LinkAssumption, Factors, SMT
  <2>2. Delivery \in 0..9000
    BY <2>1, SMT DEF Delivery, LostRound, STATUS_MAX_RETRY, STATUS_SEND_TIMEOUT_MS,
       STATUS_RESEND_GAP_MS, STATUS_RETRY_DELAY_S
  <2>3. age \in Nat /\ unheard \in Int /\ unheard <= Delivery /\ unheard >= -1
    BY DEF IInv, TypeOK
  <2>4. age <= LongestSilence + 9100
    <3>1. /\ Due \in Int /\ After \in Nat /\ Due >= -100 /\ LongestSilence \in Nat
          /\ unheard = -1 => age + Due + After <= LongestSilence
          /\ unheard # -1 => age <= LongestSilence + 100 + unheard
      BY DueTypes, StepsAreShort, SMT DEF IInv, NeverLongSilent, PHASE_TICK_MS
    <3>2. CASE unheard = -1
      <4>1. \A l, d, f, a \in Int : f >= 0 /\ d >= -100 /\ a + d + f <= l => a <= l + 9100
        BY SMT
      <4>. QED BY <2>3, <3>1, <3>2, <4>1, SMT
    <3>3. CASE unheard # -1
      <4>1. \A l, u, v, a \in Int : a <= l + 100 + u /\ u <= v /\ v <= 9000 => a <= l + 9100
        BY SMT
      <4>2. Delivery \in Int /\ Delivery <= 9000
        BY <2>2, SMT
      <4>. QED BY <2>3, <3>1, <3>3, <4>1, <4>2, SMT
    <3>. QED BY <3>2, <3>3
  <2>5. AgeShown = (age + 1098) \div 1000
    BY <2>3, SMT DEF AgeShown, PHASE_TICK_MS
  <2>. QED BY <2>1, <2>3, <2>4, <2>5, SMT DEF LiveLinkNotStale, CC_LINK_STALE_S, LongestSilence,
              Scaled, SCALE_MS, VEHICLE_GREEN_S
<1>. QED BY <1>1, InvInit, InvStep, PTL DEF Spec
================================================================================
