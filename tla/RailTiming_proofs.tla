--------------------------- MODULE RailTiming_proofs ---------------------------
(***************************************************************************)
(* The types of the timed closure; that no wait told to the CC elapses     *)
(* before the sequence it was told for, unless an attempt to close the     *)
(* gate fails in it; and that the train finds the gate locked or a red     *)
(* light, has it held until it is clear, and has its time on the crossing. *)
(* All for every time scale the build admits; where a theorem needs the    *)
(* gate's report to be at most 400 ms late, it says so.                    *)
(***************************************************************************)
EXTENDS RailTimingProps, CommonTimes_proofs

------------------------------------------------------------------------------
(* Durations *)

(* What is left after a step is the next step and what is left after it. *)
LEMMA RestOfSteps ==
  /\ \A s \in RailStep : Rest[s] \in Nat
  /\ Rest["RAIL_YELLOW"] = Scaled(VEHICLE_ALL_RED_S) + Rest["RAIL_ALLRED"]
  /\ Rest["RAIL_ALLRED"] = Scaled(RAIL_PREARRIVAL_QUIET_S) + Rest["RAIL_PREARRIVAL"]
  /\ Rest["RAIL_PREARRIVAL"] = Scaled(RAIL_WARNING_LEAD_S) + Rest["RAIL_WARN"]
  /\ Rest["RAIL_WARN"] = Scaled(RAIL_GATE_LOWER_S) + Rest["RAIL_GATE_LOWER"]
  /\ Rest["RAIL_GATE_LOWER"] = Scaled(RAIL_TRAIN_OCCUPY_S) + Rest["RAIL_OCCUPIED"]
  /\ Rest["RAIL_OCCUPIED"] = Scaled(RAIL_POST_TRAIN_HOLD_S) + Rest["RAIL_POST_HOLD"]
  /\ Rest["RAIL_POST_HOLD"] = Scaled(RAIL_GATE_LOWER_S)
  /\ Rest["RAIL_GATE_RAISE"] = 0
<1>1. /\ Scaled(VEHICLE_ALL_RED_S) \in Nat /\ Scaled(RAIL_PREARRIVAL_QUIET_S) \in Nat
      /\ Scaled(RAIL_WARNING_LEAD_S) \in Nat /\ Scaled(RAIL_GATE_LOWER_S) \in Nat
      /\ Scaled(RAIL_TRAIN_OCCUPY_S) \in Nat /\ Scaled(RAIL_POST_TRAIN_HOLD_S) \in Nat
  BY Durations, SMT DEF VEHICLE_ALL_RED_S, RAIL_PREARRIVAL_QUIET_S, RAIL_PROTECT_LEAD_S,
     VEHICLE_YELLOW_S, RAIL_WARNING_LEAD_S, RAIL_GATE_LOWER_S, RAIL_TRAIN_OCCUPY_S,
     RAIL_POST_TRAIN_HOLD_S
<1>. QED BY <1>1, SMT DEF Rest, RailStep

(* A step is entered with a whole countdown, and published with a time. *)
LEMMA EnterTypes ==
  ASSUME NEW s \in Step, NEW ms \in Nat, EnterStep(s, ms)
  PROVE  step' = s /\ countdown_ms' \in Nat /\ busy' \in Int
<1>1. CASE s \in RailStep
  <2>1. Rest[s] \in Nat
    BY <1>1, RestOfSteps, Zenon
  <2>2. busy' = ms + Rest[s]
    BY <1>1 DEF EnterStep, RailwayRemaining
  <2>. QED BY <2>1, <2>2, SMT DEF EnterStep
<1>2. CASE s \in PedStep
  <2>1. Scaled(PED_CLEARANCE_S) \in Nat
    BY Durations, SMT DEF PED_CLEARANCE_S
  <2>2. busy' = PedestrianRemaining(s, ms)
    BY <1>2, SMT DEF EnterStep, PedStep, RailStep
  <2>. QED BY <2>1, <2>2, SMT DEF EnterStep, PedestrianRemaining
<1>3. CASE s = "ROAD"
  BY <1>3, SMT DEF EnterStep, PedStep, RailStep
<1>. QED BY <1>1, <1>2, <1>3 DEF Step

LEMMA StepSeconds ==
  /\ Scaled(VEHICLE_YELLOW_S) \in Nat /\ Scaled(VEHICLE_ALL_RED_S) \in Nat
  /\ Scaled(RAIL_PREARRIVAL_QUIET_S) \in Nat /\ Scaled(RAIL_WARNING_LEAD_S) \in Nat
  /\ Scaled(RAIL_GATE_LOWER_S) \in Nat /\ Scaled(RAIL_TRAIN_OCCUPY_S) \in Nat
  /\ Scaled(RAIL_POST_TRAIN_HOLD_S) \in Nat /\ Scaled(GATE_RETRY_INTERVAL_S) \in Nat
  /\ Scaled(PED_WALK_S) \in Nat /\ Scaled(PED_CLEARANCE_S) \in Nat
  /\ Scaled(GATE_RAISE_S) \in Nat /\ Scaled(GATE_MOVE_TIMEOUT_S + 1) \in Nat
BY Durations, SMT DEF VEHICLE_ALL_RED_S, RAIL_PREARRIVAL_QUIET_S, RAIL_PROTECT_LEAD_S,
   VEHICLE_YELLOW_S, RAIL_WARNING_LEAD_S, RAIL_GATE_LOWER_S, RAIL_TRAIN_OCCUPY_S,
   RAIL_POST_TRAIN_HOLD_S, GATE_RETRY_INTERVAL_S, PED_WALK_S, PED_CLEARANCE_S, GATE_RAISE_S,
   GATE_MOVE_TIMEOUT_S

------------------------------------------------------------------------------
(* Types *)

(* A sum is no less than one of smaller parts. *)
LEMMA Sums == \A b, d, e, a \in Int : e <= d /\ b >= d + a => b >= e + a
BY SMT

LEMMA Ticked == \A c \in Nat : c - PHASE_TICK_MS \in Int /\ c - PHASE_TICK_MS <= c /\ c \in Int /\ c <= c
BY SMT DEF PHASE_TICK_MS

LEMMA Entered == \A c, a \in Nat : c \in Int /\ a \in Int /\ c + a \in Int /\ c + a >= c + a
BY SMT

LEMMA Numbers == -1 \in Int /\ 0 \in Int /\ 0 \in Nat
BY SMT

LEMMA TypesInit == Init => TypeOK
<1> SUFFICES ASSUME Init PROVE TypeOK
  OBVIOUS
<1>1. gate_task \in [moving : BOOLEAN, closing : BOOLEAN, fails : BOOLEAN, left : Int]
  BY Numbers DEF Init, Idle
<1>2. gate_task.moving = FALSE
  BY DEF Init, Idle
<1>. QED BY <1>1, <1>2, Numbers DEF Init, TypeOK, Step

LEMMA TypesTick == TypeOK /\ HandleTick => TypeOK'
<1> SUFFICES ASSUME TypeOK, HandleTick PROVE TypeOK'
  OBVIOUS
<1> USE DEF TypeOK
<1>1. CASE RunsOn(countdown_ms - PHASE_TICK_MS)
  <2>1. countdown_ms' \in Nat
    BY <1>1, SMT DEF RunsOn, PHASE_TICK_MS
  <2>. QED BY <1>1, <2>1 DEF HandleTick, RunsOn, train, wait
<1>2. CASE AdvanceInLine
  <2>1. \E s \in {"RAIL_ALLRED", "RAIL_PREARRIVAL", "RAIL_WARN", "RAIL_POST_HOLD", "PED_CLEARANCE"} :
          \E ms \in Nat : EnterStep(s, ms)
    BY <1>2, StepSeconds, Zenon DEF AdvanceInLine
  <2>2. /\ step' \in Step /\ countdown_ms' \in Nat /\ busy' \in Int
        /\ step' \notin {"RAIL_GATE_LOWER", "RAIL_GATE_RAISE"}
    BY <2>1, EnterTypes, Zenon DEF Step, RailStep, PedStep
  <2>3. step \notin {"RAIL_GATE_LOWER", "RAIL_GATE_RAISE"}
    BY <1>2 DEF AdvanceInLine
  <2>. QED BY <1>2, <2>2, <2>3 DEF HandleTick, AdvanceInLine, train, wait
<1>3. CASE AdvanceToLower
  <2>1. step' = "RAIL_GATE_LOWER" /\ countdown_ms' \in Nat /\ busy' \in Int
    BY <1>3, EnterTypes, StepSeconds DEF AdvanceToLower, Step, RailStep
  <2>2. gate_task' \in [moving : {TRUE}, closing : BOOLEAN, fails : BOOLEAN, left : Int]
    <3>1. PICK fails \in BOOLEAN : GateCommand(TRUE, fails)
      BY <1>3 DEF AdvanceToLower
    <3>3. \E left \in Nat : gate_task' = [moving |-> TRUE, closing |-> TRUE, fails |-> fails,
                                         left |-> left]
      BY <3>1, StepSeconds DEF GateCommand
    <3>. QED BY <3>1, <3>3, SMT
  <2>. QED BY <1>3, <2>1, <2>2 DEF HandleTick, AdvanceToLower, train, wait, Step, RailStep
<1>4. CASE AdvanceToRaise
  <2>1. step' = "RAIL_GATE_RAISE" /\ countdown_ms' \in Nat /\ busy' \in Int
    BY <1>4, EnterTypes, StepSeconds DEF AdvanceToRaise, Step, RailStep
  <2>2. gate_task' \in [moving : {TRUE}, closing : BOOLEAN, fails : BOOLEAN, left : Int]
    BY <1>4, StepSeconds, TimingAssumption DEF AdvanceToRaise, GateCommand
  <2>. QED BY <1>4, <2>1, <2>2 DEF HandleTick, AdvanceToRaise, train, wait, Step, RailStep
<1>5. CASE AdvanceRearm
  <2>1. step' = step /\ countdown_ms' \in Nat /\ busy' \in Int
    BY <1>5, EnterTypes, Durations DEF AdvanceRearm
  <2>. QED BY <1>5, <2>1 DEF HandleTick, AdvanceRearm, train, wait
<1>6. CASE AdvanceToRoad
  <2>1. step' = "ROAD" /\ countdown_ms' \in Nat /\ busy' \in Int
    BY <1>6, EnterTypes, SMT DEF AdvanceToRoad, Step
  <2>2. promised' \in BOOLEAN /\ promise' \in Int
    BY <1>6, Numbers DEF AdvanceToRoad, SequenceEnds
  <2>3. step \notin {"RAIL_GATE_LOWER", "RAIL_GATE_RAISE"}
    BY <1>6 DEF AdvanceToRoad
  <2>. QED BY <1>6, <2>1, <2>2, <2>3 DEF HandleTick, AdvanceToRoad, train, Step
<1>7. CASE RoadGoesOn
  BY <1>7 DEF HandleTick, RoadGoesOn, train, wait
<1>. QED BY <1>1, <1>2, <1>3, <1>4, <1>5, <1>6, <1>7 DEF HandleTick

LEMMA TypesEvents ==
  TypeOK /\ (PedestrianBeginWalk \/ TrainApproaches \/ TrainClears \/ TrainGone) => TypeOK'
<1> SUFFICES ASSUME TypeOK PROVE PedestrianBeginWalk \/ TrainApproaches \/ TrainClears \/ TrainGone => TypeOK'
  OBVIOUS
<1> USE DEF TypeOK
<1>1. ASSUME PedestrianBeginWalk PROVE TypeOK'
  <2>1. step' = "PED_WALK" /\ countdown_ms' \in Nat /\ busy' \in Int
    BY <1>1, EnterTypes, StepSeconds DEF PedestrianBeginWalk, Step, PedStep
  <2>. QED BY <1>1, <2>1 DEF PedestrianBeginWalk, train, wait, Step, PedStep
<1>2. ASSUME TrainApproaches PROVE TypeOK'
  <2>1. step' = "RAIL_YELLOW" /\ countdown_ms' \in Nat /\ busy' \in Int
    BY <1>2, EnterTypes, StepSeconds DEF TrainApproaches, Step, RailStep
  <2>2. step \notin {"RAIL_GATE_LOWER", "RAIL_GATE_RAISE"}
    BY <1>2 DEF TrainApproaches, RailStep
  <2>3. /\ promised' \in BOOLEAN /\ promise' \in Int
        /\ since' \in Int /\ cleared' \in BOOLEAN
    BY <1>2, Numbers DEF TrainApproaches, SequenceEnds
  <2>. QED BY <1>2, <2>1, <2>2, <2>3 DEF TrainApproaches, Step, RailStep
<1>3. ASSUME TrainClears PROVE TypeOK'
  BY <1>3 DEF TrainClears, wait
<1>4. ASSUME TrainGone PROVE TypeOK'
  <2>1. since' \in Int /\ cleared' \in BOOLEAN
    BY <1>4, Numbers DEF TrainGone
  <2>. QED BY <1>4, <2>1 DEF TrainGone, wait
<1>. QED BY <1>1, <1>2, <1>3, <1>4

LEMMA TypesGate == TypeOK /\ (Locks \/ FailsToLock \/ Opens) => TypeOK'
<1> SUFFICES ASSUME TypeOK PROVE Locks \/ FailsToLock \/ Opens => TypeOK'
  OBVIOUS
<1> USE DEF TypeOK
<1>1. ASSUME Locks PROVE TypeOK'
  <2>1. step' = "RAIL_OCCUPIED" /\ countdown_ms' \in Nat /\ busy' \in Int
    BY <1>1, EnterTypes, StepSeconds DEF Locks, Step, RailStep
  <2>. QED BY <1>1, <2>1 DEF Locks, GateReports, Idle, train, wait, Step, RailStep
<1>2. ASSUME FailsToLock PROVE TypeOK'
  <2>1. step' = "RAIL_GATE_FAULT" /\ countdown_ms' \in Nat /\ busy' \in Int
    BY <1>2, EnterTypes, StepSeconds DEF FailsToLock, Step, RailStep
  <2>. QED BY <1>2, <2>1 DEF FailsToLock, GateReports, Idle, train, wait, Step, RailStep
<1>3. ASSUME Opens PROVE TypeOK'
  <2>1. step' = "ROAD" /\ countdown_ms' \in Nat /\ busy' \in Int
    BY <1>3, EnterTypes, SMT DEF Opens, Step
  <2>2. promised' \in BOOLEAN /\ promise' \in Int /\ locked' \in Nat /\ failed' \in BOOLEAN
    BY <1>3, Numbers DEF Opens, SequenceEnds
  <2>3. gate_task' = [moving |-> FALSE, closing |-> FALSE, fails |-> FALSE, left |-> 0]
    BY <1>3 DEF Opens, GateReports, Idle
  <2>. QED BY <1>3, <2>1, <2>2, <2>3, SMT DEF Opens, train, Step
<1>. QED BY <1>1, <1>2, <1>3

(* The wait told is at least the busy time and a second. *)
LEMMA WaitIsLonger ==
  ASSUME busy \in Int, NEW ms \in Nat
  PROVE  WaitTold(ms) \in Int /\ WaitTold(ms) >= busy + 1000
BY SMT DEF WaitTold, SecondsUntil

LEMMA TypesRefused == TypeOK /\ OverrideRefused => TypeOK'
<1> SUFFICES ASSUME TypeOK, OverrideRefused PROVE TypeOK'
  OBVIOUS
<1> USE DEF TypeOK
<1>1. PICK ms \in Shortest : promise' = IF promised /\ promise < WaitTold(ms) THEN promise
                                        ELSE WaitTold(ms)
  BY DEF OverrideRefused
<1>2. ms \in Nat
  BY SMT DEF Shortest, PHASE_TICK_MS
<1>3. promise' \in Int
  BY <1>1, <1>2, WaitIsLonger
<1>. QED BY <1>3 DEF OverrideRefused, train

LEMMA TypesTime == TypeOK /\ TimePasses => TypeOK'
BY SMT DEF TypeOK, TimePasses, PHASE_TICK_MS

(* TypeOK holds of the timed closure: countdowns never run below zero, and *)
(* the gate moves only while the controller waits for it.                  *)
THEOREM TimingTypes == Spec => []TypeOK
<1>1. TypeOK /\ [Next]_vars => TypeOK'
  <2>1. TypeOK /\ UNCHANGED vars => TypeOK'
    BY DEF TypeOK, vars, train, wait
  <2>. QED BY <2>1, TypesTick, TypesEvents, TypesGate, TypesRefused, TypesTime DEF Next
<1>. QED BY <1>1, TypesInit, PTL DEF Spec

------------------------------------------------------------------------------
(* The wait covers *)

LEMMA AfterTypes == TypeOK /\ step # "ROAD" => After \in Nat
<1> SUFFICES ASSUME TypeOK, step # "ROAD" PROVE After \in Nat
  OBVIOUS
<1>1. CASE step \in RailStep
  BY <1>1, RestOfSteps DEF After
<1>2. CASE step \in PedStep
  <2>1. step \notin RailStep
    BY <1>2 DEF PedStep, RailStep
  <2>. QED BY <2>1, StepSeconds, SMT DEF After, PedestrianRemaining
<1>. QED BY <1>1, <1>2 DEF TypeOK, Step

(* On entry to a step the published time is the step's and all after it. *)
LEMMA EnterBusy ==
  ASSUME NEW s \in RailStep \cup PedStep, NEW ms \in Nat, EnterStep(s, ms)
  PROVE  step' = s /\ countdown_ms' = ms /\ busy' = ms + After' /\ After' \in Nat
<1>1. step' = s /\ countdown_ms' = ms
  BY DEF EnterStep
<1>2. CASE s \in RailStep
  <2>1. Rest[s] \in Nat /\ After' = Rest[s] /\ busy' = ms + Rest[s]
    BY <1>1, <1>2, RestOfSteps DEF After, EnterStep, RailwayRemaining
  <2>. QED BY <1>1, <2>1
<1>3. CASE s \in PedStep
  <2>1. s \notin RailStep
    BY <1>3 DEF PedStep, RailStep
  <2>2. After' = PedestrianRemaining(s, 0) /\ busy' = PedestrianRemaining(s, ms)
    BY <1>1, <1>3, <2>1 DEF After, EnterStep
  <2>. QED BY <1>1, <2>2, StepSeconds, SMT DEF PedestrianRemaining
<1>. QED BY <1>2, <1>3

(* What each step leaves for those after it. *)
LEMMA AfterOfSteps ==
  /\ step = "RAIL_YELLOW" => After = Rest["RAIL_YELLOW"]
  /\ step = "RAIL_ALLRED" => After = Rest["RAIL_ALLRED"]
  /\ step = "RAIL_PREARRIVAL" => After = Rest["RAIL_PREARRIVAL"]
  /\ step = "RAIL_WARN" => After = Rest["RAIL_WARN"]
  /\ step = "RAIL_GATE_LOWER" => After = Rest["RAIL_GATE_LOWER"]
  /\ step = "RAIL_OCCUPIED" => After = Rest["RAIL_OCCUPIED"]
  /\ step = "RAIL_POST_HOLD" => After = Rest["RAIL_POST_HOLD"]
  /\ step = "RAIL_GATE_RAISE" => After = 0
  /\ step = "PED_WALK" => After = Scaled(PED_CLEARANCE_S)
  /\ step = "PED_CLEARANCE" => After = 0
BY RestOfSteps, StepSeconds, SMT DEF After, RailStep, PedestrianRemaining

LEMMA OverrunTypes ==
  \A s \in Step : s # "ROAD" => Overrun[s] \in Nat
BY TimingAssumption, SMT DEF Overrun, Step, RailStep, PedStep

LEMMA DueTypes == TypeOK => Due \in Int
BY SMT DEF TypeOK, Due, PHASE_TICK_MS

LEMMA CoveredWaits ==
  ASSUME GateLate <= 400, TypeOK, LeftIsCovered
  PROVE  promised => promise > 0
<1> SUFFICES ASSUME promised PROVE promise > 0
  OBVIOUS
<1>1. step # "ROAD" /\ promise >= Due + After + 1000 - Overrun[step]
  BY DEF LeftIsCovered
<1>2. GateLate \in Nat /\ promise \in Int /\ Due \in Int /\ After \in Nat
  BY <1>1, TimingAssumption, DueTypes, AfterTypes DEF TypeOK
<1>3. CASE gate_task.moving
  <2>1. Due >= -GateLate - 100
    BY <1>2, <1>3, SMT DEF LeftIsCovered, Due, PHASE_TICK_MS, TypeOK
  <2>2. CASE step = "RAIL_GATE_LOWER"
    <3>1. After >= 1000 /\ Overrun[step] = 400
      BY <2>2, AfterOfSteps, RestOfSteps, Durations, StepSeconds, SMT DEF Overrun
    <3>. QED BY <1>1, <1>2, <2>1, <3>1, SMT
  <2>3. CASE step = "RAIL_GATE_RAISE"
    <3>1. Overrun[step] = GateLate
      BY <2>3 DEF Overrun
    <3>. QED BY <1>1, <1>2, <2>1, <3>1, SMT
  <2>. QED BY <1>3, <2>2, <2>3 DEF TypeOK
<1>4. CASE ~gate_task.moving
  <2>1. Due >= -100
    BY <1>4, SMT DEF Due, TypeOK, PHASE_TICK_MS
  <2>2. CASE step \in {"RAIL_OCCUPIED", "RAIL_POST_HOLD"}
    <3>1. After >= 1000 /\ Overrun[step] <= 600 + GateLate
      BY <1>2, <2>2, AfterOfSteps, RestOfSteps, Durations, StepSeconds, SMT DEF Overrun
    <3>2. Overrun[step] \in Nat
      BY <2>2, OverrunTypes DEF Step, RailStep
    <3>. QED BY <1>1, <1>2, <2>1, <3>1, <3>2, SMT
  <2>3. CASE step \notin {"RAIL_OCCUPIED", "RAIL_POST_HOLD"}
    <3>1. Overrun[step] \in 0..400
      BY <1>1, <1>4, <2>3, SMT DEF TypeOK, Step, RailStep, PedStep, Overrun, LeftIsCovered
    <3>. QED BY <1>1, <1>2, <2>1, <3>1, SMT
  <2>. QED BY <2>2, <2>3
<1>. QED BY <1>3, <1>4

(* A step that follows in line has the time the one before left for it,    *)
(* and at most a tick more.                                                *)
LEMMA WaitInLine ==
  ASSUME TypeOK, TypeOK', LeftIsCovered, NEW s \in RailStep \cup PedStep, NEW ms \in Nat,
         EnterStep(s, ms), step # "ROAD", s # "RAIL_GATE_FAULT",
         ~gate_task'.moving, ~tick',
         After = ms + After', Due >= -PHASE_TICK_MS,
         Overrun[s] >= Overrun[step] + PHASE_TICK_MS, UNCHANGED wait
  PROVE  LeftIsCovered'
<1>1. step' = s /\ countdown_ms' = ms /\ busy' = ms + After' /\ After' \in Nat
  BY EnterBusy
<1>2. Due' = ms
  BY <1>1 DEF Due
<1>3. s # "ROAD" /\ Overrun[s] \in Nat /\ Overrun[step] \in Nat
  BY OverrunTypes DEF Step, RailStep, PedStep, TypeOK
<1>4. ASSUME promised' PROVE promise' >= Due' + After' + 1000 - Overrun[s]
  <2>1. promise >= Due + After + 1000 - Overrun[step] /\ promise' = promise
    BY <1>4 DEF LeftIsCovered, wait
  <2>. QED BY <1>1, <1>2, <1>3, <2>1, DueTypes, SMT DEF PHASE_TICK_MS, TypeOK
<1>5. Overrun' = Overrun
  BY DEF Overrun
<1>6. busy' >= Due' + After'
  <2>1. busy' = Due' + After' /\ Due' \in Int /\ After' \in Int
    BY <1>1, <1>2, SMT
  <2>2. Due' + After' \in Int
    BY <2>1, SMT
  <2>3. \A t \in Int : t >= t
    BY SMT
  <2>. QED BY <2>1, <2>2, <2>3, Zenon
<1>. QED BY <1>1, <1>3, <1>4, <1>5, <1>6 DEF LeftIsCovered

LEMMA WaitTick ==
  ASSUME TypeOK, TypeOK', LeftIsCovered, NoFault', HandleTick
  PROVE  LeftIsCovered'
<1>1. tick /\ ~tick' /\ countdown_ms \in Nat
  BY DEF HandleTick, TypeOK
<1>2. CASE RunsOn(countdown_ms - PHASE_TICK_MS)
  <2>1. /\ step' = step /\ countdown_ms' = countdown_ms - PHASE_TICK_MS /\ busy' = busy
        /\ gate_task' = gate_task /\ promised' = promised /\ promise' = promise
    BY <1>2 DEF RunsOn, wait
  <2>2. Due' = Due /\ After' = After /\ Overrun' = Overrun
    BY <1>1, <2>1 DEF Due, After, Overrun
  <2>. QED BY <1>1, <2>1, <2>2 DEF LeftIsCovered
<1>3. CASE AdvanceInLine
  <2>1. ~gate_task.moving /\ gate_task' = gate_task /\ UNCHANGED wait /\ step # "ROAD"
    BY <1>3 DEF AdvanceInLine, TypeOK
  <2>2. Due >= -PHASE_TICK_MS
    BY <1>1, <2>1, SMT DEF Due, PHASE_TICK_MS
  <2> DEFINE Goes(f, s, secs) == step = f /\ EnterStep(s, Scaled(secs))
  <2>3. CASE Goes("RAIL_YELLOW", "RAIL_ALLRED", VEHICLE_ALL_RED_S)
    <3>1. step' = "RAIL_ALLRED" /\ After = Scaled(VEHICLE_ALL_RED_S) + After'
      BY <2>3, AfterOfSteps, RestOfSteps DEF EnterStep, After, RailStep
    <3>2. Overrun["RAIL_ALLRED"] >= Overrun[step] + PHASE_TICK_MS
      BY <2>3, SMT DEF Overrun, PHASE_TICK_MS
    <3>. QED BY <1>1, <2>1, <2>2, <2>3, <3>1, <3>2, StepSeconds, WaitInLine DEF RailStep
  <2>4. CASE Goes("RAIL_ALLRED", "RAIL_PREARRIVAL", RAIL_PREARRIVAL_QUIET_S)
    <3>1. step' = "RAIL_PREARRIVAL" /\ After = Scaled(RAIL_PREARRIVAL_QUIET_S) + After'
      BY <2>4, AfterOfSteps, RestOfSteps DEF EnterStep, After, RailStep
    <3>2. Overrun["RAIL_PREARRIVAL"] >= Overrun[step] + PHASE_TICK_MS
      BY <2>4, SMT DEF Overrun, PHASE_TICK_MS
    <3>. QED BY <1>1, <2>1, <2>2, <2>4, <3>1, <3>2, StepSeconds, WaitInLine DEF RailStep
  <2>5. CASE Goes("RAIL_PREARRIVAL", "RAIL_WARN", RAIL_WARNING_LEAD_S)
    <3>1. step' = "RAIL_WARN" /\ After = Scaled(RAIL_WARNING_LEAD_S) + After'
      BY <2>5, AfterOfSteps, RestOfSteps DEF EnterStep, After, RailStep
    <3>2. Overrun["RAIL_WARN"] >= Overrun[step] + PHASE_TICK_MS
      BY <2>5, SMT DEF Overrun, PHASE_TICK_MS
    <3>. QED BY <1>1, <2>1, <2>2, <2>5, <3>1, <3>2, StepSeconds, WaitInLine DEF RailStep
  <2>6. CASE Goes("RAIL_OCCUPIED", "RAIL_POST_HOLD", RAIL_POST_TRAIN_HOLD_S)
    <3>1. step' = "RAIL_POST_HOLD" /\ After = Scaled(RAIL_POST_TRAIN_HOLD_S) + After'
      BY <2>6, AfterOfSteps, RestOfSteps DEF EnterStep, After, RailStep
    <3>2. Overrun["RAIL_POST_HOLD"] >= Overrun[step] + PHASE_TICK_MS
      BY <2>6, TimingAssumption, SMT DEF Overrun, PHASE_TICK_MS
    <3>. QED BY <1>1, <2>1, <2>2, <2>6, <3>1, <3>2, StepSeconds, WaitInLine DEF RailStep
  <2>7. CASE Goes("PED_WALK", "PED_CLEARANCE", PED_CLEARANCE_S)
    <3>1. step' = "PED_CLEARANCE" /\ After = Scaled(PED_CLEARANCE_S) + After'
      <4>1. step' = "PED_CLEARANCE" /\ After' = PedestrianRemaining("PED_CLEARANCE", 0)
        BY <2>7 DEF EnterStep, After, RailStep
      <4>. QED BY <2>7, <4>1, AfterOfSteps, StepSeconds, SMT DEF PedestrianRemaining
    <3>2. Overrun["PED_CLEARANCE"] >= Overrun[step] + PHASE_TICK_MS
      BY <2>7, SMT DEF Overrun, PHASE_TICK_MS
    <3>. QED BY <1>1, <2>1, <2>2, <2>7, <3>1, <3>2, StepSeconds, WaitInLine DEF PedStep
  <2>. QED BY <1>3, <2>3, <2>4, <2>5, <2>6, <2>7 DEF AdvanceInLine
<1>4. CASE AdvanceToLower
  <2>1. step = "RAIL_WARN" /\ ~gate_task.moving
    BY <1>4 DEF AdvanceToLower, LeftIsCovered, GateCommand
  <2>2. gate_task' = [moving |-> TRUE, closing |-> TRUE, fails |-> FALSE,
                      left |-> Scaled(RAIL_GATE_LOWER_S)]
    <3>1. PICK fails \in BOOLEAN : GateCommand(TRUE, fails)
      BY <1>4 DEF AdvanceToLower
    <3>2. gate_task' = [moving |-> TRUE, closing |-> TRUE, fails |-> fails,
                        left |-> Scaled(IF fails THEN GATE_MOVE_TIMEOUT_S + 1
                                        ELSE RAIL_GATE_LOWER_S)]
      BY <3>1 DEF GateCommand
    <3>3. fails = FALSE
      BY <3>2 DEF NoFault
    <3>. QED BY <3>2, <3>3
  <2>3. /\ step' = "RAIL_GATE_LOWER" /\ countdown_ms' = Scaled(RAIL_GATE_LOWER_S)
        /\ busy' = Scaled(RAIL_GATE_LOWER_S) + After' /\ After' \in Nat
    BY <1>4, EnterBusy, StepSeconds DEF AdvanceToLower, RailStep
  <2>4. After = Scaled(RAIL_GATE_LOWER_S) + After'
    BY <2>1, <2>3, AfterOfSteps, RestOfSteps DEF After, RailStep
  <2>5. Due' = Scaled(RAIL_GATE_LOWER_S) /\ Due >= -PHASE_TICK_MS
    BY <1>1, <2>1, <2>2, SMT DEF Due, PHASE_TICK_MS
  <2>6. ASSUME promised' PROVE promise' >= Due' + After' + 1000 - Overrun'[step']
    <3>1. promise >= Due + After + 1000 - 300 /\ promise' = promise
      BY <1>4, <2>1, <2>6 DEF AdvanceToLower, LeftIsCovered, wait, Overrun
    <3>2. Overrun'[step'] = 400
      BY <2>3 DEF Overrun
    <3>. QED BY <2>3, <2>4, <2>5, <3>1, <3>2, DueTypes, StepSeconds, SMT DEF PHASE_TICK_MS, TypeOK
  <2>7. gate_task'.left > -GateLate - PHASE_TICK_MS /\ gate_task'.left <= countdown_ms'
    BY <2>2, <2>3, StepSeconds, TimingAssumption, SMT DEF PHASE_TICK_MS
  <2>8. busy' >= Due' + After'
    BY <2>3, <2>5, StepSeconds, SMT
  <2>. QED BY <1>1, <2>2, <2>3, <2>6, <2>7, <2>8 DEF LeftIsCovered
<1>5. CASE AdvanceToRaise
  <2>1. step = "RAIL_POST_HOLD" /\ ~gate_task.moving
    BY <1>5 DEF AdvanceToRaise, GateCommand
  <2>2. gate_task' = [moving |-> TRUE, closing |-> FALSE, fails |-> FALSE,
                      left |-> Scaled(GATE_RAISE_S)]
    BY <1>5 DEF AdvanceToRaise, GateCommand
  <2>3. /\ step' = "RAIL_GATE_RAISE" /\ countdown_ms' = Scaled(RAIL_GATE_LOWER_S)
        /\ busy' = Scaled(RAIL_GATE_LOWER_S) + After' /\ After' \in Nat
    BY <1>5, EnterBusy, StepSeconds DEF AdvanceToRaise, RailStep
  <2>4. After = Scaled(RAIL_GATE_LOWER_S) /\ After' = 0
    BY <2>1, <2>3, AfterOfSteps, RestOfSteps DEF After, RailStep
  <2>5. Due' = Scaled(GATE_RAISE_S) /\ Due >= -PHASE_TICK_MS
    BY <1>1, <2>1, <2>2, SMT DEF Due, PHASE_TICK_MS
  <2>6. ASSUME promised' PROVE promise' >= Due' + After' + 1000 - Overrun'[step']
    <3>1. promise >= Due + After + 1000 - (600 + GateLate) /\ promise' = promise
      BY <1>5, <2>1, <2>6 DEF AdvanceToRaise, LeftIsCovered, wait, Overrun
    <3>2. Overrun'[step'] = GateLate
      BY <2>3 DEF Overrun
    <3>. QED BY <2>4, <2>5, <3>1, <3>2, DueTypes, StepSeconds, Durations, TimingAssumption, SMT
         DEF PHASE_TICK_MS, TypeOK
  <2>7. gate_task'.left > -GateLate - PHASE_TICK_MS /\ gate_task'.left <= countdown_ms'
    BY <2>2, <2>3, StepSeconds, Durations, TimingAssumption, SMT DEF PHASE_TICK_MS
  <2>8. busy' >= Due' + After'
    BY <2>3, <2>4, <2>5, StepSeconds, Durations, SMT
  <2>. QED BY <1>1, <2>2, <2>3, <2>6, <2>7, <2>8 DEF LeftIsCovered
<1>6. CASE AdvanceRearm /\ countdown_ms - PHASE_TICK_MS <= 0
  <2> DEFINE ms == SCALE_MS(GATE_WAIT_REARM_MS * TIME_SCALE_FACTOR)
  <2>1. gate_task.moving /\ gate_task' = gate_task /\ UNCHANGED wait
    BY <1>6 DEF AdvanceRearm, TypeOK
  <2>2. /\ step' = step /\ step # "ROAD" /\ countdown_ms' = ms /\ ms \in Nat
        /\ busy' = ms + After' /\ After' \in Nat
    BY <1>6, EnterBusy, Durations DEF AdvanceRearm, RailStep
  <2>3. gate_task.left <= 0 /\ gate_task.left \in Int
    BY <1>1, <1>6, <2>1, SMT DEF LeftIsCovered, TypeOK, PHASE_TICK_MS
  <2>4. Due' = Due /\ Due = gate_task.left /\ After' = After /\ Overrun' = Overrun
    BY <2>1, <2>2 DEF Due, After, Overrun
  <2>5. busy' >= Due' + After' /\ gate_task.left <= countdown_ms'
    BY <2>2, <2>3, <2>4, SMT
  <2>. QED BY <1>1, <2>1, <2>2, <2>4, <2>5 DEF LeftIsCovered, wait
<1>7. CASE AdvanceToRoad
  <2>1. step' = "ROAD" /\ ~promised' /\ ~gate_task'.moving
    BY <1>7 DEF AdvanceToRoad, EnterStep, SequenceEnds, TypeOK
  <2>. QED BY <2>1 DEF LeftIsCovered
<1>8. CASE RoadGoesOn
  <2>1. step' = "ROAD" /\ ~promised' /\ ~gate_task'.moving
    BY <1>8 DEF RoadGoesOn, LeftIsCovered, wait, TypeOK
  <2>. QED BY <2>1 DEF LeftIsCovered
<1>. QED BY <1>2, <1>3, <1>4, <1>5, <1>6, <1>7, <1>8 DEF HandleTick

LEMMA WaitEvents ==
  ASSUME TypeOK, TypeOK', LeftIsCovered,
         PedestrianBeginWalk \/ TrainApproaches \/ TrainClears \/ TrainGone
  PROVE  LeftIsCovered'
<1>1. CASE PedestrianBeginWalk
  <2>1. /\ step' = "PED_WALK" /\ countdown_ms' \in Nat /\ busy' = countdown_ms' + After'
        /\ After' \in Nat
    BY <1>1, EnterBusy, StepSeconds DEF PedestrianBeginWalk, PedStep
  <2>2. ~gate_task'.moving /\ ~promised'
    BY <1>1 DEF PedestrianBeginWalk, LeftIsCovered, wait, TypeOK
  <2>3. Due' <= countdown_ms' /\ Due' \in Int
    BY <2>1, <2>2, Ticked, Zenon DEF Due
  <2>4. countdown_ms' \in Int /\ After' \in Int /\ busy' \in Int /\ busy' >= countdown_ms' + After'
    BY <2>1, Entered, Zenon
  <2>5. busy' >= Due' + After'
    BY <2>3, <2>4, Sums
  <2>. QED BY <2>1, <2>2, <2>5 DEF LeftIsCovered
<1>2. CASE TrainApproaches
  <2>1. /\ step' = "RAIL_YELLOW" /\ countdown_ms' \in Nat /\ busy' = countdown_ms' + After'
        /\ After' \in Nat
    BY <1>2, EnterBusy, StepSeconds DEF TrainApproaches, RailStep
  <2>2. ~gate_task'.moving /\ ~promised'
    BY <1>2 DEF TrainApproaches, SequenceEnds, TypeOK, RailStep
  <2>3. Due' <= countdown_ms' /\ Due' \in Int
    BY <2>1, <2>2, Ticked, Zenon DEF Due
  <2>4. countdown_ms' \in Int /\ After' \in Int /\ busy' \in Int /\ busy' >= countdown_ms' + After'
    BY <2>1, Entered, Zenon
  <2>5. busy' >= Due' + After'
    BY <2>3, <2>4, Sums
  <2>. QED BY <2>1, <2>2, <2>5 DEF LeftIsCovered
<1>3. CASE TrainClears
  <2>1. /\ UNCHANGED <<step, busy, tick, gate_task, wait>>
        /\ After' = After /\ Overrun' = Overrun
    BY <1>3 DEF TrainClears, After, Overrun
  <2>2. CASE step = "RAIL_OCCUPIED"
    <3>1. ~gate_task.moving /\ countdown_ms' = 0 /\ countdown_ms \in Nat
      BY <1>3, <2>2 DEF TrainClears, TypeOK
    <3>2. Due' <= Due /\ Due' \in Int /\ Due \in Int
      BY <2>1, <3>1, SMT DEF Due, PHASE_TICK_MS
    <3>3. After \in Nat /\ Overrun[step] \in Nat /\ busy \in Int /\ promise \in Int
      BY <2>2, AfterTypes, OverrunTypes DEF Step, RailStep, TypeOK
    <3>4. busy >= Due + After => busy >= Due' + After
      <4>1. After \in Int
        BY <3>3, SMT
      <4>. QED BY <3>2, <3>3, <4>1, Sums
    <3>5. promise >= Due + After + 1000 - Overrun[step] =>
            promise >= Due' + After + 1000 - Overrun[step]
      BY <3>2, <3>3, SMT
    <3>. QED BY <2>1, <2>2, <3>1, <3>4, <3>5 DEF LeftIsCovered, wait
  <2>3. CASE step # "RAIL_OCCUPIED"
    <3>1. countdown_ms' = countdown_ms
      BY <1>3, <2>3 DEF TrainClears
    <3>2. Due' = Due
      BY <2>1, <3>1 DEF Due
    <3>. QED BY <2>1, <3>1, <3>2 DEF LeftIsCovered, wait
  <2>. QED BY <2>2, <2>3
<1>4. CASE TrainGone
  <2>1. /\ UNCHANGED <<step, countdown_ms, busy, tick, gate_task, wait>>
        /\ After' = After /\ Due' = Due /\ Overrun' = Overrun
    BY <1>4 DEF TrainGone, After, Due, Overrun
  <2>. QED BY <2>1 DEF LeftIsCovered, wait
<1>. QED BY <1>1, <1>2, <1>3, <1>4

LEMMA WaitGate ==
  ASSUME TypeOK, TypeOK', LeftIsCovered, Locks \/ FailsToLock
  PROVE  LeftIsCovered'
<1>1. CASE Locks
  <2>1. step = "RAIL_GATE_LOWER" /\ gate_task.moving /\ ~gate_task'.moving
    BY <1>1 DEF Locks, GateReports, Idle, LeftIsCovered
  <2>2. /\ step' = "RAIL_OCCUPIED" /\ countdown_ms' = Scaled(RAIL_TRAIN_OCCUPY_S)
        /\ busy' = countdown_ms' + After' /\ After' \in Nat
    BY <1>1, EnterBusy, StepSeconds DEF Locks, RailStep
  <2>3. After = Scaled(RAIL_TRAIN_OCCUPY_S) + After'
    BY <2>1, <2>2, AfterOfSteps, RestOfSteps DEF After, RailStep
  <2>4. Due > -GateLate - PHASE_TICK_MS
    BY <2>1 DEF Due, LeftIsCovered
  <2>5. Due' <= Scaled(RAIL_TRAIN_OCCUPY_S) /\ Due' \in Int
    BY <2>1, <2>2, StepSeconds, SMT DEF Due, PHASE_TICK_MS
  <2>6. ASSUME promised' PROVE promise' >= Due' + After' + 1000 - Overrun'[step']
    <3>1. promise >= Due + After + 1000 - 400 /\ promise' = promise
      BY <1>1, <2>1, <2>6 DEF Locks, LeftIsCovered, wait, Overrun
    <3>2. Overrun'[step'] = 500 + GateLate
      BY <2>2 DEF Overrun
    <3>3. /\ promise \in Int /\ Due \in Int /\ After' \in Nat /\ GateLate \in Nat
          /\ Scaled(RAIL_TRAIN_OCCUPY_S) \in Nat
      BY <2>2, DueTypes, StepSeconds, TimingAssumption DEF TypeOK
    <3>4. promise >= Due + Scaled(RAIL_TRAIN_OCCUPY_S) + After' + 600
      BY <2>3, <3>1, <3>3, SMT
    <3>5. Due > -GateLate - 100 /\ Due' <= Scaled(RAIL_TRAIN_OCCUPY_S) /\ Due' \in Int
      BY <2>4, <2>5 DEF PHASE_TICK_MS
    <3>6. promise >= Due' + After' + 1000 - (500 + GateLate)
      <4>1. PICK due, late \in Int : Due' = due /\ Due = late
        BY <3>3, <3>5
      <4>2. PICK after \in Nat : After' = after
        BY <3>3
      <4>3. promise >= late + Scaled(RAIL_TRAIN_OCCUPY_S) + after + 600
        BY <3>4, <4>1, <4>2
      <4>4. promise >= due + after + 1000 - (500 + GateLate)
        BY <3>3, <3>5, <4>1, <4>3, SMT
      <4>. QED BY <4>1, <4>2, <4>4
    <3>. QED BY <3>1, <3>2, <3>6
  <2>7. busy' >= Due' + After'
    BY <2>2, <2>5, StepSeconds, SMT
  <2>. QED BY <2>1, <2>2, <2>6, <2>7 DEF LeftIsCovered
<1>2. CASE FailsToLock
  BY <1>2 DEF FailsToLock, GateReports, LeftIsCovered
<1>. QED BY <1>1, <1>2

(* The gate opens: whatever failed in the closure, nothing is left of it. *)
LEMMA WaitOpens ==
  ASSUME Opens
  PROVE  LeftIsCovered'
<1>1. step' = "ROAD" /\ ~promised' /\ ~gate_task'.moving
  BY DEF Opens, EnterStep, SequenceEnds, GateReports, Idle
<1>. QED BY <1>1 DEF LeftIsCovered

LEMMA WaitRefused ==
  ASSUME TypeOK, TypeOK', LeftIsCovered, OverrideRefused
  PROVE  LeftIsCovered'
<1>1. PICK ms \in Shortest : promise' = IF promised /\ promise < WaitTold(ms) THEN promise
                                        ELSE WaitTold(ms)
  BY DEF OverrideRefused
<1>2. WaitTold(ms) \in Int /\ WaitTold(ms) >= busy + 1000
  <2>1. ms \in Nat /\ busy \in Int
    BY SMT DEF Shortest, PHASE_TICK_MS, TypeOK
  <2>. QED BY <2>1, WaitIsLonger
<1>3. step # "ROAD" /\ busy >= Due + After
  BY DEF OverrideRefused, LeftIsCovered, RailStep, PedStep
<1>4. Overrun[step] \in Nat /\ Due \in Int /\ After \in Nat /\ busy \in Int /\ promise \in Int
  BY <1>3, OverrunTypes, DueTypes, AfterTypes DEF TypeOK
<1>5. WaitTold(ms) >= Due + After + 1000 - Overrun[step]
  BY <1>2, <1>3, <1>4, SMT
<1>6. promise' >= Due + After + 1000 - Overrun[step]
  BY <1>1, <1>5 DEF LeftIsCovered
<1>7. /\ UNCHANGED <<step, countdown_ms, busy, tick, gate_task>>
      /\ After' = After /\ Due' = Due /\ Overrun' = Overrun
  BY DEF OverrideRefused, After, Due, Overrun
<1>. QED BY <1>3, <1>6, <1>7 DEF LeftIsCovered

LEMMA WaitTime ==
  ASSUME GateLate <= 400, TypeOK, TypeOK', LeftIsCovered, TimePasses
  PROVE  LeftIsCovered'
<1>1. /\ ~tick /\ tick' /\ step' = step /\ countdown_ms' = countdown_ms /\ promised' = promised
      /\ After' = After /\ Overrun' = Overrun
  BY DEF TimePasses, After, Overrun
<1>2. /\ gate_task'.moving = gate_task.moving /\ gate_task'.closing = gate_task.closing
      /\ gate_task'.fails = gate_task.fails
      /\ gate_task'.left = IF gate_task.moving THEN gate_task.left - PHASE_TICK_MS
                           ELSE gate_task.left
  BY DEF TimePasses, TypeOK
<1>3. Due' = Due - PHASE_TICK_MS /\ Due \in Int /\ PHASE_TICK_MS = 100
  BY <1>1, <1>2, DueTypes DEF Due, PHASE_TICK_MS
<1>4. ASSUME gate_task'.moving
      PROVE  /\ gate_task'.closing <=> step' = "RAIL_GATE_LOWER"
             /\ ~gate_task'.fails
             /\ gate_task'.left > -GateLate - PHASE_TICK_MS
             /\ gate_task'.left <= countdown_ms' - PHASE_TICK_MS
  <2>1. gate_task.moving /\ gate_task.left > -GateLate /\ gate_task.left <= countdown_ms
    BY <1>1, <1>2, <1>4 DEF TimePasses, LeftIsCovered
  <2>2. gate_task'.left = gate_task.left - PHASE_TICK_MS
    BY <1>2, <2>1
  <2>3. /\ gate_task'.left > -GateLate - PHASE_TICK_MS
        /\ gate_task'.left <= countdown_ms' - PHASE_TICK_MS
    BY <1>1, <2>1, <2>2, TimingAssumption, SMT DEF TypeOK, PHASE_TICK_MS
  <2>. QED BY <1>1, <1>2, <2>1, <2>3 DEF LeftIsCovered
<1>5. ASSUME step' # "ROAD" PROVE busy' >= Due' + After'
  <2>1. busy' = busy - PHASE_TICK_MS /\ busy >= Due + After /\ After \in Nat
    BY <1>1, <1>5, AfterTypes DEF TimePasses, LeftIsCovered
  <2>. QED BY <1>1, <1>3, <2>1, SMT DEF TypeOK
<1>6. ASSUME promised' PROVE step' # "ROAD" /\ promise' >= Due' + After' + 1000 - Overrun'[step']
  <2>1. step # "ROAD" /\ promise >= Due + After + 1000 - Overrun[step]
    BY <1>1, <1>6 DEF LeftIsCovered
  <2>2. promise > 0
    BY <1>1, <1>6, CoveredWaits
  <2>3. promise' = promise - PHASE_TICK_MS
    BY <2>2 DEF TimePasses
  <2>4. Overrun[step] \in Nat /\ After \in Nat /\ promise \in Int
    BY <2>1, OverrunTypes, AfterTypes DEF TypeOK
  <2>. QED BY <1>1, <1>3, <2>1, <2>3, <2>4, SMT
<1>. QED BY <1>1, <1>4, <1>5, <1>6 DEF LeftIsCovered

(* A fault is forgotten when the gate opens, and only then. *)
LEMMA FaultStays ==
  ASSUME TypeOK, [Next]_vars, NoFault', ~Opens
  PROVE  NoFault
<1>1. CASE HandleTick
  <2>1. failed' = failed
    BY <1>1 DEF HandleTick
  <2>2. gate_task' = gate_task \/ ~gate_task.moving
    BY <1>1 DEF HandleTick, RunsOn, AdvanceInLine, AdvanceToLower, AdvanceToRaise, AdvanceRearm,
       AdvanceToRoad, RoadGoesOn, GateCommand
  <2>. QED BY <2>1, <2>2 DEF NoFault
<1>2. CASE Locks
  BY <1>2 DEF Locks, NoFault
<1>3. CASE FailsToLock
  BY <1>3 DEF FailsToLock, NoFault
<1>4. CASE TimePasses
  BY <1>4 DEF TimePasses, NoFault, TypeOK
<1>5. CASE PedestrianBeginWalk \/ TrainApproaches \/ TrainClears \/ TrainGone \/ OverrideRefused
  BY <1>5 DEF PedestrianBeginWalk, TrainApproaches, TrainClears, TrainGone, OverrideRefused, NoFault
<1>6. CASE UNCHANGED vars
  BY <1>6 DEF vars, NoFault
<1>. QED BY <1>1, <1>2, <1>3, <1>4, <1>5, <1>6 DEF Next

(* WaitInv: in a closure in which no attempt to close the gate fails, the  *)
(* busy time an LC publishes is at least what is left of the sequence, and *)
(* so, a step's tick each and a late gate apart, is every wait it has      *)
(* told.                                                                   *)
THEOREM WaitInvariant ==
  ASSUME GateLate <= 400
  PROVE  Spec => [](TypeOK /\ WaitInv)
<1>1. Init => WaitInv
  BY Numbers DEF Init, WaitInv, LeftIsCovered, Idle
<1>2. TypeOK /\ TypeOK' /\ WaitInv /\ [Next]_vars => WaitInv'
  <2> SUFFICES ASSUME TypeOK, TypeOK', WaitInv, [Next]_vars, NoFault' PROVE LeftIsCovered'
    BY DEF WaitInv
  <2>1. CASE Opens
    BY <2>1, WaitOpens
  <2>2. CASE ~Opens
    <3>1. LeftIsCovered
      BY <2>2, FaultStays DEF WaitInv
    <3>2. CASE UNCHANGED vars
      <4>1. /\ UNCHANGED <<step, countdown_ms, busy, tick, gate_task, wait>>
            /\ After' = After /\ Due' = Due /\ Overrun' = Overrun
        BY <3>2 DEF vars, After, Due, Overrun
      <4>. QED BY <3>1, <4>1 DEF LeftIsCovered, wait
    <3>. QED BY <2>2, <3>1, <3>2, WaitTick, WaitEvents, WaitGate, WaitRefused, WaitTime DEF Next
  <2>. QED BY <2>1, <2>2
<1>. QED BY <1>1, <1>2, TimingTypes, PTL DEF Spec

(* WaitCovers, for every factor the build admits: the CC's resend does not *)
(* arrive within the closure or the crossing it was told to wait for,      *)
(* unless the gate fails in it.                                            *)
THEOREM WaitIsLongEnough ==
  ASSUME GateLate <= 400
  PROVE  Spec => []WaitCovers
<1>1. TypeOK /\ WaitInv => WaitCovers
  BY CoveredWaits DEF WaitInv, WaitCovers
<1>. QED BY <1>1, WaitInvariant, PTL

------------------------------------------------------------------------------
(* When the steps of a closure end.  Latest: the latest end of a step of   *)
(* the lead, in ms after the train tripped the sensor, each step a tick's  *)
(* rest longer than its time.  Soonest: the end of a step that no clear    *)
(* has cut short, if the pulse that starts the lead was already waiting,   *)
(* and the gate's report and the pulse after it came a tick early.         *)

LeadStep == {"RAIL_YELLOW", "RAIL_ALLRED", "RAIL_PREARRIVAL", "RAIL_WARN"}
Down     == {"RAIL_OCCUPIED", "RAIL_POST_HOLD"}

Latest ==
  LET yellow == Scaled(VEHICLE_YELLOW_S)
      red    == yellow + Scaled(VEHICLE_ALL_RED_S) + PHASE_TICK_MS - 1
      quiet  == red + Scaled(RAIL_PREARRIVAL_QUIET_S) + PHASE_TICK_MS - 1
      warn   == quiet + Scaled(RAIL_WARNING_LEAD_S) + PHASE_TICK_MS - 1
      lower  == warn + Scaled(RAIL_GATE_LOWER_S) + PHASE_TICK_MS - 1
  IN  [RAIL_YELLOW |-> yellow, RAIL_ALLRED |-> red, RAIL_PREARRIVAL |-> quiet,
       RAIL_WARN |-> warn, RAIL_GATE_LOWER |-> lower]

Soonest ==
  LET yellow == Scaled(VEHICLE_YELLOW_S) - PHASE_TICK_MS
      red    == yellow + Scaled(VEHICLE_ALL_RED_S)
      quiet  == red + Scaled(RAIL_PREARRIVAL_QUIET_S)
      warn   == quiet + Scaled(RAIL_WARNING_LEAD_S)
      lower  == warn + Scaled(RAIL_GATE_LOWER_S)
      occ    == lower - 2 * PHASE_TICK_MS + Scaled(RAIL_TRAIN_OCCUPY_S)
      hold   == occ + Scaled(RAIL_POST_TRAIN_HOLD_S)
  IN  [RAIL_YELLOW |-> yellow, RAIL_ALLRED |-> red, RAIL_PREARRIVAL |-> quiet,
       RAIL_WARN |-> warn, RAIL_GATE_LOWER |-> lower, RAIL_GATE_FAULT |-> warn,
       RAIL_OCCUPIED |-> occ, RAIL_POST_HOLD |-> hold]

LEMMA LatestOfSteps ==
  /\ \A s \in LeadStep \cup {"RAIL_GATE_LOWER"} : Latest[s] \in Int
  /\ Latest["RAIL_YELLOW"] = Scaled(VEHICLE_YELLOW_S)
  /\ Latest["RAIL_ALLRED"] = Latest["RAIL_YELLOW"] + Scaled(VEHICLE_ALL_RED_S) + 99
  /\ Latest["RAIL_PREARRIVAL"] = Latest["RAIL_ALLRED"] + Scaled(RAIL_PREARRIVAL_QUIET_S) + 99
  /\ Latest["RAIL_WARN"] = Latest["RAIL_PREARRIVAL"] + Scaled(RAIL_WARNING_LEAD_S) + 99
  /\ Latest["RAIL_GATE_LOWER"] = Latest["RAIL_WARN"] + Scaled(RAIL_GATE_LOWER_S) + 99
BY StepSeconds, SMT DEF Latest, LeadStep, PHASE_TICK_MS

LEMMA SoonestOfSteps ==
  /\ \A s \in LeadStep \cup Down \cup {"RAIL_GATE_LOWER", "RAIL_GATE_FAULT"} : Soonest[s] \in Int
  /\ Soonest["RAIL_YELLOW"] = Scaled(VEHICLE_YELLOW_S) - 100
  /\ Soonest["RAIL_ALLRED"] = Soonest["RAIL_YELLOW"] + Scaled(VEHICLE_ALL_RED_S)
  /\ Soonest["RAIL_PREARRIVAL"] = Soonest["RAIL_ALLRED"] + Scaled(RAIL_PREARRIVAL_QUIET_S)
  /\ Soonest["RAIL_WARN"] = Soonest["RAIL_PREARRIVAL"] + Scaled(RAIL_WARNING_LEAD_S)
  /\ Soonest["RAIL_GATE_FAULT"] = Soonest["RAIL_WARN"]
  /\ Soonest["RAIL_GATE_LOWER"] = Soonest["RAIL_WARN"] + Scaled(RAIL_GATE_LOWER_S)
  /\ Soonest["RAIL_OCCUPIED"] = Soonest["RAIL_GATE_LOWER"] - 200 + Scaled(RAIL_TRAIN_OCCUPY_S)
  /\ Soonest["RAIL_POST_HOLD"] = Soonest["RAIL_OCCUPIED"] + Scaled(RAIL_POST_TRAIN_HOLD_S)
BY StepSeconds, SMT DEF Soonest, LeadStep, Down, PHASE_TICK_MS

(* The seconds of common.h together, at the five scales of the build: the  *)
(* lead ends with the train's arrival but for its rounding, the hold half  *)
(* a second or more after the clear, and the hold makes up for what a lead *)
(* that was late takes from the train's time.                              *)
LEMMA TimesFit ==
  /\ SimMs(RAIL_PROTECT_LEAD_S) \in Nat /\ ClearAt \in Nat
  /\ Latest["RAIL_GATE_LOWER"] <= SimMs(RAIL_PROTECT_LEAD_S) + 398
  /\ Latest["RAIL_WARN"] + 1000 <= Latest["RAIL_GATE_LOWER"]
  /\ Soonest["RAIL_POST_HOLD"] >= ClearAt + 200
  /\ ClearAt + Scaled(RAIL_POST_TRAIN_HOLD_S) >=
       Latest["RAIL_GATE_LOWER"] + 499 + Scaled(RAIL_TRAIN_OCCUPY_S)
  /\ Scaled(RAIL_POST_TRAIN_HOLD_S) >= 1000 /\ Scaled(GATE_RETRY_INTERVAL_S) >= 1000
  /\ Scaled(VEHICLE_YELLOW_S) >= 1 /\ Scaled(VEHICLE_ALL_RED_S) >= 1
  /\ Scaled(RAIL_PREARRIVAL_QUIET_S) >= 1 /\ Scaled(RAIL_WARNING_LEAD_S) >= 1
  /\ Scaled(RAIL_GATE_LOWER_S) >= 1000 /\ Scaled(GATE_MOVE_TIMEOUT_S + 1) >= Scaled(RAIL_GATE_LOWER_S)
<1>1. TIME_SCALE_FACTOR \in {1, 2, 3, 4, 5}
  BY Factors, SMT
<1>2. /\ SimMs(RAIL_PROTECT_LEAD_S) = 50000 \div TIME_SCALE_FACTOR
      /\ ClearAt = 75000 \div TIME_SCALE_FACTOR
      /\ Scaled(VEHICLE_YELLOW_S) = (2999 + TIME_SCALE_FACTOR) \div TIME_SCALE_FACTOR
      /\ Scaled(VEHICLE_ALL_RED_S) = (1999 + TIME_SCALE_FACTOR) \div TIME_SCALE_FACTOR
      /\ Scaled(RAIL_PREARRIVAL_QUIET_S) = (19999 + TIME_SCALE_FACTOR) \div TIME_SCALE_FACTOR
      /\ Scaled(RAIL_WARNING_LEAD_S) = (14999 + TIME_SCALE_FACTOR) \div TIME_SCALE_FACTOR
      /\ Scaled(RAIL_GATE_LOWER_S) = (9999 + TIME_SCALE_FACTOR) \div TIME_SCALE_FACTOR
      /\ Scaled(GATE_MOVE_TIMEOUT_S + 1) = (10999 + TIME_SCALE_FACTOR) \div TIME_SCALE_FACTOR
      /\ Scaled(RAIL_TRAIN_OCCUPY_S) = (24999 + TIME_SCALE_FACTOR) \div TIME_SCALE_FACTOR
      /\ Scaled(RAIL_POST_TRAIN_HOLD_S) = (4999 + TIME_SCALE_FACTOR) \div TIME_SCALE_FACTOR
      /\ Scaled(GATE_RETRY_INTERVAL_S) = (4999 + TIME_SCALE_FACTOR) \div TIME_SCALE_FACTOR
  BY <1>1, SMT DEF SimMs, ClearAt, Scaled, SCALE_MS, VEHICLE_YELLOW_S, VEHICLE_ALL_RED_S,
     RAIL_PREARRIVAL_QUIET_S, RAIL_PROTECT_LEAD_S, RAIL_WARNING_LEAD_S, RAIL_GATE_LOWER_S,
     GATE_MOVE_TIMEOUT_S, RAIL_TRAIN_OCCUPY_S, RAIL_POST_TRAIN_HOLD_S, GATE_RETRY_INTERVAL_S
<1>. QED BY <1>1, <1>2, LatestOfSteps, SoonestOfSteps, SMT

(* No step but the last ends before its soonest end, unless it is cut      *)
(* short by the clear.                                                     *)
NotSoon == ~cleared /\ step \in DOMAIN Soonest => since + Due >= Soonest[step]

(* The train's time: it is counted while a closure lasts, the report of    *)
(* its clear is at most a tick and the next one late, and the gate is not  *)
(* raised without it.                                                      *)
TrainTime ==
  /\ since >= -1
  /\ cleared => since >= ClearAt
  /\ ~cleared => since < ClearAt + 2 * PHASE_TICK_MS
  /\ step \in RailStep => since >= 0
  /\ step = "RAIL_GATE_RAISE" => cleared
  /\ step \notin RailStep => since = -1 \/ cleared

(* What the gate, the light and the flags are in each step. *)
GateFollows ==
  /\ gate_state = "LOCKED" <=> step \in Down
  /\ gate_state = "RAISING" <=> step = "RAIL_GATE_RAISE"
  /\ gate_task.moving => (gate_task.closing <=> step = "RAIL_GATE_LOWER")
  /\ step \in LeadStep => countdown_ms >= 1
  /\ step \in LeadStep \/ step \notin RailStep => ~failed
  /\ step = "RAIL_GATE_FAULT" => failed
  /\ failed /\ step \in {"RAIL_GATE_FAULT", "RAIL_GATE_LOWER"} => train_signal = "RED"
  /\ step \notin Down \cup {"RAIL_GATE_RAISE"} => locked = 0

LEMMA TrainTimeInit == Init => TrainTime /\ GateFollows
<1> SUFFICES ASSUME Init PROVE TrainTime /\ GateFollows
  OBVIOUS
<1>1. since = -1 /\ since >= -1 /\ since < ClearAt + 2 * PHASE_TICK_MS
  BY TimesFit, SMT DEF Init, PHASE_TICK_MS
<1>. QED BY <1>1 DEF Init, Idle, TrainTime, GateFollows, RailStep, LeadStep, Down

LEMMA TrainTimeStep == TypeOK /\ GateFollows /\ TrainTime /\ NotSoon /\ [Next]_vars => TrainTime'
<1> SUFFICES ASSUME TypeOK, GateFollows, TrainTime, NotSoon, [Next]_vars PROVE TrainTime'
  OBVIOUS
<1>0. ClearAt \in Nat /\ since \in Int /\ ClearAt' = ClearAt /\ cleared \in BOOLEAN
  BY TimesFit DEF TypeOK, ClearAt
<1>1. CASE TimePasses
  <2>1. step' = step /\ cleared' = cleared
    BY <1>1 DEF TimePasses
  <2>2. CASE since = -1 \/ cleared
    BY <1>1, <2>1, <2>2 DEF TimePasses, TrainTime, ClearAt
  <2>3. CASE ~(since = -1 \/ cleared)
    <3>1. since' = since + 100 /\ since < ClearAt + 100 /\ since >= -1
      BY <1>1, <2>3 DEF TimePasses, PHASE_TICK_MS, TrainTime
    <3>2. since' >= 0 /\ since' < ClearAt + 200
      BY <1>0, <3>1, SMT
    <3>3. since' >= -1 /\ 2 * PHASE_TICK_MS = 200
      BY <1>0, <3>1, <3>2, SMT DEF PHASE_TICK_MS
    <3>. QED BY <1>0, <2>1, <2>3, <3>2, <3>3 DEF TrainTime
  <2>. QED BY <2>2, <2>3
<1>2. CASE TrainApproaches
  <2>1. since' = 0 /\ ~cleared' /\ step' = "RAIL_YELLOW"
    BY <1>2 DEF TrainApproaches, EnterStep
  <2>2. 0 >= -1 /\ 0 >= 0 /\ 0 < ClearAt + 2 * PHASE_TICK_MS
    BY <1>0, SMT DEF PHASE_TICK_MS
  <2>. QED BY <1>0, <2>1, <2>2 DEF TrainTime, RailStep
<1>3. CASE TrainClears
  BY <1>0, <1>3 DEF TrainClears, TrainTime
<1>4. CASE TrainGone
  <2>1. since' = -1 /\ ~cleared' /\ step' = step /\ step \notin RailStep
    BY <1>4 DEF TrainGone
  <2>2. -1 >= -1 /\ -1 < ClearAt + 2 * PHASE_TICK_MS
    BY <1>0, SMT DEF PHASE_TICK_MS
  <2>. QED BY <1>0, <2>1, <2>2 DEF TrainTime, RailStep
<1>5. CASE /\ UNCHANGED <<since, cleared>>
           /\ step' \in RailStep => step \in RailStep
           /\ step' = "RAIL_GATE_RAISE" => step = "RAIL_GATE_RAISE" \/ cleared
           /\ step' \notin RailStep => step \notin RailStep \/ step = "RAIL_GATE_RAISE"
  BY <1>0, <1>5 DEF TrainTime
<1>6. CASE HandleTick
  <2>1. UNCHANGED <<since, cleared>>
    BY <1>6 DEF HandleTick, train
  <2>2. CASE AdvanceToRaise /\ countdown_ms - PHASE_TICK_MS <= 0
    <3>1. step = "RAIL_POST_HOLD" /\ ~gate_task.moving /\ tick
      BY <1>6, <2>2 DEF HandleTick, AdvanceToRaise, GateCommand
    <3>2. Due = countdown_ms - PHASE_TICK_MS /\ Due \in Int /\ Due <= 0
      BY <2>2, <3>1, DueTypes DEF Due
    <3>3. ASSUME ~cleared PROVE FALSE
      <4>1. since + Due >= Soonest["RAIL_POST_HOLD"] /\ since < ClearAt + 200
        BY <3>1, <3>3 DEF NotSoon, TrainTime, Soonest, PHASE_TICK_MS
      <4>2. Soonest["RAIL_POST_HOLD"] >= ClearAt + 200 /\ Soonest["RAIL_POST_HOLD"] \in Int
        BY TimesFit, SoonestOfSteps DEF Down
      <4>. QED BY <1>0, <3>2, <4>1, <4>2, SMT
    <3>4. step' = "RAIL_GATE_RAISE"
      BY <2>2 DEF AdvanceToRaise, EnterStep
    <3>. QED BY <1>5, <2>1, <3>1, <3>3, <3>4 DEF RailStep
  <2>3. CASE ~AdvanceToRaise
    <3>1. /\ step \in RailStep <=> step' \in RailStep
          /\ step' = "RAIL_GATE_RAISE" => step = "RAIL_GATE_RAISE"
      BY <1>6, <2>3 DEF HandleTick, RunsOn, AdvanceInLine, AdvanceToLower, AdvanceRearm,
         AdvanceToRoad, RoadGoesOn, EnterStep, RailStep
    <3>. QED BY <1>5, <2>1, <3>1
  <2>4. AdvanceToRaise => countdown_ms - PHASE_TICK_MS <= 0
    BY <1>6 DEF HandleTick, AdvanceToRaise, RunsOn, RoadGoesOn, EnterStep
  <2>. QED BY <2>2, <2>3, <2>4
<1>7. CASE PedestrianBeginWalk \/ OverrideRefused \/ UNCHANGED vars
  BY <1>5, <1>7 DEF PedestrianBeginWalk, OverrideRefused, vars, train, EnterStep, RailStep
<1>8. CASE Locks \/ FailsToLock \/ Opens
  <2>1. /\ step \in RailStep /\ step' # "RAIL_GATE_RAISE"
        /\ step' \notin RailStep => step = "RAIL_GATE_RAISE"
    BY <1>8 DEF Locks, FailsToLock, Opens, GateReports, TypeOK, RailStep, GateFollows, EnterStep
  <2>. QED BY <1>5, <1>8, <2>1 DEF Locks, FailsToLock, Opens, train
<1>. QED BY <1>1, <1>2, <1>3, <1>4, <1>6, <1>7, <1>8 DEF Next

LEMMA GateFollowsStep == TypeOK /\ GateFollows /\ [Next]_vars => GateFollows'
<1> SUFFICES ASSUME TypeOK, GateFollows, [Next]_vars PROVE GateFollows'
  OBVIOUS
<1> USE DEF GateFollows
<1>1. CASE HandleTick
  <2>1. UNCHANGED <<train_signal, locked, failed>>
    BY <1>1 DEF HandleTick
  <2>2. CASE RunsOn(countdown_ms - PHASE_TICK_MS)
    <3>1. countdown_ms' >= 1
      BY <2>2, SMT DEF RunsOn, TypeOK, PHASE_TICK_MS
    <3>. QED BY <2>1, <2>2, <3>1 DEF RunsOn
  <2>3. CASE AdvanceInLine
    <3>1. step' \in LeadStep => countdown_ms' >= 1
      BY <2>3, TimesFit DEF AdvanceInLine, EnterStep, LeadStep
    <3>. QED BY <2>1, <2>3, <3>1
         DEF AdvanceInLine, EnterStep, RailStep, LeadStep, Down, TypeOK
  <2>4. CASE AdvanceToLower
    <3>1. gate_task'.closing
      BY <2>4 DEF AdvanceToLower, GateCommand
    <3>. QED BY <2>1, <2>4, <3>1
         DEF AdvanceToLower, EnterStep, RailStep, LeadStep, Down
  <2>5. CASE AdvanceToRaise
    <3>1. ~gate_task'.closing
      BY <2>5 DEF AdvanceToRaise, GateCommand
    <3>. QED BY <2>1, <2>5, <3>1
         DEF AdvanceToRaise, EnterStep, RailStep, LeadStep, Down
  <2>6. CASE AdvanceRearm
    BY <2>1, <2>6 DEF AdvanceRearm, EnterStep, RailStep, LeadStep, Down
  <2>7. CASE AdvanceToRoad
    BY <2>1, <2>7 DEF AdvanceToRoad, EnterStep, RailStep, LeadStep, Down
  <2>8. CASE RoadGoesOn
    BY <2>1, <2>8 DEF RoadGoesOn
  <2>. QED BY <1>1, <2>2, <2>3, <2>4, <2>5, <2>6, <2>7, <2>8 DEF HandleTick
<1>2. CASE Locks
  <2>1. step = "RAIL_GATE_LOWER" /\ ~gate_task'.moving /\ step' = "RAIL_OCCUPIED"
    BY <1>2 DEF Locks, GateReports, Idle, EnterStep
  <2>. QED BY <1>2, <2>1 DEF Locks, RailStep, LeadStep, Down
<1>3. CASE FailsToLock
  <2>1. step = "RAIL_GATE_LOWER" /\ ~gate_task'.moving /\ step' = "RAIL_GATE_FAULT"
    BY <1>3 DEF FailsToLock, GateReports, Idle, EnterStep
  <2>. QED BY <1>3, <2>1 DEF FailsToLock, RailStep, LeadStep, Down
<1>4. CASE Opens
  <2>1. ~gate_task'.moving /\ step' = "ROAD"
    BY <1>4 DEF Opens, GateReports, Idle, EnterStep
  <2>. QED BY <1>4, <2>1 DEF Opens, RailStep, LeadStep, Down
<1>5. CASE TrainApproaches
  <2>1. step' = "RAIL_YELLOW" /\ countdown_ms' >= 1 /\ step \notin RailStep
    BY <1>5, TimesFit DEF TrainApproaches, EnterStep
  <2>. QED BY <1>5, <2>1 DEF TrainApproaches, RailStep, LeadStep, Down, TypeOK
<1>6. CASE TrainClears
  <2>1. step = "RAIL_OCCUPIED" \/ countdown_ms' = countdown_ms
    BY <1>6 DEF TrainClears
  <2>. QED BY <1>6, <2>1 DEF TrainClears, LeadStep
<1>7. CASE PedestrianBeginWalk
  BY <1>7 DEF PedestrianBeginWalk, EnterStep, RailStep, LeadStep, Down
<1>8. CASE TimePasses
  <2>1. UNCHANGED <<step, countdown_ms, gate_state, train_signal, failed>>
    BY <1>8 DEF TimePasses
  <2>2. gate_task'.moving = gate_task.moving /\ gate_task'.closing = gate_task.closing
    BY <1>8 DEF TimePasses, TypeOK
  <2>3. step \notin Down => locked' = locked
    BY <1>8 DEF TimePasses
  <2>. QED BY <2>1, <2>2, <2>3
<1>9. CASE TrainGone \/ OverrideRefused \/ UNCHANGED vars
  BY <1>9 DEF TrainGone, OverrideRefused, vars
<1>. QED BY <1>1, <1>2, <1>3, <1>4, <1>5, <1>6, <1>7, <1>8, <1>9 DEF Next

(* The time due changes with the countdown, or with the gate's travel. *)
LEMMA DueOfStep ==
  ASSUME TypeOK, ~gate_task.moving
  PROVE  Due \in Int /\ Due <= countdown_ms /\ Due >= countdown_ms - 100
         /\ (tick => Due = countdown_ms - 100)
<1>1. Due = IF tick THEN countdown_ms - 100 ELSE countdown_ms
  BY DEF Due, PHASE_TICK_MS
<1>. QED BY <1>1, SMT DEF TypeOK

LEMMA DueRunsOn ==
  ASSUME TypeOK, HandleTick, RunsOn(countdown_ms - PHASE_TICK_MS)
  PROVE  Due' = Due /\ UNCHANGED <<step, since, cleared, gate_task, locked, failed>>
<1>1. tick /\ ~tick' /\ countdown_ms' = countdown_ms - PHASE_TICK_MS /\ gate_task' = gate_task
  BY DEF HandleTick, RunsOn
<1>. QED BY <1>1 DEF Due, HandleTick, RunsOn, train

(* A step that times out has nothing due, and the next one its whole time. *)
LEMMA DueNext ==
  ASSUME TypeOK, TypeOK', HandleTick, countdown_ms - PHASE_TICK_MS <= 0, ~gate_task.moving,
         ~gate_task'.moving
  PROVE  Due \in Int /\ Due <= 0 /\ Due >= -100 /\ (countdown_ms >= 1 => Due >= -99)
         /\ Due' = countdown_ms'
<1>1. tick /\ ~tick'
  BY DEF HandleTick
<1>2. Due = countdown_ms - 100 /\ countdown_ms - 100 <= 0 /\ Due \in Int
  BY <1>1, DueOfStep DEF PHASE_TICK_MS
<1>3. Due' = countdown_ms'
  BY <1>1 DEF Due
<1>. QED BY <1>2, <1>3, SMT DEF TypeOK

LEMMA DuePasses ==
  ASSUME TypeOK, TimePasses
  PROVE  Due \in Int /\ Due' = Due - 100 /\ UNCHANGED <<step, cleared, failed>>
         /\ gate_task'.moving = gate_task.moving /\ gate_task'.fails = gate_task.fails
<1>1. /\ ~tick /\ tick' /\ countdown_ms' = countdown_ms
      /\ gate_task' = IF gate_task.moving THEN [gate_task EXCEPT !.left = @ - PHASE_TICK_MS]
                      ELSE gate_task
  BY DEF TimePasses
<1>2. /\ gate_task'.moving = gate_task.moving /\ gate_task'.fails = gate_task.fails
      /\ gate_task.moving => gate_task'.left = gate_task.left - 100
  BY <1>1 DEF TypeOK, PHASE_TICK_MS
<1>. QED BY <1>1, <1>2, DueTypes DEF Due, PHASE_TICK_MS, TimePasses

(* The gate's report ends the lowering. *)
LEMMA DueReports ==
  ASSUME TypeOK, TypeOK', GateReports, NEW s \in RailStep, NEW ms \in Nat, EnterStep(s, ms)
  PROVE  /\ Due \in Int /\ Due = gate_task.left /\ Due < 100
         /\ Due' \in Int /\ Due' >= ms - 100 /\ Due' <= ms
         /\ step' = s /\ ~gate_task'.moving
<1>1. ~gate_task'.moving /\ countdown_ms' = ms /\ step' = s
  BY DEF GateReports, Idle, EnterStep
<1>2. Due' = IF tick' THEN ms - 100 ELSE ms
  BY <1>1 DEF Due, PHASE_TICK_MS
<1>3. Due' \in Int /\ Due' >= ms - 100 /\ Due' <= ms
  BY <1>2, SMT
<1>. QED BY <1>1, <1>3, DueTypes DEF GateReports, Due, PHASE_TICK_MS

LEMMA NotSoonInLine ==
  ASSUME NotSoon, TypeOK, TypeOK', HandleTick, countdown_ms - PHASE_TICK_MS <= 0,
         ~gate_task.moving, ~gate_task'.moving, ~cleared,
         NEW s \in LeadStep \cup Down, NEW ms \in Nat, EnterStep(s, ms),
         step \in LeadStep \cup Down, Soonest[s] = Soonest[step] + ms
  PROVE  since' + Due' >= Soonest'[s]
<1>1. Due' = ms /\ since' = since /\ Soonest' = Soonest
  BY DueNext DEF EnterStep, HandleTick, train, Soonest
<1>2. since + Due >= Soonest[step]
  BY DEF NotSoon, Soonest, LeadStep, Down
<1>3. Due \in Int /\ Due <= 0 /\ since \in Int /\ Soonest[step] \in Int
  BY DueNext, SoonestOfSteps DEF TypeOK
<1>4. since + ms >= Soonest[step] + ms
  BY <1>2, <1>3, SMT
<1>. QED BY <1>1, <1>4

LEMMA NotSoonTick ==
  ASSUME TypeOK, TypeOK', GateFollows, NotSoon, HandleTick
  PROVE  NotSoon'
<1>. SUFFICES ASSUME ~cleared', step' \in DOMAIN Soonest' PROVE since' + Due' >= Soonest'[step']
  BY DEF NotSoon
<1>1. /\ ~cleared /\ since' = since /\ since \in Int /\ tick /\ ~tick'
      /\ Soonest' = Soonest
  BY DEF HandleTick, train, TypeOK, Soonest
<1>2. CASE RunsOn(countdown_ms - PHASE_TICK_MS)
  BY <1>1, <1>2, DueRunsOn DEF NotSoon
<1>3. CASE AdvanceInLine /\ countdown_ms - PHASE_TICK_MS <= 0
  <2>1. ~gate_task.moving /\ ~gate_task'.moving
    BY <1>3 DEF AdvanceInLine, TypeOK
  <2>2. CASE step = "RAIL_YELLOW" /\ EnterStep("RAIL_ALLRED", Scaled(VEHICLE_ALL_RED_S))
    BY <1>1, <1>3, <2>1, <2>2, NotSoonInLine, SoonestOfSteps, StepSeconds
       DEF EnterStep, LeadStep, Down
  <2>3. CASE step = "RAIL_ALLRED" /\ EnterStep("RAIL_PREARRIVAL", Scaled(RAIL_PREARRIVAL_QUIET_S))
    BY <1>1, <1>3, <2>1, <2>3, NotSoonInLine, SoonestOfSteps, StepSeconds
       DEF EnterStep, LeadStep, Down
  <2>4. CASE step = "RAIL_PREARRIVAL" /\ EnterStep("RAIL_WARN", Scaled(RAIL_WARNING_LEAD_S))
    BY <1>1, <1>3, <2>1, <2>4, NotSoonInLine, SoonestOfSteps, StepSeconds
       DEF EnterStep, LeadStep, Down
  <2>5. CASE step = "RAIL_OCCUPIED" /\ EnterStep("RAIL_POST_HOLD", Scaled(RAIL_POST_TRAIN_HOLD_S))
    BY <1>1, <1>3, <2>1, <2>5, NotSoonInLine, SoonestOfSteps, StepSeconds
       DEF EnterStep, LeadStep, Down
  <2>6. CASE step' = "PED_CLEARANCE"
    BY <1>1, <2>6 DEF Soonest
  <2>. QED BY <1>3, <2>2, <2>3, <2>4, <2>5, <2>6 DEF AdvanceInLine, EnterStep
<1>4. CASE AdvanceToLower /\ countdown_ms - PHASE_TICK_MS <= 0
  <2>1. step \in {"RAIL_WARN", "RAIL_GATE_FAULT"} /\ step' = "RAIL_GATE_LOWER" /\ ~gate_task.moving
    BY <1>4 DEF AdvanceToLower, EnterStep, GateCommand
  <2>2. since + Due >= Soonest["RAIL_WARN"] /\ Soonest["RAIL_WARN"] \in Int
    BY <1>1, <2>1, SoonestOfSteps DEF NotSoon, Soonest, LeadStep
  <2>3. Due \in Int /\ Due <= 0
    BY <1>1, <1>4, <2>1, DueOfStep DEF PHASE_TICK_MS
  <2>4. Due' \in Int /\ Due' >= Scaled(RAIL_GATE_LOWER_S)
    <3>1. PICK fails \in BOOLEAN : GateCommand(TRUE, fails)
      BY <1>4 DEF AdvanceToLower
    <3>2. Due' = Scaled(IF fails THEN GATE_MOVE_TIMEOUT_S + 1 ELSE RAIL_GATE_LOWER_S)
      BY <3>1 DEF GateCommand, Due
    <3>. QED BY <3>2, TimesFit, StepSeconds, SMT
  <2>5. Soonest["RAIL_GATE_LOWER"] = Soonest["RAIL_WARN"] + Scaled(RAIL_GATE_LOWER_S)
    BY SoonestOfSteps
  <2>. QED BY <1>1, <2>1, <2>2, <2>3, <2>4, <2>5, StepSeconds, SMT
<1>5. CASE AdvanceToRaise
  BY <1>1, <1>5 DEF AdvanceToRaise, EnterStep, Soonest
<1>6. CASE AdvanceRearm
  <2>1. step' = step /\ gate_task' = gate_task /\ gate_task.moving
    BY <1>6 DEF AdvanceRearm, EnterStep, TypeOK
  <2>2. Due' = Due
    BY <2>1 DEF Due
  <2>. QED BY <1>1, <2>1, <2>2 DEF NotSoon
<1>7. CASE AdvanceToRoad
  BY <1>1, <1>7 DEF AdvanceToRoad, EnterStep, Soonest
<1>8. CASE RoadGoesOn
  BY <1>1, <1>8 DEF RoadGoesOn, Soonest
<1>. QED BY <1>2, <1>3, <1>4, <1>5, <1>6, <1>7, <1>8 DEF HandleTick

LEMMA NotSoonStep ==
  ASSUME TypeOK, TypeOK', GateFollows, TrainTime, NotSoon, [Next]_vars
  PROVE  NotSoon'
<1>0. since \in Int /\ Soonest' = Soonest
  BY DEF TypeOK, Soonest
<1>1. CASE HandleTick
  BY <1>1, NotSoonTick
<1>2. CASE Locks
  <2>1. /\ step = "RAIL_GATE_LOWER" /\ cleared' = cleared /\ since' = since
        /\ EnterStep("RAIL_OCCUPIED", Scaled(RAIL_TRAIN_OCCUPY_S)) /\ GateReports
    BY <1>2 DEF Locks, GateReports, GateFollows, train
  <2>2. /\ Due \in Int /\ Due < 100 /\ Due' \in Int /\ Due' >= Scaled(RAIL_TRAIN_OCCUPY_S) - 100
        /\ step' = "RAIL_OCCUPIED"
    BY <2>1, DueReports, StepSeconds DEF RailStep
  <2>3. ASSUME ~cleared PROVE since + Due' >= Soonest["RAIL_OCCUPIED"]
    <3>1. since + Due >= Soonest["RAIL_GATE_LOWER"] /\ Soonest["RAIL_GATE_LOWER"] \in Int
      BY <2>1, <2>3, SoonestOfSteps DEF NotSoon, Soonest
    <3>. QED BY <1>0, <2>2, <3>1, SoonestOfSteps, StepSeconds, SMT
  <2>. QED BY <1>0, <2>1, <2>2, <2>3 DEF NotSoon
<1>3. CASE FailsToLock
  <2>1. /\ step = "RAIL_GATE_LOWER" /\ cleared' = cleared /\ since' = since
        /\ EnterStep("RAIL_GATE_FAULT", Scaled(GATE_RETRY_INTERVAL_S)) /\ GateReports
    BY <1>3 DEF FailsToLock, GateReports, GateFollows, train
  <2>2. /\ Due \in Int /\ Due < 100 /\ Due' \in Int /\ Due' >= Scaled(GATE_RETRY_INTERVAL_S) - 100
        /\ step' = "RAIL_GATE_FAULT"
    BY <2>1, DueReports, StepSeconds DEF RailStep
  <2>3. ASSUME ~cleared PROVE since + Due' >= Soonest["RAIL_GATE_FAULT"]
    <3>1. since + Due >= Soonest["RAIL_GATE_LOWER"] /\ Soonest["RAIL_WARN"] \in Int
      BY <2>1, <2>3, SoonestOfSteps DEF NotSoon, Soonest, LeadStep
    <3>. QED BY <1>0, <2>2, <3>1, SoonestOfSteps, StepSeconds, TimesFit, SMT
  <2>. QED BY <1>0, <2>1, <2>2, <2>3 DEF NotSoon
<1>4. CASE Opens
  BY <1>0, <1>4 DEF Opens, EnterStep, NotSoon, Soonest
<1>5. CASE TrainApproaches
  <2>1. /\ step' = "RAIL_YELLOW" /\ countdown_ms' = Scaled(VEHICLE_YELLOW_S) /\ since' = 0
        /\ ~gate_task'.moving
    BY <1>5 DEF TrainApproaches, EnterStep, TypeOK, RailStep
  <2>2. Due' = IF tick' THEN Scaled(VEHICLE_YELLOW_S) - 100 ELSE Scaled(VEHICLE_YELLOW_S)
    BY <2>1 DEF Due, PHASE_TICK_MS
  <2>3. 0 + Due' >= Scaled(VEHICLE_YELLOW_S) - 100
    BY <2>2, StepSeconds, SMT
  <2>. QED BY <1>0, <2>1, <2>3, SoonestOfSteps DEF NotSoon
<1>6. CASE TrainClears
  BY <1>6 DEF TrainClears, NotSoon
<1>7. CASE TrainGone
  BY <1>0, <1>7 DEF TrainGone, NotSoon, Soonest, RailStep
<1>8. CASE PedestrianBeginWalk
  BY <1>0, <1>8 DEF PedestrianBeginWalk, EnterStep, NotSoon, Soonest
<1>9. CASE TimePasses
  <2>. SUFFICES ASSUME ~cleared', step' \in DOMAIN Soonest' PROVE since' + Due' >= Soonest'[step']
    BY DEF NotSoon
  <2>1. Due \in Int /\ Due' = Due - 100 /\ step' = step /\ ~cleared
    BY <1>9, DuePasses
  <2>2. step \in DOMAIN Soonest /\ step \in RailStep
    BY <1>0, <2>1 DEF Soonest, RailStep
  <2>3. since' = since + 100
    <3>1. since # -1
      BY <1>0, <2>2, SMT DEF TrainTime
    <3>. QED BY <1>9, <2>1, <3>1 DEF TimePasses, PHASE_TICK_MS
  <2>4. since + Due >= Soonest[step] /\ Soonest[step] \in Int
    BY <2>1, <2>2, SoonestOfSteps DEF NotSoon, Soonest, LeadStep, Down
  <2>. QED BY <1>0, <2>1, <2>3, <2>4, SMT
<1>10. CASE OverrideRefused \/ UNCHANGED vars
  <2>1. UNCHANGED <<step, since, cleared, countdown_ms, tick, gate_task>>
    BY <1>10 DEF OverrideRefused, vars, train
  <2>. QED BY <1>0, <2>1 DEF NotSoon, Due
<1>. QED BY <1>1, <1>2, <1>3, <1>4, <1>5, <1>6, <1>7, <1>8, <1>9, <1>10 DEF Next

(* No step of the lead ends after its latest end, and the gate reports a   *)
(* first attempt, or its failure, at most GateLate and a tick after that.  *)
NotLate ==
  /\ step \in LeadStep => since + Due <= Latest[step]
  /\ step = "RAIL_GATE_LOWER" =>
       /\ gate_task.left > -GateLate - PHASE_TICK_MS
       /\ ~failed => since + gate_task.left <= Latest[step] + FaultKnownAfter

LEMMA NotLateInLine ==
  ASSUME NotLate, TypeOK, TypeOK', GateFollows, HandleTick, countdown_ms - PHASE_TICK_MS <= 0,
         ~gate_task.moving, ~gate_task'.moving,
         NEW s \in LeadStep, NEW ms \in Nat, EnterStep(s, ms),
         step \in LeadStep, Latest[s] = Latest[step] + ms + 99
  PROVE  NotLate'
<1>1. Due' = ms /\ since' = since /\ Latest' = Latest /\ step' = s
  BY DueNext DEF EnterStep, HandleTick, train, Latest
<1>2. since + Due <= Latest[step] /\ countdown_ms >= 1
  BY DEF NotLate, GateFollows
<1>3. Due \in Int /\ Due >= -99 /\ since \in Int /\ Latest[step] \in Int
  BY <1>2, DueNext, LatestOfSteps DEF TypeOK
<1>4. since + ms <= Latest[step] + ms + 99
  BY <1>2, <1>3, SMT
<1>. QED BY <1>1, <1>4 DEF NotLate, LeadStep

LEMMA NotLateTick ==
  ASSUME TypeOK, TypeOK', GateFollows, NotLate, HandleTick
  PROVE  NotLate'
<1>1. /\ since' = since /\ since \in Int /\ failed' = failed /\ tick /\ ~tick' /\ Latest' = Latest
  BY DEF HandleTick, train, TypeOK, Latest
<1>2. CASE RunsOn(countdown_ms - PHASE_TICK_MS)
  BY <1>1, <1>2, DueRunsOn DEF NotLate, FaultKnownAfter, NoFault
<1>3. CASE AdvanceInLine /\ countdown_ms - PHASE_TICK_MS <= 0
  <2>1. ~gate_task.moving /\ ~gate_task'.moving
    BY <1>3 DEF AdvanceInLine, TypeOK
  <2>2. CASE step = "RAIL_YELLOW" /\ EnterStep("RAIL_ALLRED", Scaled(VEHICLE_ALL_RED_S))
    BY <1>3, <2>1, <2>2, NotLateInLine, LatestOfSteps, StepSeconds DEF LeadStep
  <2>3. CASE step = "RAIL_ALLRED" /\ EnterStep("RAIL_PREARRIVAL", Scaled(RAIL_PREARRIVAL_QUIET_S))
    BY <1>3, <2>1, <2>3, NotLateInLine, LatestOfSteps, StepSeconds DEF LeadStep
  <2>4. CASE step = "RAIL_PREARRIVAL" /\ EnterStep("RAIL_WARN", Scaled(RAIL_WARNING_LEAD_S))
    BY <1>3, <2>1, <2>4, NotLateInLine, LatestOfSteps, StepSeconds DEF LeadStep
  <2>5. CASE step' \in {"RAIL_POST_HOLD", "PED_CLEARANCE"}
    BY <2>5 DEF NotLate, LeadStep
  <2>. QED BY <1>3, <2>2, <2>3, <2>4, <2>5 DEF AdvanceInLine, EnterStep
<1>4. CASE AdvanceToLower /\ countdown_ms - PHASE_TICK_MS <= 0
  <2>1. /\ step \in {"RAIL_WARN", "RAIL_GATE_FAULT"} /\ step' = "RAIL_GATE_LOWER"
        /\ ~gate_task.moving
    BY <1>4 DEF AdvanceToLower, EnterStep, GateCommand
  <2>2. PICK fails \in BOOLEAN : GateCommand(TRUE, fails)
    BY <1>4 DEF AdvanceToLower
  <2>3. /\ gate_task'.left = Scaled(IF fails THEN GATE_MOVE_TIMEOUT_S + 1 ELSE RAIL_GATE_LOWER_S)
        /\ gate_task'.moving /\ gate_task'.fails = fails
    BY <2>2 DEF GateCommand
  <2>4. gate_task'.left > -GateLate - PHASE_TICK_MS
    BY <2>3, StepSeconds, TimingAssumption, SMT DEF PHASE_TICK_MS
  <2>5. ASSUME ~failed'
        PROVE  since' + gate_task'.left <= Latest["RAIL_GATE_LOWER"] + FaultKnownAfter'
    <3>1. step = "RAIL_WARN" /\ countdown_ms >= 1 /\ since + Due <= Latest["RAIL_WARN"]
      BY <1>1, <2>1, <2>5 DEF GateFollows, NotLate, LeadStep
    <3>2. Due \in Int /\ Due >= -99
      BY <1>1, <2>1, <3>1, DueOfStep, SMT DEF TypeOK
    <3>3. FaultKnownAfter' = gate_task'.left - Scaled(RAIL_GATE_LOWER_S)
      BY <2>3, <2>5, StepSeconds, SMT DEF FaultKnownAfter, NoFault
    <3>4. Latest["RAIL_WARN"] \in Int /\ gate_task'.left \in Int
      BY LatestOfSteps DEF LeadStep, TypeOK
    <3>. QED BY <1>1, <3>1, <3>2, <3>3, <3>4, LatestOfSteps, StepSeconds, SMT
  <2>. QED BY <1>1, <2>1, <2>4, <2>5 DEF NotLate, LeadStep
<1>5. CASE AdvanceToRaise
  BY <1>5 DEF AdvanceToRaise, EnterStep, NotLate, LeadStep
<1>6. CASE AdvanceRearm
  <2>1. step' = step /\ gate_task' = gate_task /\ step \notin LeadStep
    BY <1>6 DEF AdvanceRearm, EnterStep, LeadStep
  <2>. QED BY <1>1, <2>1 DEF NotLate, FaultKnownAfter, NoFault
<1>7. CASE AdvanceToRoad \/ RoadGoesOn
  BY <1>7 DEF AdvanceToRoad, RoadGoesOn, EnterStep, NotLate, LeadStep
<1>. QED BY <1>2, <1>3, <1>4, <1>5, <1>6, <1>7 DEF HandleTick

LEMMA NotLateStep ==
  ASSUME TypeOK, TypeOK', GateFollows, TrainTime, NotLate, [Next]_vars
  PROVE  NotLate'
<1>0. since \in Int /\ Latest' = Latest
  BY DEF TypeOK, Latest
<1>1. CASE HandleTick
  BY <1>1, NotLateTick
<1>2. CASE Locks \/ FailsToLock \/ Opens \/ PedestrianBeginWalk
  <2>1. step' \notin LeadStep /\ step' # "RAIL_GATE_LOWER"
    BY <1>2 DEF Locks, FailsToLock, Opens, PedestrianBeginWalk, EnterStep, LeadStep
  <2>. QED BY <2>1 DEF NotLate
<1>3. CASE TrainApproaches
  <2>1. /\ step' = "RAIL_YELLOW" /\ countdown_ms' = Scaled(VEHICLE_YELLOW_S) /\ since' = 0
        /\ ~gate_task'.moving
    BY <1>3 DEF TrainApproaches, EnterStep, TypeOK, RailStep
  <2>2. Due' = IF tick' THEN Scaled(VEHICLE_YELLOW_S) - 100 ELSE Scaled(VEHICLE_YELLOW_S)
    BY <2>1 DEF Due, PHASE_TICK_MS
  <2>3. 0 + Due' <= Scaled(VEHICLE_YELLOW_S)
    BY <2>2, StepSeconds, SMT
  <2>. QED BY <1>0, <2>1, <2>3, LatestOfSteps DEF NotLate
<1>4. CASE TrainClears
  <2>1. /\ UNCHANGED <<since, step, tick, gate_task, failed>>
        /\ step # "RAIL_OCCUPIED" => countdown_ms' = countdown_ms
    BY <1>4 DEF TrainClears
  <2>2. step # "RAIL_OCCUPIED" => Due' = Due
    BY <2>1 DEF Due
  <2>. QED BY <1>0, <2>1, <2>2 DEF NotLate, LeadStep, FaultKnownAfter, NoFault
<1>5. CASE TrainGone
  BY <1>5 DEF TrainGone, NotLate, RailStep, LeadStep
<1>6. CASE TimePasses
  <2>1. /\ Due \in Int /\ Due' = Due - 100 /\ UNCHANGED <<step, failed>>
        /\ FaultKnownAfter' = FaultKnownAfter
    BY <1>6, DuePasses DEF FaultKnownAfter, NoFault
  <2>2. since' \in Int /\ since' <= since + 100
    BY <1>0, <1>6, SMT DEF TimePasses, PHASE_TICK_MS
  <2>3. ASSUME step \in LeadStep PROVE since' + Due' <= Latest[step]
    <3>1. since + Due <= Latest[step] /\ Latest[step] \in Int
      BY <2>3, LatestOfSteps DEF NotLate
    <3>. QED BY <1>0, <2>1, <2>2, <3>1, SMT
  <2>4. ASSUME step = "RAIL_GATE_LOWER"
        PROVE  /\ gate_task'.left > -GateLate - PHASE_TICK_MS
               /\ ~failed => since' + gate_task'.left <= Latest[step] + FaultKnownAfter
    <3>1. gate_task.left > -GateLate /\ gate_task'.left = gate_task.left - 100
      BY <1>6, <2>4 DEF TimePasses, TypeOK, PHASE_TICK_MS
    <3>2. ~failed => since + gate_task.left <= Latest[step] + FaultKnownAfter
      BY <2>4 DEF NotLate
    <3>3. gate_task.left \in Int /\ Latest[step] \in Int /\ FaultKnownAfter \in Int
      BY <2>4, LatestOfSteps, StepSeconds, SMT DEF TypeOK, FaultKnownAfter
    <3>. QED BY <1>0, <2>2, <3>1, <3>2, <3>3, TimingAssumption, SMT DEF PHASE_TICK_MS
  <2>. QED BY <1>0, <2>1, <2>3, <2>4 DEF NotLate
<1>7. CASE OverrideRefused \/ UNCHANGED vars
  <2>1. UNCHANGED <<step, since, failed, countdown_ms, tick, gate_task>>
    BY <1>7 DEF OverrideRefused, vars, train
  <2>. QED BY <1>0, <2>1 DEF NotLate, Due, FaultKnownAfter, NoFault
<1>. QED BY <1>1, <1>2, <1>3, <1>4, <1>5, <1>6, <1>7 DEF Next

(* In a closure without a fault the gate has been locked as long as the    *)
(* train is over its latest lock, and in the end as long as it takes.      *)
LockedFor ==
  NoFault =>
    /\ step \in Down => since - locked <= Latest["RAIL_GATE_LOWER"] + GateLate + PHASE_TICK_MS - 1
    /\ step = "RAIL_OCCUPIED" =>
         cleared \/ locked + Due >= Scaled(RAIL_TRAIN_OCCUPY_S) - PHASE_TICK_MS
    /\ step = "RAIL_POST_HOLD" => locked + Due >= Scaled(RAIL_TRAIN_OCCUPY_S)
    /\ step = "RAIL_GATE_RAISE" => locked >= Scaled(RAIL_TRAIN_OCCUPY_S)

LEMMA LockedForTick ==
  ASSUME GateLate <= 400, TypeOK, TypeOK', GateFollows, TrainTime, LockedFor, NoFault, HandleTick
  PROVE  LockedFor'
<1>1. /\ since' = since /\ since \in Int /\ tick /\ ~tick' /\ cleared' = cleared
      /\ locked' = locked /\ locked \in Nat /\ Latest' = Latest /\ countdown_ms \in Nat
  BY DEF HandleTick, train, TypeOK, Latest
<1>2. CASE RunsOn(countdown_ms - PHASE_TICK_MS)
  <2>1. Due' = Due /\ UNCHANGED <<step, since, cleared, locked>>
    BY <1>2, DueRunsOn
  <2>. QED BY <1>1, <2>1 DEF LockedFor
<1>3. CASE /\ step = "RAIL_OCCUPIED" /\ countdown_ms - PHASE_TICK_MS <= 0 /\ AdvanceInLine
  <2>1. /\ EnterStep("RAIL_POST_HOLD", Scaled(RAIL_POST_TRAIN_HOLD_S))
        /\ step' = "RAIL_POST_HOLD" /\ ~gate_task.moving /\ ~gate_task'.moving
    BY <1>3 DEF AdvanceInLine, EnterStep, TypeOK
  <2>2. Due \in Int /\ Due <= 0 /\ Due' = Scaled(RAIL_POST_TRAIN_HOLD_S)
    BY <1>3, <2>1, DueNext DEF EnterStep
  <2>3. since - locked <= Latest["RAIL_GATE_LOWER"] + GateLate + 99
    <3>1. since - locked <= Latest["RAIL_GATE_LOWER"] + GateLate + PHASE_TICK_MS - 1
      BY <1>3 DEF LockedFor, Down
    <3>. QED BY <1>1, <3>1, LatestOfSteps, TimingAssumption, SMT DEF PHASE_TICK_MS
  <2>4. locked + Due' >= Scaled(RAIL_TRAIN_OCCUPY_S)
    <3>1. CASE cleared
      <4>1. since >= ClearAt
        BY <3>1 DEF TrainTime
      <4>2. Latest["RAIL_GATE_LOWER"] \in Int
        BY LatestOfSteps
      <4>. QED BY <1>1, <2>2, <2>3, <4>1, <4>2, TimesFit, StepSeconds, TimingAssumption, SMT
    <3>2. CASE ~cleared
      <4>1. locked + Due >= Scaled(RAIL_TRAIN_OCCUPY_S) - 100
        BY <1>3, <3>2 DEF LockedFor, PHASE_TICK_MS
      <4>. QED BY <1>1, <2>2, <4>1, TimesFit, StepSeconds, SMT
    <3>. QED BY <3>1, <3>2
  <2>. QED BY <1>1, <1>3, <2>1, <2>4 DEF LockedFor, Down
<1>4. CASE AdvanceToRaise /\ countdown_ms - PHASE_TICK_MS <= 0
  <2>1. step = "RAIL_POST_HOLD" /\ step' = "RAIL_GATE_RAISE" /\ ~gate_task.moving
    BY <1>4 DEF AdvanceToRaise, GateCommand, EnterStep
  <2>2. Due \in Int /\ Due <= 0
    BY <1>1, <1>4, <2>1, DueOfStep DEF PHASE_TICK_MS
  <2>3. locked >= Scaled(RAIL_TRAIN_OCCUPY_S)
    <3>1. locked + Due >= Scaled(RAIL_TRAIN_OCCUPY_S)
      BY <2>1 DEF LockedFor
    <3>. QED BY <1>1, <2>2, <3>1, StepSeconds, SMT
  <2>. QED BY <1>1, <2>1, <2>3 DEF LockedFor, Down
<1>5. CASE AdvanceRearm
  <2>1. step' = step /\ step \in {"RAIL_GATE_LOWER", "RAIL_GATE_RAISE"}
    BY <1>5 DEF AdvanceRearm, EnterStep
  <2>. QED BY <1>1, <2>1 DEF LockedFor, Down
<1>6. CASE step' \notin Down \cup {"RAIL_GATE_RAISE"}
  BY <1>6 DEF LockedFor, Down
<1>7. CASE AdvanceInLine /\ step # "RAIL_OCCUPIED"
  BY <1>6, <1>7 DEF AdvanceInLine, EnterStep, Down
<1>8. CASE AdvanceToLower \/ AdvanceToRoad \/ RoadGoesOn
  BY <1>6, <1>8 DEF AdvanceToLower, AdvanceToRoad, RoadGoesOn, EnterStep, Down
<1>. QED BY <1>2, <1>3, <1>4, <1>5, <1>7, <1>8 DEF HandleTick

LEMMA LockedForStep ==
  ASSUME GateLate <= 400, TypeOK, TypeOK', GateFollows, TrainTime, NotLate, LockedFor, [Next]_vars
  PROVE  LockedFor'
<1>. SUFFICES ASSUME NoFault' PROVE LockedFor'
  BY DEF LockedFor
<1>0. since \in Int /\ locked \in Nat /\ Latest' = Latest /\ Latest["RAIL_GATE_LOWER"] \in Int
  BY LatestOfSteps DEF TypeOK, Latest
<1>1. CASE Opens
  BY <1>1 DEF Opens, EnterStep, LockedFor, Down
<1>. SUFFICES ASSUME ~Opens PROVE LockedFor'
  BY <1>1
<1>2. NoFault
  BY FaultStays
<1>3. CASE HandleTick
  BY <1>2, <1>3, LockedForTick
<1>4. CASE Locks
  <2>1. /\ step = "RAIL_GATE_LOWER" /\ cleared' = cleared /\ since' = since /\ locked' = locked
        /\ EnterStep("RAIL_OCCUPIED", Scaled(RAIL_TRAIN_OCCUPY_S)) /\ GateReports
    BY <1>4 DEF Locks, GateReports, GateFollows, train
  <2>2. /\ Due' \in Int /\ Due' >= Scaled(RAIL_TRAIN_OCCUPY_S) - 100
        /\ step' = "RAIL_OCCUPIED"
    BY <2>1, DueReports, StepSeconds DEF RailStep
  <2>3. locked = 0 /\ ~failed /\ FaultKnownAfter = 0
    BY <1>2, <2>1 DEF GateFollows, Down, NoFault, FaultKnownAfter
  <2>4. /\ gate_task.left > -GateLate - 100 /\ since + gate_task.left <= Latest["RAIL_GATE_LOWER"] + 0
        /\ gate_task.left \in Int
    BY <2>1, <2>3 DEF NotLate, PHASE_TICK_MS, TypeOK
  <2>5. since - locked <= Latest["RAIL_GATE_LOWER"] + GateLate + PHASE_TICK_MS - 1
    BY <1>0, <2>3, <2>4, TimingAssumption, SMT DEF PHASE_TICK_MS
  <2>6. locked + Due' >= Scaled(RAIL_TRAIN_OCCUPY_S) - PHASE_TICK_MS
    BY <1>0, <2>2, <2>3, StepSeconds, SMT DEF PHASE_TICK_MS
  <2>. QED BY <1>0, <2>1, <2>2, <2>5, <2>6 DEF LockedFor
<1>5. CASE FailsToLock \/ PedestrianBeginWalk \/ TrainApproaches
  BY <1>5 DEF FailsToLock, PedestrianBeginWalk, TrainApproaches, EnterStep, LockedFor, Down
<1>6. CASE TrainClears
  <2>1. /\ UNCHANGED <<since, step, tick, gate_task, locked>> /\ cleared'
        /\ step # "RAIL_OCCUPIED" => countdown_ms' = countdown_ms
    BY <1>6 DEF TrainClears
  <2>2. step # "RAIL_OCCUPIED" => Due' = Due
    BY <2>1 DEF Due
  <2>. QED BY <1>0, <1>2, <2>1, <2>2 DEF LockedFor
<1>7. CASE TrainGone
  BY <1>7 DEF TrainGone, LockedFor, RailStep, Down
<1>8. CASE TimePasses
  <2>1. Due \in Int /\ Due' = Due - 100 /\ UNCHANGED <<step, cleared>>
    BY <1>8, DuePasses
  <2>2. since' \in Int /\ since' <= since + 100
    BY <1>0, <1>8, SMT DEF TimePasses, PHASE_TICK_MS
  <2>3. CASE step \in Down
    <3>1. locked' = locked + 100
      BY <1>8, <2>3 DEF TimePasses, GateFollows, PHASE_TICK_MS
    <3>2. since' - locked' <= Latest["RAIL_GATE_LOWER"] + GateLate + PHASE_TICK_MS - 1
      <4>1. since - locked <= Latest["RAIL_GATE_LOWER"] + GateLate + PHASE_TICK_MS - 1
        BY <1>2, <2>3 DEF LockedFor
      <4>. QED BY <1>0, <2>2, <3>1, <4>1, TimingAssumption, SMT DEF PHASE_TICK_MS
    <3>3. locked' + Due' = locked + Due
      BY <1>0, <2>1, <3>1, SMT
    <3>. QED BY <1>0, <1>2, <2>1, <2>3, <3>2, <3>3 DEF LockedFor, Down
  <2>4. CASE step \notin Down
    <3>1. locked' = locked
      BY <1>8, <2>4 DEF TimePasses, GateFollows
    <3>. QED BY <1>2, <2>1, <2>4, <3>1 DEF LockedFor, Down
  <2>. QED BY <2>3, <2>4
<1>9. CASE OverrideRefused \/ UNCHANGED vars
  <2>1. UNCHANGED <<step, since, cleared, locked, countdown_ms, tick, gate_task>>
    BY <1>9 DEF OverrideRefused, vars, train
  <2>. QED BY <1>0, <1>2, <2>1 DEF LockedFor, Due
<1>. QED BY <1>1, <1>3, <1>4, <1>5, <1>6, <1>7, <1>8, <1>9 DEF Next

ClosureInv == TrainTime /\ GateFollows /\ NotSoon /\ NotLate

(* The course of a closure in time, however late the gate reports and      *)
(* however often it fails.                                                 *)
THEOREM ClosureInvariant == Spec => []ClosureInv
<1>1. Init => ClosureInv
  BY TrainTimeInit DEF ClosureInv, Init, NotSoon, NotLate, Soonest, LeadStep
<1>2. TypeOK /\ TypeOK' /\ ClosureInv /\ [Next]_vars => ClosureInv'
  BY TrainTimeStep, GateFollowsStep, NotSoonStep, NotLateStep DEF ClosureInv
<1>. QED BY <1>1, <1>2, TimingTypes, PTL DEF Spec

LEMMA LateInLead ==
  ASSUME TypeOK, ClosureInv, step \in LeadStep
  PROVE  since <= SimMs(RAIL_PROTECT_LEAD_S) + Slack
<1>1. ~gate_task.moving /\ countdown_ms >= 1
  BY DEF LeadStep, TypeOK, ClosureInv, GateFollows
<1>2. Due \in Int /\ Due >= -99
  BY <1>1, DueOfStep, SMT DEF TypeOK
<1>3. since + Due <= Latest[step] /\ Latest[step] \in Int
  BY LatestOfSteps DEF ClosureInv, NotLate
<1>4. Latest[step] <= Latest["RAIL_WARN"] /\ Latest["RAIL_WARN"] \in Int
      /\ Latest["RAIL_GATE_LOWER"] \in Int
  BY LatestOfSteps, StepSeconds, SMT DEF LeadStep
<1>. QED BY <1>2, <1>3, <1>4, TimesFit, TimingAssumption, SMT DEF Slack, PHASE_TICK_MS, TypeOK

(* TrainMeetsLockedGate, at every time scale the build admits: while a     *)
(* train is on the crossing the gate is locked or the train has a red      *)
(* light, whichever attempts failed and however late the gate reports,     *)
(* once the lead, a tick for each of its steps, the gate's lateness and    *)
(* what a failure takes longer to be known are over.                       *)
THEOREM TrainIsProtected == Spec => []TrainMeetsLockedGate
<1>1. TypeOK /\ ClosureInv => TrainMeetsLockedGate
  <2> SUFFICES ASSUME TypeOK, ClosureInv, TrainOnCrossing
               PROVE  gate_state = "LOCKED" \/ train_signal = "RED"
    BY DEF TrainMeetsLockedGate
  <2>1. /\ since > SimMs(RAIL_PROTECT_LEAD_S) + Slack + FaultKnownAfter /\ ~cleared
        /\ TrainTime /\ GateFollows /\ NotLate
    BY DEF TrainOnCrossing, ClosureInv
  <2>2. /\ since \in Int /\ GateLate \in Nat /\ FaultKnownAfter \in Nat
        /\ SimMs(RAIL_PROTECT_LEAD_S) \in Nat /\ Slack = 500 + GateLate
    <3>1. FaultKnownAfter \in Nat
      BY TimesFit, StepSeconds, SMT DEF FaultKnownAfter
    <3>. QED BY <3>1, TimesFit, TimingAssumption, SMT DEF TypeOK, Slack, PHASE_TICK_MS
  <2>3. since > SimMs(RAIL_PROTECT_LEAD_S) + Slack /\ since > 0
    BY <2>1, <2>2, SMT
  <2>4. step \in RailStep
    BY <2>1, <2>2, <2>3, SMT DEF TrainTime
  <2>5. CASE step \in LeadStep
    <3>1. since <= SimMs(RAIL_PROTECT_LEAD_S) + Slack
      BY <2>5, LateInLead
    <3>. QED BY <2>2, <2>3, <3>1, SMT
  <2>6. CASE step = "RAIL_GATE_LOWER"
    <3>1. CASE failed
      BY <2>1, <2>6, <3>1 DEF GateFollows
    <3>2. CASE ~failed
      <4>1. /\ gate_task.left > -GateLate - 100 /\ gate_task.left \in Int
            /\ since + gate_task.left <= Latest["RAIL_GATE_LOWER"] + FaultKnownAfter
        BY <2>1, <2>6, <3>2 DEF NotLate, PHASE_TICK_MS, TypeOK
      <4>2. Latest["RAIL_GATE_LOWER"] \in Int
        BY LatestOfSteps
      <4>. QED BY <2>1, <2>2, <4>1, <4>2, TimesFit, SMT
    <3>. QED BY <3>1, <3>2
  <2>7. CASE step \in {"RAIL_GATE_FAULT", "RAIL_GATE_RAISE"} \cup Down
    BY <2>1, <2>7 DEF GateFollows, TrainTime
  <2>. QED BY <2>4, <2>5, <2>6, <2>7 DEF RailStep, LeadStep, Down
<1>. QED BY <1>1, ClosureInvariant, TimingTypes, PTL

(* GateHeldUntilClear, at every time scale the build admits: the steps add *)
(* up to more than the train's time, so that the gate is not raised before *)
(* the clear, although each may be short of a tick.                        *)
THEOREM GateIsHeld == Spec => []GateHeldUntilClear
<1>1. ClosureInv => GateHeldUntilClear
  BY DEF ClosureInv, GateFollows, TrainTime, GateHeldUntilClear
<1>. QED BY <1>1, ClosureInvariant, PTL

(* TrainGetsItsTime, at every time scale the build admits: also when the   *)
(* clear cuts the wait for the train short, the gate has been down for     *)
(* 25 s when it is raised, unless an attempt to close it failed.           *)
THEOREM GateIsDownLongEnough ==
  ASSUME GateLate <= 400
  PROVE  Spec => []TrainGetsItsTime
<1>1. Init => LockedFor
  BY DEF Init, LockedFor, Down
<1>2. TypeOK /\ TypeOK' /\ ClosureInv /\ LockedFor /\ [Next]_vars => LockedFor'
  BY LockedForStep DEF ClosureInv
<1>3. ClosureInv /\ LockedFor => TrainGetsItsTime
  BY DEF ClosureInv, GateFollows, LockedFor, TrainGetsItsTime
<1>. QED BY <1>1, <1>2, <1>3, TimingTypes, ClosureInvariant, PTL DEF Spec
================================================================================
