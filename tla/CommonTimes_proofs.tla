-------------------------- MODULE CommonTimes_proofs ---------------------------
(* What the proofs about times use of the scaled durations. *)
EXTENDS CommonTimes, TLAPS

(* The build's own check leaves five time scales. *)
LEMMA Factors == TIME_SCALE_FACTOR \in 1..5
<1> DEFINE n == TIME_SCALE_FACTOR
           q == 2000 \div n
<1>1. n \in Nat /\ n > 0 /\ q >= 400
  BY ScaleAssumption, SMT DEF VEHICLE_ALL_RED_S, PHASE_TICK_MS
<1>2. CASE n >= 6
  <2>1. q \in Int /\ q * n <= 2000
    BY <1>1, SMT
  <2>2. q * n >= 400 * n
    BY <1>1, <2>1, SMT
  <2>. QED BY <1>2, <2>1, <2>2, <1>1, SMT
<1>3. CASE n <= 5
  BY <1>1, <1>3, SMT
<1>. QED BY <1>1, <1>2, <1>3, SMT

(* The scaled durations are whole milliseconds, and the gate rises a     *)
(* second before its time.                                               *)
LEMMA Durations ==
  /\ \A s \in Nat : Scaled(s) \in Nat
  /\ Scaled(GATE_RAISE_S) + 1000 <= Scaled(RAIL_GATE_LOWER_S)
  /\ SCALE_MS(GATE_WAIT_REARM_MS * TIME_SCALE_FACTOR) \in Nat
<1>1. TIME_SCALE_FACTOR \in {1, 2, 3, 4, 5}
  BY Factors, SMT
<1>. QED BY <1>1, SMT DEF Scaled, SCALE_MS, GATE_RAISE_S, RAIL_GATE_LOWER_S, GATE_WAIT_REARM_MS
================================================================================
