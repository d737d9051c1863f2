---------------------------- MODULE Crossing_proofs ----------------------------
(* What Crossing itself guarantees, so whatever implements it does too. *)
EXTENDS Crossing, TLAPS

TypeOK ==
  /\ flow \subseteq Road /\ closed \in BOOLEAN
  /\ barrier \in {"OPEN", "LOWERING", "LOCKED", "RAISING", "TIMEOUT_FAULT"}
  /\ train \in {"PROCEED", "STOP"}

(* A gate that is not up finds the roads closed and empty, and a train is  *)
(* stopped only between a failed closure and a lock.                       *)
THEOREM EmptyUnderGate == Spec => [](TypeOK /\ NobodyUnderGate)
<1>1. Init => TypeOK /\ NobodyUnderGate
  BY DEF Init, TypeOK, NobodyUnderGate, Road
<1>2. TypeOK /\ NobodyUnderGate /\ [Next]_state => TypeOK' /\ NobodyUnderGate'
  <2> SUFFICES ASSUME TypeOK, NobodyUnderGate, [Next]_state
               PROVE  TypeOK' /\ NobodyUnderGate'
    OBVIOUS
  <2> USE DEF TypeOK, NobodyUnderGate, Road
  <2>1. CASE Serve
    BY <2>1 DEF Serve
  <2>2. CASE Close
    BY <2>2 DEF Close
  <2>3. CASE Clear
    BY <2>3 DEF Clear
  <2>4. CASE Lower
    BY <2>4 DEF Lower
  <2>5. CASE Lock
    BY <2>5 DEF Lock
  <2>6. CASE FailToLock
    BY <2>6 DEF FailToLock
  <2>7. CASE Raise
    BY <2>7 DEF Raise
  <2>8. CASE Reopen
    BY <2>8 DEF Reopen
  <2>9. CASE UNCHANGED state
    BY <2>9 DEF state
  <2> QED BY <2>1, <2>2, <2>3, <2>4, <2>5, <2>6, <2>7, <2>8, <2>9 DEF Next
<1> QED BY <1>1, <1>2, PTL DEF Spec
================================================================================
