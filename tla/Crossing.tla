------------------------------- MODULE Crossing --------------------------------
(***************************************************************************)
(* What a local controller promises its surroundings, with no steps, no    *)
(* timers and no tasks: which roads are released, whether the railway has  *)
(* closed the intersection, where the boom gate is and what the train is   *)
(* told (railway_protection.h, README "railway protection takes priority   *)
(* over everything else").                                                 *)
(***************************************************************************)
Road == {"NS", "EW"}

VARIABLES
  flow,      \* the roads whose vehicle head is not red
  closed,    \* railway protection is active
  barrier,   \* the boom gate
  train      \* "PROCEED", or "STOP" after a gate fault

state == <<flow, closed, barrier, train>>

Init ==
  /\ flow = {"NS"}
  /\ closed = FALSE
  /\ barrier = "OPEN"
  /\ train = "PROCEED"

(* Open to the road: one road at a time, or none. *)
Serve ==
  /\ ~closed
  /\ flow' \in {{}} \cup {{r} : r \in Road}
  /\ UNCHANGED <<closed, barrier, train>>

(* A train preempts whatever runs; both roads clear the intersection. *)
Close ==
  /\ ~closed
  /\ closed' = TRUE
  /\ flow' = Road
  /\ UNCHANGED <<barrier, train>>

Clear ==
  /\ closed /\ barrier = "OPEN"
  /\ flow' = {}
  /\ UNCHANGED <<closed, barrier, train>>

(* The gate only starts down once nobody is released, and again after a    *)
(* failed attempt.                                                         *)
Lower ==
  /\ closed /\ flow = {}
  /\ barrier \in {"OPEN", "TIMEOUT_FAULT"}
  /\ barrier' = "LOWERING"
  /\ UNCHANGED <<flow, closed, train>>

Lock ==
  /\ barrier = "LOWERING"
  /\ barrier' = "LOCKED"
  /\ train' = "PROCEED"
  /\ UNCHANGED <<flow, closed>>

FailToLock ==
  /\ barrier = "LOWERING"
  /\ barrier' = "TIMEOUT_FAULT"
  /\ train' = "STOP"
  /\ UNCHANGED <<flow, closed>>

(* Only a locked gate is raised: a failed closure is never given up. *)
Raise ==
  /\ barrier = "LOCKED"
  /\ barrier' = "RAISING"
  /\ UNCHANGED <<flow, closed, train>>

Reopen ==
  /\ barrier = "RAISING"
  /\ barrier' = "OPEN"
  /\ closed' = FALSE
  /\ flow' = {"NS"}
  /\ UNCHANGED train

Next == Serve \/ Close \/ Clear \/ Lower \/ Lock \/ FailToLock \/ Raise \/ Reopen

Spec == Init /\ [][Next]_state

------------------------------------------------------------------------------
(* Nobody is released while the gate is anywhere but up, and a stopped     *)
(* train stands before a crossing that is closed to the road.              *)
NobodyUnderGate ==
  /\ barrier # "OPEN" => closed /\ flow = {}
  /\ train = "STOP" => closed /\ barrier \in {"LOWERING", "TIMEOUT_FAULT"}
================================================================================
