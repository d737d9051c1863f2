----------------------------- MODULE StateReporting ----------------------------
(***************************************************************************)
(* What the status path promises (status_report.c, "the CC gets one        *)
(* snapshot of the current state" and "each distinct fault is kept until   *)
(* delivered"), with no tasks, queues, connections or retries: the CC      *)
(* learns states in the order in which they were true, any number of them  *)
(* skipped, and alarms only of faults that were raised.                    *)
(***************************************************************************)
EXTENDS Naturals

CONSTANT Fault

VARIABLES
  now,      \* the LC's state
  told,     \* the last state the controller notified
  known,    \* the last state the CC was sent
  raised,   \* per fault: the state in which it was last raised, 0 never
  alarmed   \* per fault: the state its last alarm showed the CC, 0 none

state == <<now, told, known, raised, alarmed>>

Init ==
  /\ now = 1 /\ told = 0 /\ known = 0
  /\ raised = [f \in Fault |-> 0]
  /\ alarmed = [f \in Fault |-> 0]

Change ==
  /\ now' = now + 1
  /\ UNCHANGED <<told, known, raised, alarmed>>

Tell ==
  /\ told' = now
  /\ \/ UNCHANGED raised
     \/ \E f \in Fault : raised' = [raised EXCEPT ![f] = now]
  /\ UNCHANGED <<now, known, alarmed>>

Learn ==
  /\ known' \in known..now
  /\ UNCHANGED <<now, told, raised, alarmed>>

LearnFault(f) ==
  /\ 0 < raised[f]
  /\ known' \in known..now
  /\ alarmed' = [alarmed EXCEPT ![f] = known']
  /\ UNCHANGED <<now, told, raised>>

Next == Change \/ Tell \/ Learn \/ \E f \in Fault : LearnFault(f)

Spec == Init /\ [][Next]_state
================================================================================
