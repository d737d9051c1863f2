----------------------------- MODULE MCStatusReport ----------------------------
(* A small instance of StatusReportProps for TLC: the only fault the code  *)
(* raises is the gate's (railway_protection.c:161).                        *)
EXTENDS StatusReportProps

CONSTANT gate

(* begin_*(), advance_*(): write the state, then notify. *)
Reported == <<"write", "notify">>
(* enter_gate_fault(): write the fault, send the alarm. *)
GateFails == <<"write", gate>>

MCChanges == {Reported, GateFails}
================================================================================
