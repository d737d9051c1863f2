---------------------------- MODULE MCCommandPath ------------------------------
(* Small instances of CommandPathProps for TLC. *)
EXTENDS CommandPathProps
================================================================================
