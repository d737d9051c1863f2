----------------------------- MODULE CommandChannel ----------------------------
(***************************************************************************)
(* What the CC promises of its commands, with no queue, connections,       *)
(* resends or timeouts: a command takes effect at most once, and never     *)
(* after a newer one of its kind; the console is told its outcome once,    *)
(* and one it is told was dropped never takes effect.                      *)
(***************************************************************************)
EXTENDS Naturals

CONSTANTS Id, Kind, MaxSeq

VARIABLES
  next,      \* the number of the next command
  outcome,   \* what the console was told of each
  applied,   \* the commands that took effect
  latest     \* per intersection and kind: the last that did since it started

state == <<next, outcome, applied, latest>>

Init ==
  /\ next = 1
  /\ outcome = [s \in 1..MaxSeq |-> "open"]
  /\ applied = {}
  /\ latest = [i \in Id |-> [k \in Kind |-> 0]]

Settle(s, how) ==
  /\ outcome[s] = "open"
  /\ outcome' = [outcome EXCEPT ![s] = how]

Drop(s) == s \notin applied /\ Settle(s, "dropped")

(* A new command may push out an older one, or itself find no place. *)
Give ==
  /\ next <= MaxSeq
  /\ next' = next + 1
  /\ UNCHANGED outcome \/ \E s \in 1..next : Drop(s)
  /\ UNCHANGED <<applied, latest>>

Tell(s) ==
  /\ s < next
  /\ \/ s \in applied /\ Settle(s, "accepted")
     \/ Settle(s, "unknown")
     \/ Drop(s)
  /\ UNCHANGED <<next, applied, latest>>

TakeEffect(s, i, k) ==
  /\ s < next /\ s \notin applied
  /\ outcome[s] \in {"open", "unknown"}
  /\ latest[i][k] < s
  /\ applied' = applied \cup {s}
  /\ latest' = [latest EXCEPT ![i][k] = s]
  /\ UNCHANGED <<next, outcome>>

Stop(i) ==
  /\ latest' = [latest EXCEPT ![i] = [k \in Kind |-> 0]]
  /\ UNCHANGED <<next, outcome, applied>>

Next == \/ Give
        \/ \E s \in 1..MaxSeq : Tell(s)
        \/ \E s \in 1..MaxSeq, i \in Id, k \in Kind : TakeEffect(s, i, k)
        \/ \E i \in Id : Stop(i)

Spec == Init /\ [][Next]_state
================================================================================
