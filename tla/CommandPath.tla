----------------------------- MODULE CommandPath ------------------------------
(***************************************************************************)
(* The way of an operator's command from the CC's console to an LC         *)
(* (central_controller.c): the console queues it, command_worker() sends   *)
(* it with a timeout and queues it again when the LC answers WAIT.  An LC  *)
(* is its command server alone, which accepts, or for an override may ask  *)
(* to wait (GateAndServer has the reasons), and which may stop and start   *)
(* again.  outcome and applied record what the console was told of a       *)
(* command and what an LC accepted; no step reads them.                    *)
(***************************************************************************)
EXTENDS Integers, FiniteSets

CONSTANTS
  Id,              \* intersections an operator can name
  LocalId,         \* those that run on the CC's own node
  CmdQueueLen,     \* CMD_QUEUE_LEN
  CmdMaxAttempts,  \* CMD_MAX_ATTEMPTS
  MaxTrackedLc,    \* MAX_TRACKED_LC
  MaxSeq,          \* bound: commands the operator gives
  MaxStarts        \* bound: times an LC is started

ASSUME PathAssumption ==
  /\ IsFiniteSet(Id) /\ LocalId \subseteq Id
  /\ CmdQueueLen \in Nat \ {0} /\ CmdMaxAttempts \in Nat \ {0}
  /\ MaxTrackedLc \in Nat \ {0} /\ MaxSeq \in Nat /\ MaxStarts \in Nat

VARIABLES
  g_seq_no,
  g_cmdq,                   \* the slots in use, each with its job
  worker, held,             \* command_worker(): how far it is, and the job it holds
  node_known,               \* what it read of link_seen before it opens a connection
  tracked, link_seen,       \* g_lc: the intersections with a record, those heard from
  override_coid,            \* 0, or the run of the LC the connection was opened to
  lc_up, lc_starts,         \* an LC runs; how often it was started
  inbox,                    \* the command an LC's server has received, if any
  latched,                  \* the last command of each kind the running LC accepted
  outcome, applied

records == <<tracked, link_seen>>
lcs     == <<lc_up, lc_starts, inbox, latched, applied>>
sender  == <<worker, held, node_known>>
vars    == <<g_seq_no, g_cmdq, sender, records, override_coid, lcs, outcome>>

Kind    == {"OVERRIDE", "MODE"}
Command == [kind : Kind, id : Id, seq : Nat]
Job     == [cmd : Command, attempts : 0..CmdMaxAttempts, wait : {"none", "running", "over"}]
Fresh(c) == [cmd |-> c, attempts |-> 0, wait |-> "none"]

Settle(s, how) == outcome' = [outcome EXCEPT ![s] = how]

Init ==
  /\ g_seq_no = 1
  /\ g_cmdq = <<>>
  /\ worker = "idle"
  /\ held = {}
  /\ node_known = FALSE
  /\ tracked = {}
  /\ link_seen = [i \in Id |-> FALSE]
  /\ override_coid = [i \in Id |-> 0]
  /\ lc_up = [i \in Id |-> FALSE]
  /\ lc_starts = [i \in Id |-> 0]
  /\ inbox = [i \in Id |-> {}]
  /\ latched = [i \in Id |-> [k \in Kind |-> 0]]
  /\ outcome = [s \in 1..MaxSeq |-> "open"]
  /\ applied = {}

------------------------------------------------------------------------------
(* The queue.  All of it is under g_cmdq_lock. *)

Lowest(S)   == {i \in S : \A j \in S : i <= j}
FreeSlots   == (1..CmdQueueLen) \ DOMAIN g_cmdq
Queued(c)   == {i \in DOMAIN g_cmdq : g_cmdq[i].cmd.kind = c.kind /\ g_cmdq[i].cmd.id = c.id}
Put(i, job) == g_cmdq' = [j \in DOMAIN g_cmdq \cup {i} |-> IF j = i THEN job ELSE g_cmdq[j]]
Remove(i)   == g_cmdq' = [j \in DOMAIN g_cmdq \ {i} |-> g_cmdq[j]]

(* Mutant: a new command does not replace a queued one. *)
EnqueueBeside(c) ==
  \/ /\ FreeSlots # {}
     /\ \E i \in Lowest(FreeSlots) : Put(i, Fresh(c))
     /\ UNCHANGED outcome
  \/ /\ FreeSlots = {}
     /\ Settle(c.seq, "queue full")
     /\ UNCHANGED g_cmdq

EnqueueCommand(c) ==
  \/ /\ Queued(c) # {}
     /\ \E i \in Lowest(Queued(c)) :
          Settle(g_cmdq[i].cmd.seq, "replaced") /\ Put(i, Fresh(c))
  \/ /\ Queued(c) = {} /\ FreeSlots # {}
     /\ \E i \in Lowest(FreeSlots) : Put(i, Fresh(c))
     /\ UNCHANGED outcome
  \/ /\ Queued(c) = {} /\ FreeSlots = {}
     /\ Settle(c.seq, "queue full")
     /\ UNCHANGED g_cmdq

RequeueCommand(job) ==
  \/ /\ Queued(job.cmd) # {}
     /\ Settle(job.cmd.seq, "outdated")
     /\ UNCHANGED g_cmdq
  \/ /\ Queued(job.cmd) = {} /\ FreeSlots # {}
     /\ \E i \in Lowest(FreeSlots) : Put(i, job)
     /\ UNCHANGED outcome
  \/ /\ Queued(job.cmd) = {} /\ FreeSlots = {}
     /\ Settle(job.cmd.seq, "queue full")
     /\ UNCHANGED g_cmdq

New == {i \in DOMAIN g_cmdq : g_cmdq[i].wait = "none"}

(* Mutant: only new commands are due. *)
DueFirstNew == IF New # {} THEN Lowest(New) ELSE {}

(* The job that is due first: new commands are due at 0, the first slot    *)
(* wins among them; the order of resends is the order of their waits.      *)
DueFirst == IF New # {} THEN Lowest(New)
            ELSE {i \in DOMAIN g_cmdq : g_cmdq[i].wait = "over"}

WaitElapses(i) ==
  /\ i \in DOMAIN g_cmdq
  /\ g_cmdq[i].wait = "running"
  /\ Put(i, [g_cmdq[i] EXCEPT !.wait = "over"])
  /\ UNCHANGED <<g_seq_no, sender, records, override_coid, lcs, outcome>>

------------------------------------------------------------------------------
(* operator_console_task(): do_override() and do_mode_switch() make a      *)
(* record for the intersection before they look at the rest of the line.   *)

CanTrack(id) == id \in tracked \/ Cardinality(tracked) < MaxTrackedLc

OperatorCommands(k, id) ==
  /\ g_seq_no <= MaxSeq
  /\ CanTrack(id)
  /\ tracked' = tracked \cup {id}
  /\ g_seq_no' = g_seq_no + 1
  /\ EnqueueCommand([kind |-> k, id |-> id, seq |-> g_seq_no])
  /\ UNCHANGED <<sender, link_seen, override_coid, lcs>>

(* An unknown override type or mode. *)
OperatorMistypes(id) ==
  /\ CanTrack(id)
  /\ tracked' = tracked \cup {id}
  /\ UNCHANGED <<g_seq_no, g_cmdq, sender, link_seen, override_coid, lcs, outcome>>

------------------------------------------------------------------------------
(* command_worker() *)

(* Mutant: the slot stays in use. *)
DequeueLeavesSlot(i) ==
  /\ worker = "idle"
  /\ i \in DueFirst
  /\ worker' = "connecting"
  /\ held' = {g_cmdq[i]}
  /\ UNCHANGED <<g_seq_no, g_cmdq, node_known, records, override_coid, lcs, outcome>>

Dequeue(i) ==
  /\ worker = "idle"
  /\ i \in DueFirst
  /\ worker' = "connecting"
  /\ held' = {g_cmdq[i]}
  /\ Remove(i)
  /\ UNCHANGED <<g_seq_no, node_known, records, override_coid, lcs, outcome>>

Sending(job) == [cmd |-> job.cmd, attempts |-> job.attempts + 1, wait |-> "none"]

UseConnection(job) ==
  /\ worker = "connecting"
  /\ override_coid[job.cmd.id] # 0
  /\ worker' = "sending"
  /\ held' = {Sending(job)}
  /\ UNCHANGED <<g_seq_no, g_cmdq, node_known, records, override_coid, lcs, outcome>>

(* The record is read under the lock and the name opened without it. *)
ReadRecord(job) ==
  /\ worker = "connecting"
  /\ override_coid[job.cmd.id] = 0
  /\ worker' = "opening"
  /\ node_known' = link_seen[job.cmd.id]
  /\ UNCHANGED <<g_seq_no, g_cmdq, held, records, override_coid, lcs, outcome>>

(* Without a node the name is looked for on the CC's own. *)
Reachable(id) == lc_up[id] /\ (id \in LocalId \/ node_known)

Open(job) ==
  /\ worker = "opening"
  /\ Reachable(job.cmd.id)
  /\ override_coid' = [override_coid EXCEPT ![job.cmd.id] = lc_starts[job.cmd.id]]
  /\ worker' = "sending"
  /\ held' = {Sending(job)}
  /\ node_known' = FALSE
  /\ UNCHANGED <<g_seq_no, g_cmdq, records, lcs, outcome>>

(* No connection: the command is gone.  A running LC of another node may   *)
(* be missed even when its node is known, while the link to it is down.    *)
CannotOpen(job) ==
  /\ worker = "opening"
  /\ lc_up[job.cmd.id] => job.cmd.id \notin LocalId
  /\ Settle(job.cmd.seq, "unreachable")
  /\ worker' = "idle" /\ held' = {} /\ node_known' = FALSE
  /\ UNCHANGED <<g_seq_no, g_cmdq, records, override_coid, lcs>>

(* Mutant: a send that failed is queued again. *)
SendFailsRequeues(job) ==
  /\ worker \in {"sending", "replying"}
  /\ override_coid' = [override_coid EXCEPT ![job.cmd.id] = 0]
  /\ IF job.attempts < CmdMaxAttempts THEN RequeueCommand(job)
     ELSE Settle(job.cmd.seq, "unknown") /\ UNCHANGED g_cmdq
  /\ worker' = "idle" /\ held' = {}
  /\ UNCHANGED <<g_seq_no, node_known, records, lcs>>

(* The LC is gone, was started again since, or has not answered in time;   *)
(* it may have the command all the same.                                   *)
SendFails(job) ==
  /\ worker \in {"sending", "replying"}
  /\ override_coid' = [override_coid EXCEPT ![job.cmd.id] = 0]
  /\ Settle(job.cmd.seq, "unknown")
  /\ worker' = "idle" /\ held' = {}
  /\ UNCHANGED <<g_seq_no, g_cmdq, node_known, records, lcs>>

TakeAccepted(job) ==
  /\ worker = "accepted"
  /\ Settle(job.cmd.seq, "accepted")
  /\ worker' = "idle" /\ held' = {}
  /\ UNCHANGED <<g_seq_no, g_cmdq, node_known, records, override_coid, lcs>>

TakeWait(job) ==
  /\ worker = "refused"
  /\ IF job.attempts >= CmdMaxAttempts
       THEN Settle(job.cmd.seq, "gave up") /\ UNCHANGED g_cmdq
       ELSE RequeueCommand([job EXCEPT !.wait = "running"])
  /\ worker' = "idle" /\ held' = {}
  /\ UNCHANGED <<g_seq_no, node_known, records, override_coid, lcs>>

Worker == \/ \E i \in DOMAIN g_cmdq : Dequeue(i)
          \/ \E job \in held : \/ UseConnection(job) \/ ReadRecord(job)
                               \/ Open(job) \/ CannotOpen(job) \/ SendFails(job)
                               \/ TakeAccepted(job) \/ TakeWait(job)

------------------------------------------------------------------------------
(* The LC's end: one server thread on a channel that lasts as long as the  *)
(* process.  The command it works on stays with it when the CC gives up.   *)

ServerReceives(job) ==
  LET id == job.cmd.id IN
  /\ worker = "sending"
  /\ lc_up[id] /\ override_coid[id] = lc_starts[id]
  /\ inbox[id] = {}
  /\ inbox' = [inbox EXCEPT ![id] = {job.cmd}]
  /\ worker' = "replying"
  /\ UNCHANGED <<g_seq_no, g_cmdq, held, node_known, records, override_coid,
                 lc_up, lc_starts, latched, applied, outcome>>

Awaited(c) == worker = "replying" /\ \E job \in held : job.cmd = c

Answer(c, result) ==
  /\ inbox' = [inbox EXCEPT ![c.id] = {}]
  /\ worker' = IF Awaited(c) THEN result ELSE worker
  /\ UNCHANGED <<g_seq_no, g_cmdq, held, node_known, records, override_coid,
                 lc_up, lc_starts, outcome>>

ServerAccepts(c) ==
  /\ latched' = [latched EXCEPT ![c.id][c.kind] = c.seq]
  /\ applied' = applied \cup {c.seq}
  /\ Answer(c, "accepted")

ServerRefuses(c) ==
  /\ c.kind = "OVERRIDE"
  /\ Answer(c, "refused")
  /\ UNCHANGED <<latched, applied>>

Server == \/ \E job \in held : ServerReceives(job)
          \/ \E id \in Id : \E c \in inbox[id] : ServerAccepts(c) \/ ServerRefuses(c)

LcStarts(id) ==
  /\ ~lc_up[id] /\ lc_starts[id] < MaxStarts
  /\ lc_up' = [lc_up EXCEPT ![id] = TRUE]
  /\ lc_starts' = [lc_starts EXCEPT ![id] = @ + 1]
  /\ UNCHANGED <<g_seq_no, g_cmdq, sender, records, override_coid, inbox, latched,
                 applied, outcome>>

LcStops(id) ==
  /\ lc_up[id]
  /\ lc_up' = [lc_up EXCEPT ![id] = FALSE]
  /\ inbox' = [inbox EXCEPT ![id] = {}]
  /\ latched' = [latched EXCEPT ![id] = [k \in Kind |-> 0]]
  /\ UNCHANGED <<g_seq_no, g_cmdq, sender, records, override_coid, lc_starts,
                 applied, outcome>>

(* comm_worker() records where the LC is from its first report on; with    *)
(* all records taken by other ids it cannot.                               *)
LcReports(id) ==
  /\ lc_up[id] /\ CanTrack(id)
  /\ tracked' = tracked \cup {id}
  /\ link_seen' = [link_seen EXCEPT ![id] = TRUE]
  /\ UNCHANGED <<g_seq_no, g_cmdq, sender, override_coid, lcs, outcome>>

------------------------------------------------------------------------------
Operator == \E id \in Id : OperatorMistypes(id) \/ \E k \in Kind : OperatorCommands(k, id)

Next == \/ Operator \/ Worker \/ Server
        \/ \E i \in DOMAIN g_cmdq : WaitElapses(i)
        \/ \E id \in Id : LcStarts(id) \/ LcStops(id) \/ LcReports(id)

Spec == Init /\ [][Next]_vars

(* The worker and the servers are threads, waits and timeouts run out.     *)
(* Nothing is assumed of operators, nor of LCs being started or reached.   *)
Fairness ==
  /\ WF_vars(Worker)
  /\ WF_vars(Server)
  /\ \A i \in 1..CmdQueueLen : WF_vars(WaitElapses(i))

FairSpec == Spec /\ Fairness
================================================================================
