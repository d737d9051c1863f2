----------------------------- MODULE StatusReport -----------------------------
(***************************************************************************)
(* The way of an LC's state and fault alarms to the CC: notify_status() on *)
(* the controller's side, Status_Reporting_Task (status_report.c) and the  *)
(* CC's comm_worker() threads (central_controller.c).  The LC's state is a *)
(* version number; a handler of the controller is the order in which it    *)
(* writes the state and notifies.  told, heard, raised and alarmed record  *)
(* what was notified and what a worker received, overtaking how; no step   *)
(* reads them.                                                             *)
(***************************************************************************)
EXTENDS Sequences, FiniteSets, Functions

CONSTANTS
  Fault,           \* the distinct faults: a code with a head
  Handlers,        \* the orders of writes and notifications of a handler
  Worker,          \* COMM_POOL_THREADS workers of the CC
  FaultQueueLen,   \* FAULT_QUEUE_LEN
  StatusMaxRetry,  \* STATUS_MAX_RETRY
  MaxVersion,      \* bound: handlers begin below this version of the state
  MaxRuns          \* bound: times the CC is started

Op   == {"write", "notify"} \cup Fault
None == "none"

ASSUME ReportAssumption ==
  /\ IsFiniteSet(Fault) /\ {"write", "notify", None} \cap Fault = {}
  /\ Handlers \subseteq Seq(Op)
  /\ FaultQueueLen \in Nat \ {0} /\ StatusMaxRetry \in Nat \ {0}
  /\ MaxVersion \in Nat /\ MaxRuns \in Nat

VARIABLES
  version, todo,     \* the LC's state; what is left of the running handler
  pulses,            \* the queue of status_chid: "notify" or a fault
  at,                \* Status_Reporting_Task: how far it is
  g_status_dirty, g_faults,
  g_retry_counter,
  due,               \* g_next_attempt_ms has passed
  g_cc_coid,         \* 0 (-1 in the code), or the run of the CC it was opened to
  report,            \* the report being sent, while one is
  cc_up, cc_run,     \* the CC runs; how often it was started
  job,               \* what a worker does, with which report
  record,            \* the version in the CC's lc_record_t, 0 before a report
  g_lc_full,         \* all MAX_TRACKED_LC slots of g_lc are taken, none for this LC
  told, heard, raised, alarmed,
  overtaking         \* another worker had a report when the last one was received

control == <<version, todo, told, raised>>
link    == <<g_retry_counter, due, g_cc_coid>>
pending == <<g_status_dirty, g_faults>>
cc      == <<cc_up, cc_run, job, record, g_lc_full>>
known   == <<heard, alarmed, overtaking>>
vars    == <<control, pulses, at, pending, link, report, cc, known>>

Report  == [fault : Fault \cup {None}, version : Nat]
Blank   == [fault |-> None, version |-> 0]
IdleJob == [at |-> "idle", awaited |-> FALSE, rep |-> Blank]

(* fixed_timing_begin_ns_green() notifies before the first tick. *)
Init ==
  /\ version = 1 /\ todo = <<"notify">>
  /\ pulses = <<>>
  /\ at = "start"
  /\ g_status_dirty = FALSE /\ g_faults = <<>>
  /\ g_retry_counter = 0 /\ due = TRUE
  /\ g_cc_coid = 0
  /\ report = Blank
  /\ cc_up = FALSE /\ cc_run = 0
  /\ job = [w \in Worker |-> IdleJob]
  /\ record = 0 /\ g_lc_full = FALSE
  /\ told = 0 /\ heard = 0 /\ overtaking = FALSE
  /\ raised = [f \in Fault |-> 0] /\ alarmed = [f \in Fault |-> 0]

------------------------------------------------------------------------------
(* Phase_Controller_Task.  A pulse is sent without waiting for anybody. *)

rest == <<at, pending, link, report, cc, known>>

BeginHandler(h) ==
  /\ todo = <<>>
  /\ version < MaxVersion
  /\ todo' = h
  /\ UNCHANGED <<version, told, raised, pulses, rest>>

WriteState ==
  /\ todo # <<>> /\ Head(todo) = "write"
  /\ version' = version + 1
  /\ todo' = Tail(todo)
  /\ UNCHANGED <<told, raised, pulses, rest>>

NotifyStatus ==
  /\ todo # <<>> /\ Head(todo) = "notify"
  /\ pulses' = Append(pulses, "notify")
  /\ told' = version
  /\ todo' = Tail(todo)
  /\ UNCHANGED <<version, raised, rest>>

NotifyFault(f) ==
  /\ todo # <<>> /\ Head(todo) = f
  /\ pulses' = Append(pulses, f)
  /\ told' = version
  /\ raised' = [raised EXCEPT ![f] = version]
  /\ todo' = Tail(todo)
  /\ UNCHANGED <<version, rest>>

Controller == \/ \E h \in Handlers : BeginHandler(h)
              \/ WriteState \/ NotifyStatus
              \/ \E f \in Fault : NotifyFault(f)

------------------------------------------------------------------------------
(* Status_Reporting_Task: pulses. *)

others == <<control, cc, known>>

(* Mutant: a queued fault alone is no reason to send. *)
StatusPending == g_status_dirty

ReportPending == g_status_dirty \/ g_faults # <<>>

(* absorb_pulse() of a fault: one that waits already is not queued twice,  *)
(* one that finds the queue full is dropped.                               *)
AbsorbFault(f) ==
  /\ g_faults' = IF f \in Range(g_faults) \/ Len(g_faults) = FaultQueueLen
                   THEN g_faults ELSE Append(g_faults, f)
  /\ UNCHANGED g_status_dirty

AbsorbStatus ==
  /\ g_status_dirty' = TRUE
  /\ UNCHANGED g_faults

(* receive_pulse(), waiting or draining: a pulse that is there is taken.    *)
AbsorbPulse ==
  /\ at = "wait" /\ pulses # <<>>
  /\ pulses' = Tail(pulses)
  /\ IF Head(pulses) \in Fault THEN AbsorbFault(Head(pulses)) ELSE AbsorbStatus
  /\ UNCHANGED <<others, at, link, report>>

(* The queue is drained and something is pending: send it once an attempt  *)
(* is due.                                                                 *)
BeginFlush ==
  /\ at = "wait" /\ pulses = <<>>
  /\ ReportPending /\ due
  /\ at' = "flush"
  /\ UNCHANGED <<others, pulses, pending, link, report>>

DeadlinePasses ==
  /\ ~due
  /\ due' = TRUE
  /\ UNCHANGED <<others, pulses, at, pending, report, g_retry_counter, g_cc_coid>>

------------------------------------------------------------------------------
(* Status_Reporting_Task: the connection and the send. *)

Connected == cc_up /\ g_cc_coid = cc_run

(* connect_to_cc(): the name is there while the CC runs; over QNET the     *)
(* open may fail all the same.                                             *)
ConnectFails ==
  /\ at \in {"start", "flush"} /\ g_cc_coid = 0
  /\ due' = FALSE
  /\ at' = "wait"
  /\ UNCHANGED <<others, pulses, pending, report, g_retry_counter, g_cc_coid>>

(* At the start nothing is marked; a reconnect marks the state unsent. *)
Connects ==
  /\ at \in {"start", "flush"} /\ g_cc_coid = 0 /\ cc_up
  /\ g_cc_coid' = cc_run
  /\ g_status_dirty' = (at = "flush" \/ g_status_dirty)
  /\ at' = IF at = "start" THEN "wait" ELSE "flush"
  /\ UNCHANGED <<others, pulses, g_faults, report, g_retry_counter, due>>

NextFault == IF g_faults # <<>> THEN Head(g_faults) ELSE None

(* Mutant: the state is marked sent before it is. *)
FillSnapshotClears ==
  /\ at = "flush" /\ g_cc_coid # 0
  /\ ReportPending
  /\ report' = [fault |-> NextFault, version |-> version]
  /\ g_status_dirty' = (g_faults # <<>> /\ g_status_dirty)
  /\ at' = "sending"
  /\ UNCHANGED <<others, pulses, g_faults, link>>

(* Mutant: the fault leaves the queue before it is delivered. *)
FillSnapshotTakes ==
  /\ at = "flush" /\ g_cc_coid # 0
  /\ ReportPending
  /\ report' = [fault |-> NextFault, version |-> version]
  /\ g_faults' = IF g_faults # <<>> THEN Tail(g_faults) ELSE g_faults
  /\ at' = "sending"
  /\ UNCHANGED <<others, pulses, g_status_dirty, link>>

(* Mutant: an alarm carries the state in which the fault was raised. *)
FillSnapshotOfAlarm ==
  /\ at = "flush" /\ g_cc_coid # 0
  /\ ReportPending
  /\ report' = [fault   |-> NextFault,
                version |-> IF g_faults # <<>> THEN raised[Head(g_faults)] ELSE version]
  /\ at' = "sending"
  /\ UNCHANGED <<others, pulses, pending, link>>

(* flush_reports(): the next report, faults first, with the state as it is *)
(* when fill_snapshot() holds the lock.                                    *)
FillSnapshot ==
  /\ at = "flush" /\ g_cc_coid # 0
  /\ ReportPending
  /\ report' = [fault |-> NextFault, version |-> version]
  /\ at' = "sending"
  /\ UNCHANGED <<others, pulses, pending, link>>

FlushEnds ==
  /\ at = "flush" /\ g_cc_coid # 0
  /\ ~ReportPending
  /\ at' = "wait"
  /\ UNCHANGED <<others, pulses, pending, link, report>>

(* MsgSend() returned the reply: the report is done with. *)
SendSucceeds ==
  /\ at = "answered"
  /\ g_retry_counter' = 0
  /\ IF report.fault # None
       THEN g_faults' = Tail(g_faults) /\ UNCHANGED g_status_dirty
       ELSE g_status_dirty' = FALSE /\ UNCHANGED g_faults
  /\ at' = "flush" /\ report' = Blank
  /\ UNCHANGED <<others, pulses, due, g_cc_coid>>

(* After a failure: a short gap, or with no retry left the link is given   *)
(* up and a longer one.                                                    *)
RetryLater ==
  /\ g_retry_counter + 1 < StatusMaxRetry
  /\ g_retry_counter' = g_retry_counter + 1
  /\ UNCHANGED g_cc_coid

(* Mutant: the connection to a dead channel is kept. *)
KeepConnection ==
  /\ g_retry_counter + 1 >= StatusMaxRetry
  /\ g_retry_counter' = 0
  /\ UNCHANGED g_cc_coid

(* Mutant: the counter of retries runs on. *)
DropConnectionOnly ==
  /\ g_retry_counter + 1 >= StatusMaxRetry
  /\ g_retry_counter' = g_retry_counter + 1
  /\ g_cc_coid' = 0

DropConnection ==
  /\ g_retry_counter + 1 >= StatusMaxRetry
  /\ g_retry_counter' = 0
  /\ g_cc_coid' = 0

(* The connection leads nowhere, no worker took the report in time, or the *)
(* reply is late or lost; a worker that has it handles it all the same.    *)
SendFails ==
  /\ at \in {"sending", "served"}
  /\ RetryLater \/ DropConnection
  /\ due' = FALSE
  /\ at' = "wait" /\ report' = Blank
  /\ job' = [w \in Worker |-> [job[w] EXCEPT !.awaited = FALSE]]
  /\ UNCHANGED <<control, pulses, pending, cc_up, cc_run, record, g_lc_full, known>>

StatusTask == \/ AbsorbPulse \/ BeginFlush \/ ConnectFails \/ Connects
              \/ FillSnapshot \/ FlushEnds \/ SendSucceeds \/ SendFails

------------------------------------------------------------------------------
(* The CC *)

lc    == <<control, pulses, pending, link, report>>
table == <<record, g_lc_full>>

Busy(w) == job[w].at # "idle"

Receive(w) ==
  /\ at = "sending" /\ Connected
  /\ ~Busy(w)
  /\ job' = [job EXCEPT ![w] = [at |-> "received", awaited |-> TRUE, rep |-> report]]
  /\ at' = "served"
  /\ heard' = report.version
  /\ alarmed' = [f \in Fault |-> IF f = report.fault THEN report.version ELSE alarmed[f]]
  /\ overtaking' = \E v \in Worker : Busy(v)
  /\ UNCHANGED <<lc, cc_up, cc_run, table>>

(* The reply goes out before the report is recorded. *)
Reply(w) ==
  /\ job[w].at = "received"
  /\ job' = [job EXCEPT ![w].at = "replied", ![w].awaited = FALSE]
  /\ at' = IF job[w].awaited THEN "answered" ELSE at
  /\ UNCHANGED <<lc, cc_up, cc_run, table, known>>

(* Mutant: an alarm is logged and not recorded. *)
RecordStatus(w) ==
  /\ job[w].at = "replied"
  /\ record' = IF job[w].rep.fault # None \/ g_lc_full THEN record ELSE job[w].rep.version
  /\ job' = [job EXCEPT ![w] = IdleJob]
  /\ UNCHANGED <<lc, at, cc_up, cc_run, g_lc_full, known>>

(* Without a slot for this LC its report is logged only. *)
RecordReport(w) ==
  /\ job[w].at = "replied"
  /\ record' = IF g_lc_full THEN record ELSE job[w].rep.version
  /\ job' = [job EXCEPT ![w] = IdleJob]
  /\ UNCHANGED <<lc, at, cc_up, cc_run, g_lc_full, known>>

(* Other LCs report, or an operator names other intersections, until every *)
(* slot is taken; a slot is never freed.                                   *)
OthersFillTable ==
  /\ cc_up /\ record = 0 /\ ~g_lc_full
  /\ g_lc_full' = TRUE
  /\ UNCHANGED <<lc, at, cc_up, cc_run, job, record, known>>

Forget == /\ job' = [w \in Worker |-> IdleJob]
          /\ record' = 0 /\ g_lc_full' = FALSE
          /\ overtaking' = FALSE

CcStarts ==
  /\ ~cc_up /\ cc_run < MaxRuns
  /\ cc_up' = TRUE
  /\ cc_run' = cc_run + 1
  /\ UNCHANGED <<lc, at, job, table, known>>

CcStops ==
  /\ cc_up
  /\ cc_up' = FALSE
  /\ Forget
  /\ UNCHANGED <<lc, at, cc_run, heard, alarmed>>

CommWorker(w) == Receive(w) \/ Reply(w) \/ RecordReport(w)

Next == \/ Controller \/ StatusTask \/ DeadlinePasses
        \/ \E w \in Worker : CommWorker(w)
        \/ OthersFillTable \/ CcStarts \/ CcStops

Spec == Init /\ [][Next]_vars

------------------------------------------------------------------------------
(* Threads run, deadlines pass, and a send or an open tried again and      *)
(* again while the CC runs gets through at last.                           *)
Fairness ==
  /\ WF_vars(WriteState \/ NotifyStatus \/ \E f \in Fault : NotifyFault(f))
  /\ WF_vars(AbsorbPulse \/ BeginFlush \/ FillSnapshot \/ FlushEnds \/ SendSucceeds
               \/ SendFails \/ ConnectFails)
  /\ WF_vars(DeadlinePasses)
  /\ SF_vars(Connects)
  /\ SF_vars(\E w \in Worker : Receive(w))
  /\ SF_vars(\E w \in Worker : Reply(w) /\ at' = "answered")
  /\ \A w \in Worker : WF_vars(Reply(w) \/ RecordReport(w))

FairSpec == Spec /\ Fairness
================================================================================
