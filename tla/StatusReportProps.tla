--------------------------- MODULE StatusReportProps ---------------------------
(* What the status path must guarantee. *)
EXTENDS StatusReport

(* No variable leaves its range: the fault queue stays within              *)
(* FAULT_QUEUE_LEN and the retry counter below STATUS_MAX_RETRY            *)
(* (status_report.c).                                                      *)
TypeOK ==
  /\ version \in Nat /\ told \in Nat /\ heard \in Nat
  /\ raised \in [Fault -> Nat] /\ alarmed \in [Fault -> Nat]
  /\ todo \in Seq(Op)
  /\ pulses \in Seq({"notify"} \cup Fault)
  /\ at \in {"start", "wait", "flush", "sending", "served", "answered"}
  /\ g_status_dirty \in BOOLEAN
  /\ g_faults \in Seq(Fault) /\ Len(g_faults) <= FaultQueueLen
  /\ g_retry_counter \in 0..(StatusMaxRetry - 1)
  /\ due \in BOOLEAN
  /\ g_cc_coid \in 0..cc_run /\ cc_run \in 0..MaxRuns
  /\ report \in Report
  /\ cc_up \in BOOLEAN
  /\ job \in [Worker -> [at : {"idle", "received", "replied"}, awaited : BOOLEAN,
                         rep : Report]]
  /\ record \in Nat /\ g_lc_full \in BOOLEAN /\ overtaking \in BOOLEAN

(* A state the controller notified and no worker has received yet is still *)
(* on its way: a pulse waits, the state is marked unsent, or a fault with  *)
(* its snapshot is queued.  Pulses may be merged, faults dropped, sends    *)
(* fail and answers be late: flush_reports() must not clear a mark before  *)
(* a snapshot that covers it is delivered.                                 *)
ChangesStayPending == heard < told => pulses # <<>> \/ ReportPending

(* "Each distinct fault is kept until delivered" (status_report.c:6): the  *)
(* last raising of a fault was shown to the CC by an alarm, or its alarm   *)
(* waits.  Beyond FAULT_QUEUE_LEN distinct faults the code drops one.      *)
AlarmKept(f) == alarmed[f] < raised[f] => f \in Range(pulses) \cup Range(g_faults)
AlarmsStayQueued == Cardinality(Fault) <= FaultQueueLen => \A f \in Fault : AlarmKept(f)

(* What the two invariants above rest on, together inductive: nobody knows *)
(* more than there is to know; the fault queue holds raised faults, each   *)
(* once; a notification after the snapshot of the report being sent still  *)
(* waits as a pulse, for only this thread takes pulses; and what that      *)
(* report answers for is still marked until the answer is in.              *)
InFlight  == at \in {"sending", "served", "answered"}
Delivered == at \in {"served", "answered"}

Known == /\ 1 <= version /\ told <= version /\ heard <= version
         /\ report.version <= version
         /\ \A f \in Fault : raised[f] <= told

Distinct(s) == \A i, j \in DOMAIN s : s[i] = s[j] => i = j
OnlyRaised  == /\ Distinct(g_faults)
               /\ \A f \in Fault : f \in Range(pulses) \cup Range(g_faults) => 0 < raised[f]

StillMarked == InFlight => /\ report.fault = NextFault
                           /\ report.fault = None => g_status_dirty

LaterWaits == InFlight => /\ report.version < told => pulses # <<>>
                          /\ \A f \in Fault : report.version < raised[f] => f \in Range(pulses)

HeardInOrder ==
  /\ InFlight => heard <= report.version
  /\ Delivered => heard = report.version
  /\ Delivered /\ report.fault # None => alarmed[report.fault] = report.version

OneAwaited ==
  /\ \A w \in Worker : job[w].awaited =>
       at = "served" /\ job[w].at = "received" /\ job[w].rep = report
  /\ \A v, w \in Worker : job[v].awaited /\ job[w].awaited => v = w

ReportInv == Known /\ OnlyRaised /\ StillMarked /\ LaterWaits /\ HeardInOrder /\ OneAwaited

(* Nothing is pending, on either side. *)
Settled == /\ todo = <<>> /\ pulses = <<>> /\ ~ReportPending /\ at = "wait"
           /\ Connected /\ \A w \in Worker : job[w] = IdleJob

(* Then what the CC shows of an LC it has a slot for is the last report it *)
(* received: "`LINK` is the time since that LC's last report"              *)
(* (src/README.md:108), in the row that shows its state.  The CC's three   *)
(* workers break it: each answers before it records, so the LC's next      *)
(* report can be recorded first and the older one over it.                 *)
RecordIsLastReport == Settled /\ ~g_lc_full => record = heard

(* An older report stays in the record only if it was overtaken, that is,  *)
(* if another worker still had one when the last was received.  Otherwise  *)
(* the record is right, through lost and late sends, resends, alarms, and  *)
(* a CC that stops between the answer and the record: the next one gets a  *)
(* report before the LC is quiet.                                          *)
RecordLastOrOvertaken == Settled /\ ~g_lc_full => record = heard \/ overtaking

(* However long the outage, a notified state reaches the CC once it is up  *)
(* (UC-08): nothing in retry, back-off and reconnect stops for good.  What *)
(* was notified and what was heard only grow, and only boundedly often, so *)
(* that heard catches up again and again means that it passes every state  *)
(* ever notified.                                                          *)
EveryChangeHeard == []<>cc_up => []<>(heard >= told)

(* The same for alarms, each raising of each fault. *)
EveryAlarmHeard == []<>cc_up => \A f \in Fault : []<>(alarmed[f] >= raised[f])

(* The status path keeps the promise of StateReporting.                    *)
Promise == INSTANCE StateReporting WITH now <- version, known <- heard
KeepsPromise == Promise!Spec
================================================================================
