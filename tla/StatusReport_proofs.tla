-------------------------- MODULE StatusReport_proofs --------------------------
(***************************************************************************)
(* Proofs about StatusReportProps, for any faults, handlers, workers,      *)
(* queue length, number of retries, of changes and of restarts.            *)
(***************************************************************************)
EXTENDS StatusReportProps, SequenceTheorems, FiniteSetTheorems, TLAPS

------------------------------------------------------------------------------
(* Queues *)

(* A pulse sent is behind those that wait. *)
LEMMA RangeOfAppend ==
  ASSUME NEW S, NEW s \in Seq(S), NEW x \in S
  PROVE  /\ Append(s, x) \in Seq(S) /\ Append(s, x) # <<>>
         /\ Range(Append(s, x)) = Range(s) \cup {x}
<1>1. Append(s, x) = s \o <<x>> /\ <<x>> \in Seq(S)
  BY AppendIsConcat
<1>2. Range(<<x>>) = {x}
  BY DEF Range
<1>3. Range(s \o <<x>>) = Range(s) \cup Range(<<x>>)
  BY <1>1, RangeConcatenation
<1>4. Append(s, x) \in Seq(S) /\ Append(s, x) # <<>>
  BY AppendProperties
<1> QED BY <1>1, <1>2, <1>3, <1>4

(* Taking the first of a queue loses only it. *)
LEMMA RangeOfTail ==
  ASSUME NEW S, NEW s \in Seq(S), s # <<>>
  PROVE  /\ Head(s) \in S /\ Tail(s) \in Seq(S)
         /\ Range(s) = {Head(s)} \cup Range(Tail(s))
         /\ Len(Tail(s)) = Len(s) - 1
<1>1. s = <<Head(s)>> \o Tail(s) /\ Head(s) \in S /\ Tail(s) \in Seq(S) /\ Len(Tail(s)) = Len(s) - 1
  OBVIOUS
<1>2. <<Head(s)>> \in Seq(S)
  BY <1>1
<1>3. Range(<<Head(s)>>) = {Head(s)}
  BY DEF Range
<1>4. Range(<<Head(s)>> \o Tail(s)) = Range(<<Head(s)>>) \cup Range(Tail(s))
  BY <1>1, <1>2, RangeConcatenation
<1> QED BY <1>1, <1>3, <1>4

(* Members of a queue come from where its entries come from. *)
LEMMA RangeIn ==
  ASSUME NEW S, NEW s \in Seq(S)
  PROVE  /\ Range(s) \subseteq S
         /\ s = <<>> <=> Range(s) = {}
         /\ DOMAIN s = 1..Len(s)
  BY RangeOfSeq DEF Range

(* A queue without repetition keeps none when something new is appended or *)
(* the first is taken, and the first is then not in it.                    *)
LEMMA DistinctKept ==
  ASSUME NEW S, NEW s \in Seq(S), Distinct(s)
  PROVE  /\ \A x \in S \ Range(s) : Distinct(Append(s, x))
         /\ s # <<>> => Distinct(Tail(s)) /\ Head(s) \notin Range(Tail(s))
<1>1. ASSUME NEW x \in S \ Range(s) PROVE Distinct(Append(s, x))
  BY <1>1, AppendProperties DEF Distinct, Range
<1>2. ASSUME s # <<>> PROVE Distinct(Tail(s)) /\ Head(s) \notin Range(Tail(s))
  <2>1. /\ Len(Tail(s)) = Len(s) - 1 /\ Len(s) \in Nat \ {0}
        /\ \A i \in 1..Len(Tail(s)) : Tail(s)[i] = s[i + 1]
        /\ DOMAIN s = 1..Len(s) /\ DOMAIN Tail(s) = 1..Len(Tail(s)) /\ Head(s) = s[1]
    BY <1>2, HeadTailProperties
  <2> QED BY <2>1 DEF Distinct, Range
<1> QED BY <1>1, <1>2

(* Without repetition a queue of faults that lacks one of them is shorter  *)
(* than the faults are many.                                               *)
LEMMA QueueShorter ==
  ASSUME NEW s \in Seq(Fault), Distinct(s), NEW f \in Fault, f \notin Range(s)
  PROVE  Len(s) < Cardinality(Fault)
<1>1. IsFiniteSet(Fault)
  BY ReportAssumption DEF ReportAssumption
<1>2. /\ IsFiniteSet(Fault \ {f})
      /\ Cardinality(Fault \ {f}) = Cardinality(Fault) - 1
      /\ Cardinality(Fault) \in Nat
  BY <1>1, FS_RemoveElement, FS_CardinalityType
<1>3. s \in Injection(1..Len(s), Fault \ {f})
  BY DEF Distinct, Range, Injection, IsInjective
<1>4. Cardinality(1..Len(s)) <= Cardinality(Fault \ {f})
  BY <1>2, <1>3, FS_Injection
<1>5. Cardinality(1..Len(s)) = Len(s) /\ Len(s) \in Nat
  BY FS_Interval
<1> QED BY <1>2, <1>4, <1>5

------------------------------------------------------------------------------
(* Types *)

Pulses == Seq({"notify"} \cup Fault)

(* What is left of a handler is a sequence of operations. *)
LEMMA TodoType ==
  ASSUME TypeOK, Controller
  PROVE  todo' \in Seq(Op)
<1>1. CASE \E h \in Handlers : BeginHandler(h)
  BY <1>1, ReportAssumption DEF ReportAssumption, BeginHandler
<1>2. CASE todo # <<>> /\ todo' = Tail(todo)
  BY <1>2, RangeOfTail DEF TypeOK
<1> QED BY <1>1, <1>2 DEF Controller, WriteState, NotifyStatus, NotifyFault

(* The controller's steps keep the types. *)
LEMMA ControllerTypes ==
  ASSUME TypeOK, Controller
  PROVE  TypeOK'
<1> USE DEF rest, pending, link, cc, known
<1>1. todo' \in Seq(Op)
  BY TodoType
<1>2. CASE \E h \in Handlers : BeginHandler(h)
  BY <1>1, <1>2 DEF BeginHandler, TypeOK
<1>3. CASE WriteState
  BY <1>1, <1>3 DEF WriteState, TypeOK
<1>4. CASE NotifyStatus
  <2>1. pulses' \in Seq({"notify"} \cup Fault)
    BY <1>4, RangeOfAppend DEF NotifyStatus, TypeOK
  <2> QED BY <1>1, <1>4, <2>1 DEF NotifyStatus, TypeOK
<1>5. ASSUME NEW f \in Fault, NotifyFault(f) PROVE TypeOK'
  <2>1. pulses' \in Seq({"notify"} \cup Fault)
    BY <1>5, RangeOfAppend DEF NotifyFault, TypeOK
  <2> QED BY <1>1, <1>5, <2>1 DEF NotifyFault, TypeOK
<1> QED BY <1>2, <1>3, <1>4, <1>5 DEF Controller

(* What a pulse does to the marks. *)
LEMMA PendingTypes ==
  ASSUME TypeOK, AbsorbPulse
  PROVE  /\ pulses' \in Seq({"notify"} \cup Fault)
         /\ g_status_dirty' \in BOOLEAN
         /\ g_faults' \in Seq(Fault) /\ Len(g_faults') <= FaultQueueLen
<1> USE DEF TypeOK
<1>1. pulses' \in Seq({"notify"} \cup Fault) /\ Head(pulses) \in {"notify"} \cup Fault
  BY RangeOfTail DEF AbsorbPulse
<1>2. CASE AbsorbStatus
  BY <1>1, <1>2 DEF AbsorbStatus
<1>3. ASSUME NEW f \in Fault, AbsorbFault(f)
      PROVE  g_faults' \in Seq(Fault) /\ Len(g_faults') <= FaultQueueLen
  <2>1. Len(g_faults) \in Nat /\ FaultQueueLen \in Nat
    BY ReportAssumption DEF ReportAssumption
  <2>2. Append(g_faults, f) \in Seq(Fault) /\ Len(Append(g_faults, f)) = Len(g_faults) + 1
    BY AppendProperties
  <2> QED BY <1>3, <2>1, <2>2 DEF AbsorbFault
<1> QED BY <1>1, <1>2, <1>3 DEF AbsorbPulse, AbsorbFault

(* An answered alarm is the first of the queue, and the queue shrinks.     *)
LEMMA AnsweredTypes ==
  ASSUME TypeOK, ReportInv, SendSucceeds
  PROVE  g_faults' \in Seq(Fault) /\ Len(g_faults') <= FaultQueueLen
<1>1. CASE report.fault = None
  BY <1>1 DEF SendSucceeds, TypeOK
<1>2. CASE report.fault # None
  <2>1. g_faults # <<>> /\ g_faults' = Tail(g_faults)
    BY <1>2 DEF SendSucceeds, ReportInv, StillMarked, InFlight, NextFault
  <2>2. Tail(g_faults) \in Seq(Fault) /\ Len(Tail(g_faults)) = Len(g_faults) - 1
    BY <2>1, RangeOfTail DEF TypeOK
  <2> QED BY <2>1, <2>2, ReportAssumption DEF TypeOK, ReportAssumption
<1> QED BY <1>1, <1>2

(* The status task's steps keep the types. *)
LEMMA StatusTaskTypes ==
  ASSUME TypeOK, ReportInv, StatusTask \/ DeadlinePasses
  PROVE  TypeOK'
<1> USE DEF others, control, pending, link, cc, known
<1>1. CASE BeginFlush \/ FlushEnds \/ DeadlinePasses
  BY <1>1 DEF BeginFlush, FlushEnds, DeadlinePasses, TypeOK
<1>2. CASE AbsorbPulse
  BY <1>2, PendingTypes DEF AbsorbPulse, TypeOK
<1>3. CASE ConnectFails \/ Connects
  <2>1. g_status_dirty' \in BOOLEAN
    BY <1>3, Zenon DEF ConnectFails, Connects, TypeOK
  <2>2. g_cc_coid' \in 0..cc_run'
    BY <1>3, ReportAssumption DEF ConnectFails, Connects, TypeOK, ReportAssumption
  <2>3. at' \in {"wait", "flush"} /\ due' \in BOOLEAN
    BY <1>3 DEF ConnectFails, Connects, TypeOK
  <2> QED BY <1>3, <2>1, <2>2, <2>3 DEF ConnectFails, Connects, TypeOK
<1>4. CASE FillSnapshot
  <2>1. NextFault \in Fault \cup {None}
    BY RangeOfTail DEF NextFault, TypeOK
  <2> QED BY <1>4, <2>1 DEF FillSnapshot, TypeOK, Report
<1>5. CASE SendSucceeds
  <2>1. g_status_dirty' \in BOOLEAN
    BY <1>5 DEF SendSucceeds, TypeOK
  <2>2. g_retry_counter' \in 0..(StatusMaxRetry - 1)
    BY <1>5, ReportAssumption DEF SendSucceeds, ReportAssumption
  <2>3. report' \in Report
    BY <1>5 DEF SendSucceeds, Blank, Report
  <2> QED BY <1>5, <2>1, <2>2, <2>3, AnsweredTypes DEF SendSucceeds, TypeOK
<1>6. CASE SendFails
  <2>1. g_retry_counter' \in 0..(StatusMaxRetry - 1) /\ g_cc_coid' \in 0..cc_run
    <3>1. CASE RetryLater
      BY <3>1, ReportAssumption DEF RetryLater, TypeOK, ReportAssumption
    <3>2. CASE DropConnection
      BY <3>2, ReportAssumption DEF DropConnection, TypeOK, ReportAssumption
    <3> QED BY <1>6, <3>1, <3>2 DEF SendFails
  <2>2. report' \in Report
    BY <1>6 DEF SendFails, Blank, Report
  <2>3. job' \in [Worker -> [at : {"idle", "received", "replied"}, awaited : BOOLEAN,
                             rep : Report]]
    BY <1>6 DEF SendFails, TypeOK
  <2> QED BY <1>6, <2>1, <2>2, <2>3 DEF SendFails, TypeOK
<1> QED BY <1>1, <1>2, <1>3, <1>4, <1>5, <1>6 DEF StatusTask

(* The CC's steps keep the types. *)
LEMMA CcTypes ==
  ASSUME TypeOK, (\E w \in Worker : CommWorker(w)) \/ OthersFillTable \/ CcStarts \/ CcStops
  PROVE  TypeOK'
<1> USE DEF lc, control, pending, link, table, known
<1>1. ASSUME NEW w \in Worker, Receive(w) PROVE TypeOK'
  BY <1>1 DEF Receive, TypeOK, Report
<1>2. ASSUME NEW w \in Worker, Reply(w) PROVE TypeOK'
  BY <1>2 DEF Reply, TypeOK
<1>3. ASSUME NEW w \in Worker, RecordReport(w) PROVE TypeOK'
  BY <1>3 DEF RecordReport, TypeOK, Report, IdleJob, Blank
<1>4. CASE CcStarts
  BY <1>4, ReportAssumption DEF CcStarts, TypeOK, ReportAssumption
<1>5. CASE CcStops
  BY <1>5 DEF CcStops, Forget, TypeOK, Report, IdleJob, Blank
<1>6. CASE OthersFillTable
  BY <1>6 DEF OthersFillTable, TypeOK
<1> QED BY <1>1, <1>2, <1>3, <1>4, <1>5, <1>6 DEF CommWorker

(* Every step keeps the types. *)
LEMMA TypeStep ==
  ASSUME TypeOK, ReportInv, [Next]_vars
  PROVE  TypeOK'
<1>1. CASE UNCHANGED vars
  BY <1>1 DEF vars, control, pending, link, cc, known, TypeOK
<1> QED BY <1>1, ControllerTypes, StatusTaskTypes, CcTypes DEF Next

------------------------------------------------------------------------------
(* The inductive invariant *)

(* A notification joins the pulses. *)
LEMMA PulseSent ==
  ASSUME TypeOK, NEW p \in {"notify"} \cup Fault, pulses' = Append(pulses, p)
  PROVE  pulses' # <<>> /\ Range(pulses') = Range(pulses) \cup {p}
<1>1. pulses \in Seq({"notify"} \cup Fault)
  BY DEF TypeOK
<1> QED BY <1>1, RangeOfAppend

(* The controller: the state moves on, and a notification is a pulse.      *)
LEMMA ControllerStep ==
  ASSUME TypeOK, ReportInv, Controller
  PROVE  ReportInv'
<1> USE DEF rest, pending, link, cc, known
<1>1. ASSUME NEW h \in Handlers, BeginHandler(h) PROVE ReportInv'
  BY <1>1 DEF BeginHandler, ReportInv, Known, OnlyRaised, StillMarked, NextFault,
              LaterWaits, HeardInOrder, OneAwaited, InFlight, Delivered
<1>4. CASE WriteState
  <2>1. Known'
    BY <1>4 DEF WriteState, ReportInv, Known, TypeOK, Report
  <2> QED BY <1>4, <2>1 DEF WriteState, ReportInv, OnlyRaised, StillMarked, NextFault,
              LaterWaits, HeardInOrder, OneAwaited, InFlight, Delivered
<1>2. CASE NotifyStatus
  <2>1. pulses' # <<>> /\ Range(pulses') = Range(pulses) \cup {"notify"}
    BY <1>2, PulseSent DEF NotifyStatus
  <2>2. "notify" \notin Fault
    BY ReportAssumption DEF ReportAssumption
  <2>3. Known' /\ OnlyRaised'
    BY <1>2, <2>1, <2>2 DEF NotifyStatus, ReportInv, Known, OnlyRaised, TypeOK
  <2>4. StillMarked' /\ HeardInOrder' /\ OneAwaited'
    BY <1>2 DEF NotifyStatus, ReportInv, StillMarked, NextFault, HeardInOrder, OneAwaited,
                InFlight, Delivered
  <2>5. LaterWaits'
    BY <1>2, <2>1 DEF NotifyStatus, ReportInv, LaterWaits, InFlight
  <2> QED BY <2>3, <2>4, <2>5 DEF ReportInv
<1>3. ASSUME NEW f \in Fault, NotifyFault(f) PROVE ReportInv'
  <2>1. pulses' # <<>> /\ Range(pulses') = Range(pulses) \cup {f}
    BY <1>3, PulseSent DEF NotifyFault
  <2>2. \A g \in Fault : raised'[g] = IF g = f THEN version ELSE raised[g]
    BY <1>3 DEF NotifyFault, TypeOK
  <2>3. Known' /\ OnlyRaised'
    BY <1>3, <2>1, <2>2 DEF NotifyFault, ReportInv, Known, OnlyRaised, TypeOK
  <2>4. StillMarked' /\ HeardInOrder' /\ OneAwaited'
    BY <1>3 DEF NotifyFault, ReportInv, StillMarked, NextFault, HeardInOrder, OneAwaited,
                InFlight, Delivered
  <2>5. LaterWaits'
    BY <1>3, <2>1, <2>2 DEF NotifyFault, ReportInv, LaterWaits, InFlight
  <2> QED BY <2>3, <2>4, <2>5 DEF ReportInv
<1> QED BY <1>1, <1>2, <1>3, <1>4 DEF Controller

(* Absorbing a pulse moves a fault from one queue to the other. *)
LEMMA AbsorbMoves ==
  ASSUME TypeOK, OnlyRaised, AbsorbPulse
  PROVE  /\ Distinct(g_faults')
         /\ Range(pulses') \cup Range(g_faults') \subseteq Range(pulses) \cup Range(g_faults)
         /\ Range(g_faults) \subseteq Range(g_faults')
         /\ Cardinality(Fault) <= FaultQueueLen =>
              \A f \in Fault : f \in Range(pulses) \cup Range(g_faults)
                                => f \in Range(pulses') \cup Range(g_faults')
<1> USE DEF TypeOK
<1>1. /\ Range(pulses) = {Head(pulses)} \cup Range(pulses')
      /\ Head(pulses) \in {"notify"} \cup Fault
  BY RangeOfTail DEF AbsorbPulse
<1>2. "notify" \notin Fault
  BY ReportAssumption DEF ReportAssumption
<1>3. CASE Head(pulses) \notin Fault
  BY <1>1, <1>2, <1>3 DEF AbsorbPulse, AbsorbStatus, OnlyRaised
<1>4. CASE Head(pulses) \in Fault
  <2> DEFINE f == Head(pulses)
  <2>1. AbsorbFault(f)
    BY <1>4 DEF AbsorbPulse
  <2>2. CASE f \in Range(g_faults)
    BY <1>1, <2>1, <2>2 DEF AbsorbFault, OnlyRaised
  <2>3. CASE f \notin Range(g_faults) /\ Len(g_faults) = FaultQueueLen
    <3>1. Len(g_faults) < Cardinality(Fault)
      BY <1>4, <2>3, QueueShorter DEF OnlyRaised
    <3>2. IsFiniteSet(Fault) /\ FaultQueueLen \in Nat
      BY ReportAssumption DEF ReportAssumption
    <3>3. ~ (Cardinality(Fault) <= FaultQueueLen)
      BY <2>3, <3>1, <3>2, FS_CardinalityType
    <3> QED BY <1>1, <2>1, <2>3, <3>3 DEF AbsorbFault, OnlyRaised
  <2>4. CASE f \notin Range(g_faults) /\ Len(g_faults) # FaultQueueLen
    <3>1. g_faults' = Append(g_faults, f)
      BY <2>1, <2>4 DEF AbsorbFault
    <3>2. Range(g_faults') = Range(g_faults) \cup {f}
      BY <1>4, <3>1, RangeOfAppend
    <3>3. Distinct(g_faults')
      BY <1>4, <2>4, <3>1, DistinctKept DEF OnlyRaised
    <3> QED BY <1>1, <3>2, <3>3
  <2> QED BY <2>2, <2>3, <2>4
<1> QED BY <1>3, <1>4

(* The status task before it sends: nothing is in flight. *)
LEMMA QuietStep ==
  ASSUME TypeOK, ReportInv, BeginFlush \/ FlushEnds \/ ConnectFails \/ Connects
  PROVE  ReportInv'
  BY DEF BeginFlush, FlushEnds, ConnectFails, Connects, others, control, pending, link, cc, known,
         ReportInv, Known, OnlyRaised, StillMarked, LaterWaits, HeardInOrder, OneAwaited,
         InFlight, Delivered

(* Time alone changes none of it. *)
LEMMA DeadlineStep ==
  ASSUME TypeOK, ReportInv, DeadlinePasses \/ UNCHANGED vars
  PROVE  ReportInv'
  BY DEF DeadlinePasses, vars, others, control, pending, link, cc, known, ReportInv, Known, OnlyRaised,
         StillMarked, NextFault, LaterWaits, HeardInOrder, OneAwaited, InFlight, Delivered

LEMMA AbsorbStep ==
  ASSUME TypeOK, ReportInv, AbsorbPulse
  PROVE  ReportInv'
<1> USE DEF others, control, link, cc, known
<1>1. Known' /\ OneAwaited'
  BY DEF AbsorbPulse, ReportInv, Known, OneAwaited
<1>2. OnlyRaised'
  BY AbsorbMoves DEF AbsorbPulse, ReportInv, OnlyRaised
<1>3. ~InFlight' /\ ~Delivered'
  BY DEF AbsorbPulse, InFlight, Delivered
<1> QED BY <1>1, <1>2, <1>3 DEF ReportInv, StillMarked, LaterWaits, HeardInOrder

(* A snapshot is no older than anything notified or heard. *)
LEMMA FillStep ==
  ASSUME TypeOK, ReportInv, FillSnapshot
  PROVE  ReportInv'
<1> USE DEF others, control, pending, link, cc, known
<1>1. report'.fault = NextFault /\ report'.version = version
  BY DEF FillSnapshot
<1>2. Known' /\ OnlyRaised'
  BY <1>1 DEF FillSnapshot, ReportInv, Known, OnlyRaised, TypeOK
<1>3. StillMarked'
  <2>1. CASE g_faults # <<>>
    <3>1. NextFault \in Fault /\ None \notin Fault
      BY <2>1, RangeOfTail, ReportAssumption DEF NextFault, TypeOK, ReportAssumption
    <3> QED BY <1>1, <3>1 DEF FillSnapshot, StillMarked, NextFault
  <2>2. CASE g_faults = <<>>
    BY <1>1, <2>2 DEF FillSnapshot, ReportPending, StillMarked, NextFault
  <2> QED BY <2>1, <2>2
<1>4. LaterWaits'
  BY <1>1 DEF FillSnapshot, LaterWaits, ReportInv, Known, TypeOK
<1>5. HeardInOrder' /\ OneAwaited'
  BY <1>1 DEF FillSnapshot, ReportInv, Known, HeardInOrder, OneAwaited, Delivered, TypeOK
<1> QED BY <1>2, <1>3, <1>4, <1>5 DEF ReportInv

(* The answer takes the report's mark, and nobody else's. *)
LEMMA SuccessStep ==
  ASSUME TypeOK, ReportInv, SendSucceeds
  PROVE  ReportInv'
<1> USE DEF others, control, cc, known
<1>1. Known' /\ OneAwaited'
  BY DEF SendSucceeds, Blank, ReportInv, Known, OneAwaited, TypeOK
<1>2. ~InFlight' /\ ~Delivered'
  BY DEF SendSucceeds, InFlight, Delivered
<1>3. OnlyRaised'
  <2>1. CASE report.fault = None
    BY <2>1 DEF SendSucceeds, ReportInv, OnlyRaised
  <2>2. CASE report.fault # None
    <3>1. g_faults # <<>> /\ g_faults' = Tail(g_faults)
      BY <2>2 DEF SendSucceeds, ReportInv, StillMarked, InFlight, NextFault
    <3>2. Distinct(g_faults') /\ Range(g_faults') \subseteq Range(g_faults)
      BY <3>1, DistinctKept, RangeOfTail DEF ReportInv, OnlyRaised, TypeOK
    <3> QED BY <3>2 DEF SendSucceeds, ReportInv, OnlyRaised
  <2> QED BY <2>1, <2>2
<1> QED BY <1>1, <1>2, <1>3 DEF ReportInv, StillMarked, LaterWaits, HeardInOrder

(* A failed send leaves the marks, and no worker has its caller any more.  *)
LEMMA FailStep ==
  ASSUME TypeOK, ReportInv, SendFails
  PROVE  ReportInv'
<1> USE DEF control, pending, known
<1>1. Known' /\ OnlyRaised'
  BY DEF SendFails, Blank, ReportInv, Known, OnlyRaised, TypeOK
<1>2. ~InFlight' /\ ~Delivered'
  BY DEF SendFails, InFlight, Delivered
<1>3. \A w \in Worker : ~ job'[w].awaited
  BY DEF SendFails, TypeOK
<1> QED BY <1>1, <1>2, <1>3 DEF ReportInv, StillMarked, LaterWaits, HeardInOrder, OneAwaited

(* A worker takes the report of the call that waits. *)
LEMMA ReceiveStep ==
  ASSUME TypeOK, ReportInv, NEW w \in Worker, Receive(w)
  PROVE  ReportInv'
<1> USE DEF lc, control, pending, link, table, known
<1>1. Known' /\ OnlyRaised' /\ StillMarked' /\ LaterWaits'
  BY DEF Receive, ReportInv, Known, OnlyRaised, StillMarked, NextFault, LaterWaits, InFlight
<1>2. HeardInOrder'
  BY DEF Receive, ReportInv, HeardInOrder, InFlight, Delivered, TypeOK, Report
<1>3. \A v \in Worker : job[v].awaited = FALSE
  BY DEF Receive, ReportInv, OneAwaited, TypeOK
<1>4. OneAwaited'
  BY <1>3 DEF Receive, OneAwaited, TypeOK
<1> QED BY <1>1, <1>2, <1>4 DEF ReportInv

LEMMA ReplyStep ==
  ASSUME TypeOK, ReportInv, NEW w \in Worker, Reply(w)
  PROVE  ReportInv'
<1> USE DEF lc, control, pending, link, table, known
<1>1. at' \in {at, "answered"} /\ (at' # at => at = "served")
  BY DEF Reply, ReportInv, OneAwaited
<1>2. Known' /\ OnlyRaised' /\ StillMarked' /\ LaterWaits' /\ HeardInOrder'
  BY <1>1 DEF Reply, ReportInv, Known, OnlyRaised, StillMarked, NextFault, LaterWaits,
              HeardInOrder, InFlight, Delivered
<1>3. \A v \in Worker : job'[v].awaited => v # w /\ job'[v] = job[v]
  BY DEF Reply, TypeOK
<1>4. OneAwaited'
  BY <1>1, <1>3 DEF Reply, ReportInv, OneAwaited, TypeOK
<1> QED BY <1>2, <1>4 DEF ReportInv

(* Recording, a full table and the CC's start and stop: no call gets an    *)
(* answer by them.                                                         *)
LEMMA RecordStep ==
  ASSUME TypeOK, ReportInv,
         (\E w \in Worker : RecordReport(w)) \/ OthersFillTable \/ CcStarts \/ CcStops
  PROVE  ReportInv'
<1> USE DEF lc, control, pending, link, table, known
<1>1. UNCHANGED <<control, pulses, pending, at, report, heard, alarmed>>
  BY DEF RecordReport, OthersFillTable, CcStarts, CcStops
<1>2. \A v \in Worker : job'[v].awaited => job'[v] = job[v]
  BY DEF RecordReport, OthersFillTable, CcStarts, CcStops, Forget, IdleJob, TypeOK
<1>3. OneAwaited'
  BY <1>1, <1>2 DEF ReportInv, OneAwaited
<1> QED BY <1>1, <1>3 DEF ReportInv, Known, OnlyRaised, StillMarked, NextFault, LaterWaits,
                          HeardInOrder, InFlight, Delivered

LEMMA InvStep ==
  ASSUME TypeOK, ReportInv, [Next]_vars
  PROVE  ReportInv'
  BY ControllerStep, QuietStep, DeadlineStep, AbsorbStep, FillStep, SuccessStep, FailStep,
     ReceiveStep, ReplyStep, RecordStep DEF Next, StatusTask, CommWorker

LEMMA InvInit ==
  ASSUME Init
  PROVE  TypeOK /\ ReportInv
<1>1. TypeOK
  <2>1. todo \in Seq(Op) /\ pulses \in Seq({"notify"} \cup Fault)
        /\ g_faults \in Seq(Fault) /\ Len(g_faults) = 0
    BY DEF Init, Op
  <2>2. /\ 0 <= FaultQueueLen /\ g_retry_counter \in 0..(StatusMaxRetry - 1)
        /\ g_cc_coid \in 0..cc_run /\ cc_run \in 0..MaxRuns
    BY ReportAssumption DEF Init, ReportAssumption
  <2>3. Blank \in Report
    BY DEF Blank, Report
  <2> QED BY <2>1, <2>2, <2>3 DEF Init, TypeOK, IdleJob
<1>2. Range(pulses) = {} /\ Range(g_faults) = {}
  BY DEF Init, Range
<1> QED BY <1>1, <1>2 DEF Init, ReportInv, Known, OnlyRaised, Distinct, StillMarked, LaterWaits,
                          HeardInOrder, OneAwaited, InFlight, Delivered, Blank, IdleJob

(* status_report.c and comm_worker() keep what ReportInv says of them.     *)
THEOREM ReportInvariant == Spec => [](TypeOK /\ ReportInv)
<1>1. Init => TypeOK /\ ReportInv
  BY InvInit
<1>2. TypeOK /\ ReportInv /\ [Next]_vars => TypeOK' /\ ReportInv'
  BY TypeStep, InvStep
<1> QED BY <1>1, <1>2, PTL DEF Spec

------------------------------------------------------------------------------
(* What the invariant buys *)

(* No variable leaves its range: the fault queue and the retry counter of  *)
(* status_report.c stay within their limits.                               *)
THEOREM ReportTypes == Spec => []TypeOK
  BY ReportInvariant, PTL

(* What a step does to heard, and to the marks while nothing is delivered. *)
LEMMA PendingStep ==
  ASSUME TypeOK, ReportInv, ChangesStayPending, [Next]_vars
  PROVE  ChangesStayPending'
<1> USE DEF ChangesStayPending, ReportPending
<1>1. CASE (\E h \in Handlers : BeginHandler(h)) \/ WriteState \/ UNCHANGED vars
  BY <1>1 DEF BeginHandler, WriteState, rest, pending, vars, control, known
<1>2. CASE NotifyStatus \/ \E f \in Fault : NotifyFault(f)
  BY <1>2, PulseSent DEF NotifyStatus, NotifyFault, rest, pending, known
<1>3. CASE BeginFlush \/ FlushEnds \/ ConnectFails \/ DeadlinePasses
           \/ FillSnapshot \/ SendFails
  BY <1>3 DEF BeginFlush, FlushEnds, ConnectFails, DeadlinePasses, FillSnapshot,
              SendFails, others, control, pending, known
<1>4. CASE Connects
  BY <1>4 DEF Connects, others, control, known
<1>5. CASE AbsorbPulse
  <2>1. CASE Head(pulses) \in Fault
    <3>1. AbsorbFault(Head(pulses)) /\ FaultQueueLen \in Nat \ {0}
      BY <1>5, <2>1, ReportAssumption DEF AbsorbPulse, ReportAssumption
    <3>2. Append(g_faults, Head(pulses)) # <<>>
      BY <2>1, RangeOfAppend DEF TypeOK
    <3>3. CASE Len(g_faults) = FaultQueueLen
      BY <3>1, <3>3, EmptySeq DEF AbsorbFault, TypeOK
    <3>4. CASE Head(pulses) \in Range(g_faults)
      BY <3>1, <3>4 DEF AbsorbFault, Range
    <3> QED BY <3>1, <3>2, <3>3, <3>4 DEF AbsorbFault
  <2>2. CASE Head(pulses) \notin Fault
    BY <1>5, <2>2 DEF AbsorbPulse, AbsorbStatus
  <2> QED BY <2>1, <2>2
<1>6. CASE SendSucceeds
  BY <1>6 DEF SendSucceeds, ReportInv, LaterWaits, HeardInOrder, InFlight, Delivered, others,
              control, known
<1>7. ASSUME NEW w \in Worker, Receive(w) PROVE ChangesStayPending'
  BY <1>7 DEF Receive, ReportInv, LaterWaits, InFlight, lc, control, pending
<1>8. CASE (\E w \in Worker : Reply(w) \/ RecordReport(w)) \/ OthersFillTable
           \/ CcStarts \/ CcStops
  BY <1>8 DEF Reply, RecordReport, OthersFillTable, CcStarts, CcStops, known, lc, control, pending
<1> QED BY <1>1, <1>2, <1>3, <1>4, <1>5, <1>6, <1>7, <1>8
        DEF Next, Controller, StatusTask, CommWorker

(* A notified state that no worker of the CC has received is on its way:   *)
(* notify_status(), absorb_pulse(), flush_reports().                       *)
THEOREM ChangesAreKept == Spec => []ChangesStayPending
<1>1. Init => ChangesStayPending
  BY DEF Init, ChangesStayPending
<1>2. TypeOK /\ ReportInv /\ ChangesStayPending /\ [Next]_vars => ChangesStayPending'
  BY PendingStep
<1> QED BY <1>1, <1>2, ReportInvariant, PTL DEF Spec

(* A step that leaves the queues of faults alone, or only moves or adds to *)
(* them, loses no alarm.                                                   *)
LEMMA AlarmStep ==
  ASSUME TypeOK, ReportInv, AlarmsStayQueued, [Next]_vars
  PROVE  AlarmsStayQueued'
<1> SUFFICES ASSUME Cardinality(Fault) <= FaultQueueLen, NEW f \in Fault
             PROVE  AlarmKept(f)'
  BY DEF AlarmsStayQueued
<1>0. AlarmKept(f)
  BY DEF AlarmsStayQueued
<1> USE DEF AlarmKept
<1>1. CASE (\E h \in Handlers : BeginHandler(h)) \/ WriteState \/ UNCHANGED vars
  BY <1>0, <1>1 DEF BeginHandler, WriteState, rest, pending, vars, control, known
<1>2. CASE NotifyStatus
  BY <1>0, <1>2, PulseSent DEF NotifyStatus, rest, pending, known
<1>3. ASSUME NEW g \in Fault, NotifyFault(g) PROVE AlarmKept(f)'
  <2>1. Range(pulses') = Range(pulses) \cup {g}
    BY <1>3, PulseSent DEF NotifyFault
  <2> QED BY <1>0, <1>3, <2>1 DEF NotifyFault, rest, pending, known, TypeOK
<1>4. CASE BeginFlush \/ FlushEnds \/ ConnectFails \/ DeadlinePasses
           \/ FillSnapshot \/ SendFails \/ Connects
  BY <1>0, <1>4 DEF BeginFlush, FlushEnds, ConnectFails, DeadlinePasses,
                    FillSnapshot, SendFails, Connects, others, control, known, pending
<1>5. CASE AbsorbPulse
  BY <1>0, <1>5, AbsorbMoves DEF AbsorbPulse, others, control, known, ReportInv
<1>6. CASE SendSucceeds
  <2>1. CASE report.fault = None
    BY <1>0, <1>6, <2>1 DEF SendSucceeds, others, control, known
  <2>2. CASE report.fault # None
    <3>1. g_faults # <<>> /\ report.fault = Head(g_faults) /\ g_faults' = Tail(g_faults)
      BY <1>6, <2>2 DEF SendSucceeds, ReportInv, StillMarked, InFlight, NextFault
    <3>2. Range(g_faults) = {report.fault} \cup Range(g_faults')
      BY <3>1, RangeOfTail DEF TypeOK
    <3>3. alarmed[report.fault] = report.version
          /\ (report.version < raised[f] => f \in Range(pulses))
      BY <1>6, <2>2 DEF SendSucceeds, ReportInv, HeardInOrder, LaterWaits, InFlight, Delivered
    <3> QED BY <1>0, <1>6, <3>2, <3>3 DEF SendSucceeds, others, control, known
  <2> QED BY <2>1, <2>2
<1>7. ASSUME NEW w \in Worker, Receive(w) PROVE AlarmKept(f)'
  <2>1. report.version < raised[f] => f \in Range(pulses)
    BY <1>7 DEF Receive, ReportInv, LaterWaits, InFlight
  <2>2. alarmed'[f] = IF f = report.fault THEN report.version ELSE alarmed[f]
    BY <1>7 DEF Receive
  <2> QED BY <1>0, <1>7, <2>1, <2>2 DEF Receive, lc, control, pending
<1>8. CASE (\E w \in Worker : Reply(w) \/ RecordReport(w)) \/ OthersFillTable
           \/ CcStarts \/ CcStops
  BY <1>0, <1>8 DEF Reply, RecordReport, OthersFillTable, CcStarts, CcStops, known, lc, control, pending
<1> QED BY <1>1, <1>2, <1>3, <1>4, <1>5, <1>6, <1>7, <1>8
        DEF Next, Controller, StatusTask, CommWorker

(* "Each distinct fault is kept until delivered" (status_report.c), when   *)
(* FAULT_QUEUE_LEN is enough for all there are.                            *)
THEOREM AlarmsAreKept == Spec => []AlarmsStayQueued
<1>1. Init => AlarmsStayQueued
  BY DEF Init, AlarmsStayQueued, AlarmKept
<1>2. TypeOK /\ ReportInv /\ AlarmsStayQueued /\ [Next]_vars => AlarmsStayQueued'
  BY AlarmStep
<1> QED BY <1>1, <1>2, ReportInvariant, PTL DEF Spec

------------------------------------------------------------------------------
(* The status path implements StateReporting. *)

(* Every step is a step of the promise or leaves its state alone.          *)
LEMMA PromiseStep ==
  ASSUME TypeOK, ReportInv, [Next]_vars
  PROVE  [Promise!Next]_(Promise!state)
<1> USE DEF Promise!state
<1>1. CASE WriteState
  BY <1>1 DEF WriteState, rest, known, Promise!Next, Promise!Change
<1>2. CASE NotifyStatus
  BY <1>2 DEF NotifyStatus, rest, known, Promise!Next, Promise!Tell
<1>3. ASSUME NEW f \in Fault, NotifyFault(f) PROVE Promise!Next
  BY <1>3 DEF NotifyFault, rest, known, Promise!Next, Promise!Tell
<1>4. ASSUME NEW w \in Worker, Receive(w) PROVE Promise!Next
  <2>1. heard' = report.version /\ heard' \in heard..version
    BY <1>4 DEF Receive, ReportInv, Known, HeardInOrder, InFlight, TypeOK, Report
  <2>2. CASE report.fault \notin Fault
    <3>1. alarmed' = alarmed
      BY <1>4, <2>2 DEF Receive, TypeOK
    <3> QED BY <1>4, <2>1, <3>1 DEF Receive, lc, control, Promise!Next, Promise!Learn
  <2>3. CASE report.fault \in Fault
    <3> DEFINE f == report.fault
    <3>1. g_faults # <<>> /\ f = Head(g_faults)
      BY <1>4, <2>3, ReportAssumption
         DEF Receive, ReportInv, StillMarked, InFlight, NextFault, ReportAssumption
    <3>2. 0 < raised[f]
      BY <2>3, <3>1, RangeOfTail DEF ReportInv, OnlyRaised, TypeOK
    <3>3. alarmed' = [alarmed EXCEPT ![f] = heard']
      BY <1>4, <2>1 DEF Receive, TypeOK
    <3>4. Promise!LearnFault(f)
      BY <1>4, <2>1, <3>2, <3>3 DEF Receive, lc, control, Promise!LearnFault
    <3> QED BY <2>3, <3>4 DEF Promise!Next
  <2> QED BY <2>2, <2>3
<1>5. CASE UNCHANGED <<control, heard, alarmed>>
  BY <1>5 DEF control
<1>6. CASE StatusTask \/ DeadlinePasses
  BY <1>5, <1>6 DEF StatusTask, DeadlinePasses, AbsorbPulse, BeginFlush, ConnectFails,
                    Connects, FillSnapshot, FlushEnds, SendSucceeds, SendFails, others, known
<1>7. CASE (\E w \in Worker : Reply(w) \/ RecordReport(w)) \/ OthersFillTable
           \/ CcStarts \/ CcStops \/ UNCHANGED vars
  BY <1>5, <1>7 DEF Reply, RecordReport, OthersFillTable, CcStarts, CcStops, known, lc, vars
<1>8. CASE \E h \in Handlers : BeginHandler(h)
  BY <1>8 DEF BeginHandler, rest, known
<1> QED BY <1>1, <1>2, <1>3, <1>4, <1>6, <1>7, <1>8 DEF Next, Controller, CommWorker

(* What the CC is sent are true states in their order, and alarms of       *)
(* faults that were raised.                                                *)
THEOREM PromiseKept == Spec => KeepsPromise
<1>1. Init => Promise!Init
  BY DEF Init, Promise!Init
<1>2. TypeOK /\ ReportInv /\ [Next]_vars => [Promise!Next]_(Promise!state)
  BY PromiseStep
<1> QED BY <1>1, <1>2, ReportInvariant, PTL DEF Spec, KeepsPromise, Promise!Spec

------------------------------------------------------------------------------
(* The record is the last report, unless that report was overtaken *)

AllIdle == \A w \in Worker : ~Busy(w)

(* Unless the last report found another worker busy: every worker that has *)
(* a report has that one, and what a CC at the other end of the connection *)
(* lacks of it, a worker is about to record or the LC has marked unsent.   *)
(* For a CC started anew gets a new connection, which marks the state, and *)
(* an answer, which clears the mark, was given by a worker that then       *)
(* records.                                                                *)
RecordInv ==
  /\ cc_up => 1 <= cc_run
  /\ ~cc_up => AllIdle
  /\ at = "start" => heard = 0 /\ record = 0 /\ AllIdle
  /\ ~overtaking =>
       /\ \A w \in Worker : Busy(w) => job[w].rep.version = heard
       /\ Connected /\ ~g_lc_full =>
            /\ AllIdle => record = heard \/ g_status_dirty
            /\ at = "answered" => record = heard \/ ~AllIdle

(* Steps that leave the workers, the connection and the record alone, and  *)
(* clear no mark.                                                          *)
LEMMA RecordUntouched ==
  ASSUME TypeOK, RecordInv, Controller \/ DeadlinePasses \/ AbsorbPulse \/ BeginFlush
           \/ ConnectFails \/ FillSnapshot \/ FlushEnds \/ UNCHANGED vars
  PROVE  RecordInv'
<1>1. UNCHANGED <<cc_up, cc_run, job, record, g_lc_full, heard, overtaking, g_cc_coid>>
  BY DEF Controller, BeginHandler, WriteState, NotifyStatus, NotifyFault, DeadlinePasses,
         AbsorbPulse, BeginFlush, ConnectFails, FillSnapshot, FlushEnds, vars, others, cc, known,
         rest, link
<1>2. /\ g_status_dirty => g_status_dirty'
      /\ at' \in {"start", "answered"} => at' = at
  BY DEF Controller, BeginHandler, WriteState, NotifyStatus, NotifyFault, DeadlinePasses,
         AbsorbPulse, AbsorbFault, AbsorbStatus, BeginFlush, ConnectFails, FillSnapshot, FlushEnds,
         vars, pending, rest
<1>3. (Connected <=> Connected') /\ (AllIdle <=> AllIdle') /\ \A w \in Worker : Busy(w) <=> Busy(w)'
  BY <1>1 DEF Connected, AllIdle, Busy
<1> QED BY <1>1, <1>2, <1>3 DEF RecordInv

(* A reconnect marks the state unsent; before the first connection there   *)
(* is nothing to send.                                                     *)
LEMMA RecordConnects ==
  ASSUME TypeOK, RecordInv, Connects
  PROVE  RecordInv'
<1>1. /\ UNCHANGED <<cc_up, cc_run, job, record, g_lc_full, heard, overtaking>>
      /\ at' \in {"wait", "flush"}
  BY DEF Connects, others, cc, known
<1>2. at = "start" \/ g_status_dirty'
  BY DEF Connects
<1>3. (AllIdle <=> AllIdle') /\ \A w \in Worker : Busy(w) <=> Busy(w)'
  BY <1>1 DEF AllIdle, Busy
<1> QED BY <1>1, <1>2, <1>3 DEF RecordInv

(* The end of a send, by the answer or without it. *)
LEMMA RecordSent ==
  ASSUME TypeOK, RecordInv, SendSucceeds \/ SendFails
  PROVE  RecordInv'
<1>1. /\ UNCHANGED <<cc_up, cc_run, record, g_lc_full, heard, overtaking>>
      /\ at' \in {"flush", "wait"} /\ g_cc_coid' \in {0, g_cc_coid}
  BY DEF SendSucceeds, SendFails, RetryLater, DropConnection, others, cc, known
<1>2. \A w \in Worker : job'[w].at = job[w].at /\ job'[w].rep = job[w].rep
  BY DEF SendSucceeds, SendFails, others, cc, TypeOK
<1>3. (AllIdle <=> AllIdle') /\ \A w \in Worker : Busy(w) <=> Busy(w)'
  BY <1>2 DEF AllIdle, Busy
<1>4. Connected' => Connected
  BY <1>1 DEF Connected, RecordInv, TypeOK
<1>5. at = "answered" \/ g_status_dirty' = g_status_dirty
  BY DEF SendSucceeds, SendFails, pending
<1> QED BY <1>1, <1>2, <1>3, <1>4, <1>5 DEF RecordInv

(* A worker that takes a report while all are idle is the only one to have *)
(* any.                                                                    *)
LEMMA RecordReceives ==
  ASSUME TypeOK, RecordInv, NEW w \in Worker, Receive(w)
  PROVE  RecordInv'
<1>1. /\ UNCHANGED <<cc_up, cc_run, record, g_lc_full>> /\ cc_up
      /\ at' = "served" /\ heard' = report.version
      /\ ~overtaking' => AllIdle
  BY DEF Receive, Connected, table, AllIdle
<1>2. /\ job'[w].at = "received" /\ job'[w].rep = report
      /\ \A v \in Worker : v # w => job'[v] = job[v]
  BY DEF Receive, TypeOK
<1>3. ~overtaking' => \A v \in Worker : Busy(v)' => v = w
  BY <1>1, <1>2 DEF AllIdle, Busy
<1>4. ~AllIdle'
  BY <1>2 DEF AllIdle, Busy
<1> QED BY <1>1, <1>2, <1>3, <1>4 DEF RecordInv

LEMMA RecordReplies ==
  ASSUME TypeOK, RecordInv, NEW w \in Worker, Reply(w)
  PROVE  RecordInv'
<1>1. /\ UNCHANGED <<cc_up, cc_run, record, g_lc_full, heard, overtaking>>
      /\ at' \in {at, "answered"}
  BY DEF Reply, known, table
<1>2. \A v \in Worker : (Busy(v) <=> Busy(v)') /\ job'[v].rep = job[v].rep
  BY DEF Reply, Busy, TypeOK
<1>3. ~AllIdle /\ ~AllIdle'
  BY <1>2 DEF AllIdle, Busy, Reply
<1> QED BY <1>1, <1>2, <1>3 DEF RecordInv

LEMMA RecordRecords ==
  ASSUME TypeOK, RecordInv, NEW w \in Worker, RecordReport(w)
  PROVE  RecordInv'
<1>1. UNCHANGED <<cc_up, cc_run, g_lc_full, heard, overtaking, at>>
  BY DEF RecordReport, known
<1>2. ~overtaking /\ ~g_lc_full => record' = heard
  BY DEF RecordReport, RecordInv, Busy
<1>3. \A v \in Worker : Busy(v)' => Busy(v) /\ job'[v] = job[v]
  BY DEF RecordReport, Busy, IdleJob, TypeOK
<1>4. cc_up /\ at # "start"
  BY DEF RecordReport, RecordInv, AllIdle, Busy
<1> QED BY <1>1, <1>2, <1>3, <1>4 DEF RecordInv

(* A CC that starts has no connection yet; one that stops has no workers.  *)
LEMMA RecordRestarts ==
  ASSUME TypeOK, RecordInv, CcStarts \/ CcStops
  PROVE  RecordInv'
<1>1. UNCHANGED <<at, heard, g_cc_coid>>
  BY DEF CcStarts, CcStops, lc, link, known
<1>2. ~Connected'
  BY <1>1 DEF CcStarts, CcStops, Connected, TypeOK
<1>3. cc_up' => 1 <= cc_run'
  BY DEF CcStarts, CcStops, TypeOK
<1>4. CASE CcStarts
  <2>1. UNCHANGED <<job, record>> /\ ~cc_up
    BY <1>4 DEF CcStarts, table
  <2>2. AllIdle /\ AllIdle'
    BY <2>1 DEF RecordInv, AllIdle, Busy
  <2> QED BY <1>1, <1>2, <1>3, <2>1, <2>2 DEF RecordInv, AllIdle
<1>5. CASE CcStops
  <2>1. AllIdle' /\ record' = 0
    BY <1>5 DEF CcStops, Forget, AllIdle, Busy, IdleJob
  <2> QED BY <1>1, <1>2, <1>3, <2>1 DEF RecordInv, AllIdle
<1> QED BY <1>4, <1>5

(* A full table asks nothing more of the record. *)
LEMMA RecordTableFills ==
  ASSUME TypeOK, RecordInv, OthersFillTable
  PROVE  RecordInv'
<1>1. UNCHANGED <<at, cc_up, cc_run, job, record, heard, overtaking>> /\ g_lc_full'
  BY DEF OthersFillTable, known
<1>2. (AllIdle <=> AllIdle') /\ \A w \in Worker : Busy(w) <=> Busy(w)'
  BY <1>1 DEF AllIdle, Busy
<1> QED BY <1>1, <1>2 DEF RecordInv

LEMMA RecordInvStep ==
  ASSUME TypeOK, RecordInv, [Next]_vars
  PROVE  RecordInv'
  BY RecordUntouched, RecordConnects, RecordSent, RecordReceives, RecordReplies, RecordRecords,
     RecordRestarts, RecordTableFills DEF Next, StatusTask, CommWorker

(* When nothing is pending on either side the CC's record of the LC is the *)
(* last report it received (comm_worker()), unless another worker had a    *)
(* report of the LC when it came: for any number of workers, whatever the  *)
(* network loses and delays and however often the CC is started.           *)
THEOREM RecordIsLastUnlessOvertaken == Spec => []RecordLastOrOvertaken
<1>1. Init => RecordInv
  BY DEF Init, RecordInv, AllIdle, Busy, IdleJob, Connected
<1>2. TypeOK /\ RecordInv /\ [Next]_vars => RecordInv'
  BY RecordInvStep
<1>3. RecordInv => RecordLastOrOvertaken
  BY DEF RecordInv, RecordLastOrOvertaken, Settled, ReportPending, AllIdle, Busy, IdleJob
<1> QED BY <1>1, <1>2, <1>3, ReportTypes, PTL DEF Spec
================================================================================
