-------------------------- MODULE CommandPath_proofs ---------------------------
(***************************************************************************)
(* Proofs about CommandPathProps, for any intersections, queue length,     *)
(* number of attempts, of commands and of restarts.                        *)
(***************************************************************************)
EXTENDS CommandPathProps, TLAPS

------------------------------------------------------------------------------
(* Jobs and slots *)

(* A job carries one command. *)
LEMMA JobHas ==
  ASSUME NEW job \in Job
  PROVE  /\ job.cmd \in Command /\ job.cmd.kind \in Kind /\ job.cmd.id \in Id
         /\ job.cmd.seq \in Nat /\ job.attempts \in 0..CmdMaxAttempts
  BY DEF Job, Command

(* So do an LC and its history. *)
LEMMA LcHas ==
  ASSUME TypeOK
  PROVE  /\ \A id \in Id : \A c \in inbox[id] :
              c \in Command /\ c.kind \in Kind /\ c.id \in Id /\ c.seq \in Nat
         /\ \A id \in Id, k \in Kind : latched[id][k] \in Nat
         /\ \A i \in DOMAIN g_cmdq : g_cmdq[i] \in Job
         /\ \A job \in held : job \in Job
         /\ g_seq_no \in Nat
<1>1. \A c \in Command : c.kind \in Kind /\ c.id \in Id /\ c.seq \in Nat
  BY DEF Command
<1> QED BY <1>1 DEF TypeOK

(* What the worker changes in a job leaves its command alone. *)
LEMMA JobChanges ==
  ASSUME NEW job \in Job, NEW w \in {"none", "running", "over"}
  PROVE  /\ [job EXCEPT !.wait = w] \in Job
         /\ [job EXCEPT !.wait = w].cmd = job.cmd
         /\ [job EXCEPT !.wait = w].attempts = job.attempts
         /\ job.attempts < CmdMaxAttempts => Sending(job) \in Job
         /\ Sending(job).cmd = job.cmd
<1>1. job = [cmd |-> job.cmd, attempts |-> job.attempts, wait |-> job.wait]
      /\ job.cmd \in Command /\ job.attempts \in 0..CmdMaxAttempts
      /\ job.wait \in {"none", "running", "over"}
  BY DEF Job
<1>2. [job EXCEPT !.wait = w] = [cmd |-> job.cmd, attempts |-> job.attempts, wait |-> w]
  BY <1>1
<1>3. Sending(job) = [cmd |-> job.cmd, attempts |-> job.attempts + 1, wait |-> "none"]
  BY DEF Sending
<1>4. job.attempts < CmdMaxAttempts => job.attempts + 1 \in 0..CmdMaxAttempts
  BY <1>1, PathAssumption DEF PathAssumption
<1> QED BY <1>1, <1>2, <1>3, <1>4 DEF Job

(* A new job has not been sent. *)
LEMMA FreshJob ==
  ASSUME NEW c \in Command
  PROVE  Fresh(c) \in Job /\ Fresh(c).cmd = c /\ Fresh(c).attempts = 0
  BY PathAssumption DEF PathAssumption, Job, Fresh

(* Filling slot i changes no other slot. *)
LEMMA SlotFilled ==
  ASSUME NEW i, NEW job, Put(i, job)
  PROVE  /\ DOMAIN g_cmdq' = DOMAIN g_cmdq \cup {i}
         /\ g_cmdq'[i] = job
         /\ \A j \in DOMAIN g_cmdq \ {i} : g_cmdq'[j] = g_cmdq[j]
  BY DEF Put

(* Emptying slot i changes no other slot. *)
LEMMA SlotEmptied ==
  ASSUME NEW i, Remove(i)
  PROVE  /\ DOMAIN g_cmdq' = DOMAIN g_cmdq \ {i}
         /\ \A j \in DOMAIN g_cmdq' : g_cmdq'[j] = g_cmdq[j]
  BY DEF Remove

(* A command whose number has been given gets its outcome. *)
LEMMA Settled ==
  ASSUME outcome \in [1..MaxSeq -> Outcome], NEW s \in 1..MaxSeq, NEW how \in Outcome,
         Settle(s, how)
  PROVE  /\ outcome' \in [1..MaxSeq -> Outcome]
         /\ outcome'[s] = how
         /\ \A t \in 1..MaxSeq : t # s => outcome'[t] = outcome[t]
  BY DEF Settle

------------------------------------------------------------------------------
(* The worker *)

(* The invariant holds when the CC starts. *)
LEMMA PathInvInit == Init => PathInv
<1> SUFFICES ASSUME Init PROVE PathInv
  OBVIOUS
<1> USE PathAssumption DEF PathAssumption, Init
<1>1. TypeOK
  <2>1. DOMAIN g_cmdq = {}
    BY DEF Init
  <2>2. g_seq_no \in 1..(MaxSeq + 1)
    BY DEF PathAssumption
  <2>7. /\ worker = "idle" /\ held \subseteq Job /\ node_known \in BOOLEAN
        /\ tracked \subseteq Id /\ link_seen \in [Id -> BOOLEAN]
    OBVIOUS
  <2>3. override_coid \in [Id -> 0..MaxStarts] /\ lc_starts \in [Id -> 0..MaxStarts]
    BY DEF PathAssumption
  <2>4. lc_up \in [Id -> BOOLEAN] /\ inbox \in [Id -> SUBSET Command]
    OBVIOUS
  <2>5. latched \in [Id -> [Kind -> Nat]]
    OBVIOUS
  <2>6. outcome \in [1..MaxSeq -> Outcome] /\ applied \subseteq Nat
    BY DEF Outcome
  <2> QED BY <2>1, <2>2, <2>3, <2>4, <2>5, <2>6, <2>7 DEF TypeOK
<1>2. WorkersJob /\ AllGiven /\ InOnePlace /\ EffectOfStage
  BY DEF WorkersJob, AllGiven, InOnePlace, EffectOfStage
<1>3. NewestWaits /\ OldestAhead
  BY DEF NewestWaits, OldestAhead
<1>4. OpenIsPending
  BY DEF OpenIsPending, Pending
<1>5. OutcomesAreTrue
  BY DEF OutcomesAreTrue
<1> QED BY <1>1, <1>2, <1>3, <1>4, <1>5 DEF PathInv

(* Taking a job from the queue. *)
LEMMA DequeueKeeps ==
  ASSUME PathInv, NEW i \in DOMAIN g_cmdq, Dequeue(i)
  PROVE  PathInv'
<1> USE DEF PathInv
<1>1. /\ DOMAIN g_cmdq' = DOMAIN g_cmdq \ {i}
      /\ \A j \in DOMAIN g_cmdq' : g_cmdq'[j] = g_cmdq[j]
  BY SlotEmptied DEF Dequeue
<1>2. /\ worker = "idle" /\ worker' = "connecting" /\ held = {} /\ held' = {g_cmdq[i]}
      /\ UNCHANGED <<g_seq_no, node_known, tracked, link_seen, override_coid, lc_up,
                     lc_starts, inbox, latched, applied, outcome>>
  BY DEF Dequeue, WorkersJob, records, lcs
<1>3. TypeOK'
  BY <1>1, <1>2 DEF TypeOK
<1>4. WorkersJob'
  BY <1>1, <1>2 DEF WorkersJob
<1>5. AllGiven'
  BY <1>1, <1>2 DEF AllGiven, Given
<1>6. InOnePlace'
  BY <1>1, <1>2 DEF InOnePlace
<1>7. EffectOfStage'
  BY <1>1, <1>2 DEF EffectOfStage
<1>8. NewestWaits'
  BY <1>1, <1>2, JobHas, LcHas DEF NewestWaits, SameTarget
<1>9. OldestAhead'
  BY <1>1, <1>2, JobHas, LcHas DEF OldestAhead, SameTarget
<1>10. OpenIsPending'
  BY <1>1, <1>2 DEF OpenIsPending, Pending
<1>11. OutcomesAreTrue'
  BY <1>1, <1>2 DEF OutcomesAreTrue
<1> QED BY <1>3, <1>4, <1>5, <1>6, <1>7, <1>8, <1>9, <1>10, <1>11
(* Using the connection there is. *)
LEMMA UseConnectionKeeps ==
  ASSUME PathInv, NEW job \in held, UseConnection(job)
  PROVE  PathInv'
<1> USE DEF PathInv
<1>1. /\ worker = "connecting" /\ worker' = "sending"
      /\ held = {job} /\ held' = {Sending(job)} /\ job \in Job /\ job.attempts < CmdMaxAttempts
      /\ UNCHANGED <<g_seq_no, g_cmdq, node_known, tracked, link_seen, override_coid, lc_up,
                     lc_starts, inbox, latched, applied, outcome>>
  BY LcHas DEF UseConnection, WorkersJob, records, lcs
<1>2. Sending(job) \in Job /\ Sending(job).cmd = job.cmd
  BY <1>1, JobChanges
<1>3. TypeOK'
  BY <1>1, <1>2 DEF TypeOK
<1>4. WorkersJob'
  BY <1>1, <1>2 DEF WorkersJob
<1>5. AllGiven'
  BY <1>1, <1>2 DEF AllGiven, Given
<1>6. InOnePlace'
  BY <1>1, <1>2 DEF InOnePlace
<1>7. EffectOfStage'
  BY <1>1, <1>2 DEF EffectOfStage
<1>8. NewestWaits'
  BY <1>1, <1>2, JobHas, LcHas DEF NewestWaits, SameTarget
<1>9. OldestAhead'
  BY <1>1, <1>2, JobHas, LcHas DEF OldestAhead, SameTarget
<1>10. OpenIsPending'
  BY <1>1, <1>2 DEF OpenIsPending, Pending
<1>11. OutcomesAreTrue'
  BY <1>1, <1>2 DEF OutcomesAreTrue
<1> QED BY <1>3, <1>4, <1>5, <1>6, <1>7, <1>8, <1>9, <1>10, <1>11

(* Reading the record. *)
LEMMA ReadRecordKeeps ==
  ASSUME PathInv, NEW job \in held, ReadRecord(job)
  PROVE  PathInv'
<1> USE DEF PathInv
<1>1. /\ worker = "connecting" /\ worker' = "opening" /\ node_known' = link_seen[job.cmd.id]
      /\ job.cmd.id \in Id
      /\ UNCHANGED <<g_seq_no, g_cmdq, held, tracked, link_seen, override_coid, lc_up,
                     lc_starts, inbox, latched, applied, outcome>>
  BY LcHas, JobHas DEF ReadRecord, records, lcs
<1>2. TypeOK'
  BY <1>1 DEF TypeOK
<1>3. WorkersJob'
  BY <1>1 DEF WorkersJob
<1>4. AllGiven'
  BY <1>1 DEF AllGiven, Given
<1>5. InOnePlace'
  BY <1>1 DEF InOnePlace
<1>6. EffectOfStage'
  BY <1>1 DEF EffectOfStage
<1>7. NewestWaits'
  BY <1>1, JobHas, LcHas DEF NewestWaits, SameTarget
<1>8. OldestAhead'
  BY <1>1, JobHas, LcHas DEF OldestAhead, SameTarget
<1>9. OpenIsPending'
  BY <1>1 DEF OpenIsPending, Pending
<1>10. OutcomesAreTrue'
  BY <1>1 DEF OutcomesAreTrue
<1> QED BY <1>2, <1>3, <1>4, <1>5, <1>6, <1>7, <1>8, <1>9, <1>10

(* Opening a connection. *)
LEMMA OpenKeeps ==
  ASSUME PathInv, NEW job \in held, Open(job)
  PROVE  PathInv'
<1> USE DEF PathInv
<1>1. /\ worker = "opening" /\ worker' = "sending" /\ node_known' = FALSE
      /\ held = {job} /\ held' = {Sending(job)} /\ job \in Job /\ job.attempts < CmdMaxAttempts
      /\ UNCHANGED <<g_seq_no, g_cmdq, tracked, link_seen, lc_up,
                     lc_starts, inbox, latched, applied, outcome>>
  BY LcHas DEF Open, WorkersJob, records, lcs
<1>2. Sending(job) \in Job /\ Sending(job).cmd = job.cmd
  BY <1>1, JobChanges
<1>3. override_coid' \in [Id -> 0..MaxStarts]
  BY JobHas, <1>1 DEF Open, TypeOK
<1>4. TypeOK'
  BY <1>1, <1>2, <1>3 DEF TypeOK
<1>5. WorkersJob'
  BY <1>1, <1>2 DEF WorkersJob
<1>6. AllGiven'
  BY <1>1, <1>2 DEF AllGiven, Given
<1>7. InOnePlace'
  BY <1>1, <1>2 DEF InOnePlace
<1>8. EffectOfStage'
  BY <1>1, <1>2 DEF EffectOfStage
<1>9. NewestWaits'
  BY <1>1, <1>2, JobHas, LcHas DEF NewestWaits, SameTarget
<1>10. OldestAhead'
  BY <1>1, <1>2, JobHas, LcHas DEF OldestAhead, SameTarget
<1>11. OpenIsPending'
  BY <1>1, <1>2 DEF OpenIsPending, Pending
<1>12. OutcomesAreTrue'
  BY <1>1, <1>2 DEF OutcomesAreTrue
<1> QED BY <1>4, <1>5, <1>6, <1>7, <1>8, <1>9, <1>10, <1>11, <1>12

(* No connection: the command is settled. *)
LEMMA CannotOpenKeeps ==
  ASSUME PathInv, NEW job \in held, CannotOpen(job)
  PROVE  PathInv'
<1> USE DEF PathInv
<1>1. /\ worker = "opening" /\ worker' = "idle" /\ node_known' \in BOOLEAN
      /\ held = {job} /\ held' = {} /\ job \in Job
      /\ Settle(job.cmd.seq, "unreachable")
      /\ UNCHANGED <<g_seq_no, g_cmdq, tracked, link_seen, override_coid, lc_up,
                     lc_starts, inbox, latched, applied>>
  BY LcHas DEF CannotOpen, WorkersJob, records, lcs, TypeOK
<1>2. /\ outcome' \in [1..MaxSeq -> Outcome] /\ outcome'[job.cmd.seq] = "unreachable"
      /\ \A t \in 1..MaxSeq : t # job.cmd.seq => outcome'[t] = outcome[t]
      /\ job.cmd.seq \in 1..MaxSeq /\ job.cmd.seq < g_seq_no
  BY <1>1, Settled DEF TypeOK, AllGiven, Given, Outcome
<1>3. override_coid' \in [Id -> 0..MaxStarts]
  BY JobHas, <1>1, PathAssumption DEF CannotOpen, TypeOK, PathAssumption
<1>4. TypeOK'
  BY <1>1, <1>2, <1>3 DEF TypeOK
<1>5. WorkersJob'
  BY <1>1, <1>2 DEF WorkersJob
<1>6. AllGiven'
  BY <1>1, <1>2 DEF AllGiven, Given
<1>7. InOnePlace'
  BY <1>1, <1>2 DEF InOnePlace
<1>8. EffectOfStage'
  BY <1>1, <1>2 DEF EffectOfStage
<1>9. NewestWaits'
  BY <1>1, <1>2, JobHas, LcHas DEF NewestWaits, SameTarget
<1>10. OldestAhead'
  BY <1>1, <1>2, JobHas, LcHas DEF OldestAhead, SameTarget
<1>11. OpenIsPending'
  BY <1>1, <1>2 DEF OpenIsPending, Pending, InOnePlace
<1>12. OutcomesAreTrue'
  BY <1>1, <1>2 DEF OutcomesAreTrue, EffectOfStage, InOnePlace
<1> QED BY <1>4, <1>5, <1>6, <1>7, <1>8, <1>9, <1>10, <1>11, <1>12

(* A failed send: the command is settled. *)
LEMMA SendFailsKeeps ==
  ASSUME PathInv, NEW job \in held, SendFails(job)
  PROVE  PathInv'
<1> USE DEF PathInv
<1>1. /\ worker \in {"sending", "replying"} /\ worker' = "idle" /\ node_known' \in BOOLEAN
      /\ held = {job} /\ held' = {} /\ job \in Job
      /\ Settle(job.cmd.seq, "unknown")
      /\ UNCHANGED <<g_seq_no, g_cmdq, tracked, link_seen, lc_up,
                     lc_starts, inbox, latched, applied>>
  BY LcHas DEF SendFails, WorkersJob, records, lcs, TypeOK
<1>2. /\ outcome' \in [1..MaxSeq -> Outcome] /\ outcome'[job.cmd.seq] = "unknown"
      /\ \A t \in 1..MaxSeq : t # job.cmd.seq => outcome'[t] = outcome[t]
      /\ job.cmd.seq \in 1..MaxSeq /\ job.cmd.seq < g_seq_no
  BY <1>1, Settled DEF TypeOK, AllGiven, Given, Outcome
<1>3. override_coid' \in [Id -> 0..MaxStarts]
  BY JobHas, <1>1, PathAssumption DEF SendFails, TypeOK, PathAssumption
<1>4. TypeOK'
  BY <1>1, <1>2, <1>3 DEF TypeOK
<1>5. WorkersJob'
  BY <1>1, <1>2 DEF WorkersJob
<1>6. AllGiven'
  BY <1>1, <1>2 DEF AllGiven, Given
<1>7. InOnePlace'
  BY <1>1, <1>2 DEF InOnePlace
<1>8. EffectOfStage'
  BY <1>1, <1>2 DEF EffectOfStage
<1>9. NewestWaits'
  BY <1>1, <1>2, JobHas, LcHas DEF NewestWaits, SameTarget
<1>10. OldestAhead'
  BY <1>1, <1>2, JobHas, LcHas DEF OldestAhead, SameTarget
<1>11. OpenIsPending'
  BY <1>1, <1>2 DEF OpenIsPending, Pending, InOnePlace
<1>12. OutcomesAreTrue'
  BY <1>1, <1>2 DEF OutcomesAreTrue, EffectOfStage, InOnePlace
<1> QED BY <1>4, <1>5, <1>6, <1>7, <1>8, <1>9, <1>10, <1>11, <1>12

(* An accepted command is settled. *)
LEMMA TakeAcceptedKeeps ==
  ASSUME PathInv, NEW job \in held, TakeAccepted(job)
  PROVE  PathInv'
<1> USE DEF PathInv
<1>1. /\ worker = "accepted" /\ worker' = "idle" /\ node_known' \in BOOLEAN
      /\ held = {job} /\ held' = {} /\ job \in Job
      /\ Settle(job.cmd.seq, "accepted")
      /\ UNCHANGED <<g_seq_no, g_cmdq, tracked, link_seen, override_coid, lc_up,
                     lc_starts, inbox, latched, applied>>
  BY LcHas DEF TakeAccepted, WorkersJob, records, lcs, TypeOK
<1>2. /\ outcome' \in [1..MaxSeq -> Outcome] /\ outcome'[job.cmd.seq] = "accepted"
      /\ \A t \in 1..MaxSeq : t # job.cmd.seq => outcome'[t] = outcome[t]
      /\ job.cmd.seq \in 1..MaxSeq /\ job.cmd.seq < g_seq_no
  BY <1>1, Settled DEF TypeOK, AllGiven, Given, Outcome
<1>3. override_coid' \in [Id -> 0..MaxStarts]
  BY JobHas, <1>1, PathAssumption DEF TakeAccepted, TypeOK, PathAssumption
<1>4. TypeOK'
  BY <1>1, <1>2, <1>3 DEF TypeOK
<1>5. WorkersJob'
  BY <1>1, <1>2 DEF WorkersJob
<1>6. AllGiven'
  BY <1>1, <1>2 DEF AllGiven, Given
<1>7. InOnePlace'
  BY <1>1, <1>2 DEF InOnePlace
<1>8. EffectOfStage'
  BY <1>1, <1>2 DEF EffectOfStage
<1>9. NewestWaits'
  BY <1>1, <1>2, JobHas, LcHas DEF NewestWaits, SameTarget
<1>10. OldestAhead'
  BY <1>1, <1>2, JobHas, LcHas DEF OldestAhead, SameTarget
<1>11. OpenIsPending'
  BY <1>1, <1>2 DEF OpenIsPending, Pending, InOnePlace
<1>12. OutcomesAreTrue'
  BY <1>1, <1>2 DEF OutcomesAreTrue, EffectOfStage, InOnePlace
<1> QED BY <1>4, <1>5, <1>6, <1>7, <1>8, <1>9, <1>10, <1>11, <1>12

(* Receiving a command. *)
LEMMA ServerReceivesKeeps ==
  ASSUME PathInv, NEW job \in held, ServerReceives(job)
  PROVE  PathInv'
<1> USE DEF PathInv
<1>1. /\ worker = "sending" /\ worker' = "replying" /\ held = {job}
      /\ job \in Job /\ job.cmd \in Command /\ job.cmd.id \in Id
      /\ inbox[job.cmd.id] = {}
      /\ UNCHANGED <<g_seq_no, g_cmdq, held, node_known, tracked, link_seen, override_coid, lc_up,
                     lc_starts, latched, applied, outcome>>
  BY LcHas, JobHas DEF ServerReceives, WorkersJob, records
<1>2. /\ inbox' \in [Id -> SUBSET Command] /\ inbox'[job.cmd.id] = {job.cmd}
      /\ \A id \in Id : id # job.cmd.id => inbox'[id] = inbox[id]
  BY <1>1 DEF ServerReceives, TypeOK
<1>3. TypeOK'
  BY <1>1, <1>2 DEF TypeOK
<1>4. WorkersJob'
  BY <1>1, <1>2 DEF WorkersJob
<1>5. AllGiven'
  BY <1>1, <1>2 DEF AllGiven, Given
<1>6. InOnePlace'
  BY <1>1, <1>2 DEF InOnePlace
<1>7. EffectOfStage'
  BY <1>1, <1>2 DEF EffectOfStage
<1>8. NewestWaits'
  BY <1>1, <1>2, JobHas, LcHas DEF NewestWaits, SameTarget
<1>9. OldestAhead'
  BY <1>1, <1>2, JobHas, LcHas DEF OldestAhead, SameTarget, NewestWaits
<1>10. OpenIsPending'
  BY <1>1, <1>2 DEF OpenIsPending, Pending
<1>11. OutcomesAreTrue'
  BY <1>1, <1>2 DEF OutcomesAreTrue, OpenIsPending, Pending, AllGiven, Given
<1> QED BY <1>3, <1>4, <1>5, <1>6, <1>7, <1>8, <1>9, <1>10, <1>11

(* Answering: accepting a command. *)
LEMMA ServerAcceptsKeeps ==
  ASSUME PathInv, NEW id \in Id, NEW c \in inbox[id], ServerAccepts(c)
  PROVE  PathInv'
<1> USE DEF PathInv
<1>1. /\ c \in Command /\ c.id = id /\ c.kind \in Kind /\ c.seq \in Nat /\ Given(c.seq)
      /\ UNCHANGED <<g_seq_no, g_cmdq, held, node_known, tracked, link_seen, override_coid, lc_up,
                     lc_starts, outcome>>
      /\ inbox' \in [Id -> SUBSET Command] /\ inbox'[id] = {}
      /\ \A i \in Id : i # id => inbox'[i] = inbox[i]
      /\ worker' = IF Awaited(c) THEN "accepted" ELSE worker
  BY LcHas DEF ServerAccepts, Answer, AllGiven, TypeOK, records
<1>2. /\ Awaited(c) => worker = "replying" /\ worker' = "accepted"
                      /\ \A job \in held : job.cmd = c
      /\ ~Awaited(c) => worker' = worker /\ \A job \in held : job.cmd.seq # c.seq
  BY <1>1 DEF Awaited, WorkersJob, InOnePlace
<1>3. /\ latched' \in [Id -> [Kind -> Nat]] /\ latched'[c.id][c.kind] = c.seq
      /\ \A i \in Id, k \in Kind : i # c.id \/ k # c.kind => latched'[i][k] = latched[i][k]
      /\ applied' = applied \cup {c.seq}
  BY <1>1 DEF ServerAccepts, TypeOK
<1>4. TypeOK'
  BY <1>1, <1>2, <1>3 DEF TypeOK
<1>5. WorkersJob'
  BY <1>1, <1>2, <1>3 DEF WorkersJob
<1>6. AllGiven'
  <2>1. \A i \in Id, k \in Kind : latched'[i][k] < g_seq_no
    BY <1>1, <1>3 DEF AllGiven, Given
  <2> QED BY <1>1, <1>3, <2>1 DEF AllGiven, Given
<1>7. InOnePlace'
  BY <1>1, <1>2, <1>3 DEF InOnePlace, AllGiven
<1>8. EffectOfStage'
  BY <1>1, <1>2, <1>3 DEF EffectOfStage, InOnePlace
<1>9. NewestWaits'
  BY <1>1, <1>2, <1>3, JobHas, LcHas DEF NewestWaits, SameTarget
<1>10. OldestAhead'
  <2>1. \A i \in DOMAIN g_cmdq :
          latched'[g_cmdq[i].cmd.id][g_cmdq[i].cmd.kind] < g_cmdq[i].cmd.seq
    BY <1>1, <1>3, JobHas, LcHas DEF OldestAhead, SameTarget
  <2>2. ASSUME worker' # "accepted", NEW job \in held
        PROVE  latched'[job.cmd.id][job.cmd.kind] < job.cmd.seq
    <3>1. /\ worker # "accepted" /\ job.cmd.seq # c.seq /\ job.cmd.seq \in Nat
          /\ job.cmd.id \in Id /\ job.cmd.kind \in Kind
          /\ latched[job.cmd.id][job.cmd.kind] < job.cmd.seq
      BY <1>2, <2>2, JobHas, LcHas DEF OldestAhead
    <3>2. CASE SameTarget(job.cmd, c)
      <4>1. c.seq <= job.cmd.seq
        BY <3>2 DEF OldestAhead
      <4>2. latched'[job.cmd.id][job.cmd.kind] = c.seq
        BY <1>3, <3>2 DEF SameTarget
      <4> QED BY <1>1, <3>1, <4>1, <4>2
    <3>3. CASE ~SameTarget(job.cmd, c)
      BY <1>1, <1>3, <3>1, <3>3 DEF SameTarget
    <3> QED BY <3>2, <3>3
  <2>3. \A i \in Id : \A d \in inbox'[i] :
          d \in inbox[i] /\ d.kind \in Kind /\ latched'[i][d.kind] = latched[i][d.kind]
    BY <1>1, <1>3, LcHas
  <2> QED BY <1>1, <2>1, <2>2, <2>3 DEF OldestAhead
<1>11. OpenIsPending'
  BY <1>1, <1>2, <1>3 DEF OpenIsPending, Pending
<1>12. OutcomesAreTrue'
  BY <1>1, <1>2, <1>3 DEF OutcomesAreTrue, OpenIsPending, Pending, Given
<1> QED BY <1>4, <1>5, <1>6, <1>7, <1>8, <1>9, <1>10, <1>11, <1>12

(* Answering: asking to wait. *)
LEMMA ServerRefusesKeeps ==
  ASSUME PathInv, NEW id \in Id, NEW c \in inbox[id], ServerRefuses(c)
  PROVE  PathInv'
<1> USE DEF PathInv
<1>1. /\ c \in Command /\ c.id = id /\ c.kind \in Kind /\ c.seq \in Nat /\ Given(c.seq)
      /\ UNCHANGED <<g_seq_no, g_cmdq, held, node_known, tracked, link_seen, override_coid, lc_up,
                     lc_starts, outcome>>
      /\ inbox' \in [Id -> SUBSET Command] /\ inbox'[id] = {}
      /\ \A i \in Id : i # id => inbox'[i] = inbox[i]
      /\ worker' = IF Awaited(c) THEN "refused" ELSE worker
  BY LcHas DEF ServerRefuses, Answer, AllGiven, TypeOK, records
<1>2. /\ Awaited(c) => worker = "replying" /\ worker' = "refused"
                      /\ \A job \in held : job.cmd = c
      /\ ~Awaited(c) => worker' = worker /\ \A job \in held : job.cmd.seq # c.seq
  BY <1>1 DEF Awaited, WorkersJob, InOnePlace
<1>3. latched' = latched /\ applied' = applied
  BY DEF ServerRefuses
<1>4. TypeOK'
  BY <1>1, <1>2, <1>3 DEF TypeOK
<1>5. WorkersJob'
  BY <1>1, <1>2, <1>3 DEF WorkersJob
<1>6. AllGiven'
  BY <1>1, <1>2, <1>3 DEF AllGiven, Given
<1>7. InOnePlace'
  BY <1>1, <1>2, <1>3 DEF InOnePlace, AllGiven
<1>8. EffectOfStage'
  BY <1>1, <1>2, <1>3 DEF EffectOfStage, InOnePlace
<1>9. NewestWaits'
  BY <1>1, <1>2, <1>3, JobHas, LcHas DEF NewestWaits, SameTarget
<1>10. OldestAhead'
  BY <1>1, <1>2, <1>3, JobHas, LcHas DEF OldestAhead, SameTarget, AllGiven, Given, WorkersJob
<1>11. OpenIsPending'
  BY <1>1, <1>2, <1>3 DEF OpenIsPending, Pending
<1>12. OutcomesAreTrue'
  BY <1>1, <1>2, <1>3 DEF OutcomesAreTrue, OpenIsPending, Pending, Given
<1> QED BY <1>4, <1>5, <1>6, <1>7, <1>8, <1>9, <1>10, <1>11, <1>12

(* An LC starts. *)
LEMMA LcStartsKeeps ==
  ASSUME PathInv, NEW id \in Id, LcStarts(id)
  PROVE  PathInv'
<1> USE DEF PathInv
<1>1. /\ UNCHANGED <<g_seq_no, g_cmdq, worker, held, node_known, tracked, link_seen, override_coid,
                     inbox, latched, applied, outcome>>
      /\ lc_up' \in [Id -> BOOLEAN] /\ lc_starts' \in [Id -> 0..MaxStarts]
  BY PathAssumption DEF LcStarts, TypeOK, sender, records, PathAssumption
<1>2. TypeOK'
  BY <1>1 DEF TypeOK
<1>3. WorkersJob'
  BY <1>1 DEF WorkersJob
<1>4. AllGiven'
  BY <1>1 DEF AllGiven, Given
<1>5. InOnePlace'
  BY <1>1 DEF InOnePlace
<1>6. EffectOfStage'
  BY <1>1 DEF EffectOfStage
<1>7. NewestWaits'
  BY <1>1, JobHas, LcHas DEF NewestWaits, SameTarget
<1>8. OldestAhead'
  BY <1>1, JobHas, LcHas DEF OldestAhead, SameTarget
<1>9. OpenIsPending'
  BY <1>1 DEF OpenIsPending, Pending
<1>10. OutcomesAreTrue'
  BY <1>1 DEF OutcomesAreTrue
<1> QED BY <1>2, <1>3, <1>4, <1>5, <1>6, <1>7, <1>8, <1>9, <1>10

(* An LC stops, and what it knew is gone. *)
LEMMA LcStopsKeeps ==
  ASSUME PathInv, NEW id \in Id, LcStops(id)
  PROVE  PathInv'
<1> USE DEF PathInv
<1>1. /\ UNCHANGED <<g_seq_no, g_cmdq, worker, held, node_known, tracked, link_seen, override_coid,
                     lc_starts, applied, outcome>>
      /\ lc_up' \in [Id -> BOOLEAN] /\ inbox' \in [Id -> SUBSET Command]
      /\ \A i \in Id : inbox'[i] \subseteq inbox[i]
      /\ latched' \in [Id -> [Kind -> Nat]]
      /\ \A i \in Id, k \in Kind : latched'[i][k] \in {0, latched[i][k]}
  BY DEF LcStops, TypeOK, sender, records
<1>0. /\ \A i \in Id, k \in Kind : latched'[i][k] \in Nat /\ latched'[i][k] <= latched[i][k]
      /\ \A job \in Job : latched'[job.cmd.id][job.cmd.kind] \in Nat
                         /\ latched'[job.cmd.id][job.cmd.kind] <= latched[job.cmd.id][job.cmd.kind]
  <2>1. ASSUME NEW i \in Id, NEW k \in Kind
        PROVE  latched'[i][k] \in Nat /\ latched'[i][k] <= latched[i][k]
    <3>1. latched[i][k] \in Nat
      BY LcHas
    <3>2. latched'[i][k] = 0 \/ latched'[i][k] = latched[i][k]
      BY <1>1
    <3> QED BY <3>1, <3>2
  <2> QED BY <2>1, JobHas
<1>2. TypeOK'
  BY <1>1 DEF TypeOK
<1>3. WorkersJob'
  BY <1>1 DEF WorkersJob
<1>4. AllGiven'
  BY <1>0, <1>1, LcHas DEF AllGiven, Given
<1>5. InOnePlace'
  BY <1>1 DEF InOnePlace
<1>6. EffectOfStage'
  BY <1>1 DEF EffectOfStage
<1>7. NewestWaits'
  BY <1>1, JobHas, LcHas DEF NewestWaits, SameTarget
<1>8. OldestAhead'
  <2>1. /\ \A i \in DOMAIN g_cmdq :
             latched'[g_cmdq[i].cmd.id][g_cmdq[i].cmd.kind] < g_cmdq[i].cmd.seq
        /\ worker # "accepted" =>
             \A job \in held : latched'[job.cmd.id][job.cmd.kind] < job.cmd.seq
    BY <1>0, JobHas, LcHas DEF OldestAhead
  <2>2. \A i \in Id : \A c \in inbox'[i] : latched'[i][c.kind] < c.seq
    BY <1>0, <1>1, LcHas DEF OldestAhead
  <2> QED BY <1>1, <2>1, <2>2 DEF OldestAhead
<1>9. OpenIsPending'
  BY <1>1 DEF OpenIsPending, Pending
<1>10. OutcomesAreTrue'
  BY <1>1 DEF OutcomesAreTrue
<1> QED BY <1>2, <1>3, <1>4, <1>5, <1>6, <1>7, <1>8, <1>9, <1>10

(* An LC reports. *)
LEMMA LcReportsKeeps ==
  ASSUME PathInv, NEW id \in Id, LcReports(id)
  PROVE  PathInv'
<1> USE DEF PathInv
<1>1. /\ UNCHANGED <<g_seq_no, g_cmdq, worker, held, node_known, override_coid, lc_up,
                     lc_starts, inbox, latched, applied, outcome>>
      /\ tracked' \subseteq Id /\ link_seen' \in [Id -> BOOLEAN]
  BY DEF LcReports, TypeOK, sender, lcs
<1>2. TypeOK'
  BY <1>1 DEF TypeOK
<1>3. WorkersJob'
  BY <1>1 DEF WorkersJob
<1>4. AllGiven'
  BY <1>1 DEF AllGiven, Given
<1>5. InOnePlace'
  BY <1>1 DEF InOnePlace
<1>6. EffectOfStage'
  BY <1>1 DEF EffectOfStage
<1>7. NewestWaits'
  BY <1>1, JobHas, LcHas DEF NewestWaits, SameTarget
<1>8. OldestAhead'
  BY <1>1, JobHas, LcHas DEF OldestAhead, SameTarget
<1>9. OpenIsPending'
  BY <1>1 DEF OpenIsPending, Pending
<1>10. OutcomesAreTrue'
  BY <1>1 DEF OutcomesAreTrue
<1> QED BY <1>2, <1>3, <1>4, <1>5, <1>6, <1>7, <1>8, <1>9, <1>10
(* A wait runs out. *)
LEMMA WaitElapsesKeeps ==
  ASSUME PathInv, NEW i \in DOMAIN g_cmdq, WaitElapses(i)
  PROVE  PathInv'
<1> USE DEF PathInv
<1> DEFINE waited == [g_cmdq[i] EXCEPT !.wait = "over"]
<1>1. /\ UNCHANGED <<g_seq_no, worker, held, node_known, tracked, link_seen, override_coid, lc_up,
                     lc_starts, inbox, latched, applied, outcome>>
      /\ Put(i, waited)
  BY DEF WaitElapses, sender, records, lcs
<1>2. /\ waited \in Job /\ waited.cmd = g_cmdq[i].cmd /\ waited.attempts = g_cmdq[i].attempts
  BY JobChanges, LcHas
<1> HIDE DEF waited
<1>3. /\ DOMAIN g_cmdq' = DOMAIN g_cmdq
      /\ \A j \in DOMAIN g_cmdq : /\ g_cmdq'[j] \in Job
                                  /\ g_cmdq'[j].cmd = g_cmdq[j].cmd
                                  /\ g_cmdq'[j].attempts = g_cmdq[j].attempts
  BY <1>1, <1>2, SlotFilled, LcHas
<1>4. TypeOK'
  BY <1>1, <1>3 DEF TypeOK
<1>5. WorkersJob'
  BY <1>1, <1>3 DEF WorkersJob
<1>6. AllGiven'
  BY <1>1, <1>3 DEF AllGiven, Given
<1>7. InOnePlace'
  BY <1>1, <1>3 DEF InOnePlace
<1>8. EffectOfStage'
  BY <1>1, <1>3 DEF EffectOfStage
<1>9. NewestWaits'
  BY <1>1, <1>3, JobHas, LcHas DEF NewestWaits, SameTarget
<1>10. OldestAhead'
  BY <1>1, <1>3, JobHas, LcHas DEF OldestAhead, SameTarget
<1>11. OpenIsPending'
  BY <1>1, <1>3 DEF OpenIsPending, Pending
<1>12. OutcomesAreTrue'
  BY <1>1, <1>3 DEF OutcomesAreTrue
<1> QED BY <1>4, <1>5, <1>6, <1>7, <1>8, <1>9, <1>10, <1>11, <1>12

------------------------------------------------------------------------------
(* The queue and the console *)

(* What requeue_command() leaves of a job: it waits in a free slot, and    *)
(* then no other command of its kind does, or it is settled.               *)
LEMMA Requeued ==
  ASSUME PathInv, NEW job \in Job, Given(job.cmd.seq), RequeueCommand(job)
  PROVE  \/ /\ \E how \in Outcome \ {"open", "accepted", "unknown"} : Settle(job.cmd.seq, how)
            /\ UNCHANGED g_cmdq
         \/ /\ UNCHANGED outcome
            /\ \E i \in (1..CmdQueueLen) \ DOMAIN g_cmdq : Put(i, job)
            /\ \A i \in DOMAIN g_cmdq : ~SameTarget(g_cmdq[i].cmd, job.cmd)
  BY DEF RequeueCommand, FreeSlots, Lowest, Queued, SameTarget, Outcome

(* What enqueue_command() does with a new command: it takes the slot of    *)
(* the one of its kind, or a free one, or is settled.                      *)
LEMMA Enqueued ==
  ASSUME PathInv, NEW c \in Command, EnqueueCommand(c)
  PROVE  \/ /\ \A i \in DOMAIN g_cmdq : ~SameTarget(g_cmdq[i].cmd, c)
            /\ Settle(c.seq, "queue full")
            /\ UNCHANGED g_cmdq
         \/ /\ \A i \in DOMAIN g_cmdq : ~SameTarget(g_cmdq[i].cmd, c)
            /\ \E i \in (1..CmdQueueLen) \ DOMAIN g_cmdq : Put(i, Fresh(c))
            /\ UNCHANGED outcome
         \/ \E i \in DOMAIN g_cmdq :
              /\ SameTarget(g_cmdq[i].cmd, c)
              /\ Settle(g_cmdq[i].cmd.seq, "replaced")
              /\ Put(i, Fresh(c))
  BY DEF EnqueueCommand, FreeSlots, Lowest, Queued, SameTarget

(* A refused command is settled or waits for its next attempt. *)
LEMMA TakeWaitKeeps ==
  ASSUME PathInv, NEW job \in held, TakeWait(job)
  PROVE  PathInv'
<1> USE DEF PathInv
<1> DEFINE later == [job EXCEPT !.wait = "running"]
<1>1. /\ worker = "refused" /\ worker' = "idle"
      /\ held = {job} /\ held' = {} /\ job \in Job /\ Given(job.cmd.seq)
      /\ UNCHANGED <<g_seq_no, node_known, tracked, link_seen, override_coid, lc_up,
                     lc_starts, inbox, latched, applied>>
  BY LcHas DEF TakeWait, WorkersJob, AllGiven, records, lcs
<1>2. later \in Job /\ later.cmd = job.cmd /\ later.attempts = job.attempts
  BY <1>1, JobChanges
<1>3. \/ /\ \E how \in Outcome \ {"open", "accepted", "unknown"} : Settle(job.cmd.seq, how)
         /\ UNCHANGED g_cmdq
      \/ /\ UNCHANGED outcome /\ job.attempts < CmdMaxAttempts
         /\ \E i \in (1..CmdQueueLen) \ DOMAIN g_cmdq : Put(i, later)
         /\ \A i \in DOMAIN g_cmdq : ~SameTarget(g_cmdq[i].cmd, job.cmd)
  <2>1. CASE job.attempts >= CmdMaxAttempts
    BY <2>1 DEF TakeWait, Outcome
  <2>2. CASE ~(job.attempts >= CmdMaxAttempts)
    <3>1. RequeueCommand(later)
      BY <2>2 DEF TakeWait
    <3>2. job.attempts < CmdMaxAttempts
      BY <1>1, <2>2, JobHas, PathAssumption DEF PathAssumption
    <3> HIDE DEF later
    <3> QED BY <1>1, <1>2, <3>1, <3>2, Requeued
  <2> QED BY <2>1, <2>2
<1> HIDE DEF later
<1>4. CASE /\ UNCHANGED g_cmdq
           /\ \E how \in Outcome \ {"open", "accepted", "unknown"} : Settle(job.cmd.seq, how)
  <2>1. PICK how \in Outcome \ {"open", "accepted", "unknown"} : Settle(job.cmd.seq, how)
    BY <1>4
  <2>2. /\ outcome' \in [1..MaxSeq -> Outcome] /\ outcome'[job.cmd.seq] = how
        /\ \A t \in 1..MaxSeq : t # job.cmd.seq => outcome'[t] = outcome[t]
        /\ job.cmd.seq \in 1..MaxSeq /\ job.cmd.seq < g_seq_no
    BY <1>1, <2>1, Settled DEF TypeOK, Given
  <2>3. TypeOK'
    BY <1>1, <1>4, <2>2 DEF TypeOK
  <2>4. WorkersJob'
    BY <1>1, <1>4, <2>2 DEF WorkersJob
  <2>5. AllGiven'
    BY <1>1, <1>4, <2>2 DEF AllGiven, Given
  <2>6. InOnePlace'
    BY <1>1, <1>4, <2>2 DEF InOnePlace
  <2>7. EffectOfStage'
    BY <1>1, <1>4, <2>2 DEF EffectOfStage
  <2>8. NewestWaits'
    BY <1>1, <1>4, <2>2, JobHas, LcHas DEF NewestWaits, SameTarget
  <2>9. OldestAhead'
    BY <1>1, <1>4, <2>2, JobHas, LcHas DEF OldestAhead, SameTarget
  <2>10. OpenIsPending'
    BY <1>1, <1>4, <2>2, <2>1 DEF OpenIsPending, Pending, InOnePlace
  <2>11. OutcomesAreTrue'
    BY <1>1, <1>4, <2>2, <2>1 DEF OutcomesAreTrue, EffectOfStage, InOnePlace
  <2> QED BY <2>3, <2>4, <2>5, <2>6, <2>7, <2>8, <2>9, <2>10, <2>11
<1>5. CASE /\ UNCHANGED outcome /\ job.attempts < CmdMaxAttempts
           /\ \E i \in (1..CmdQueueLen) \ DOMAIN g_cmdq : Put(i, later)
           /\ \A i \in DOMAIN g_cmdq : ~SameTarget(g_cmdq[i].cmd, job.cmd)
  <2>1. PICK i \in (1..CmdQueueLen) \ DOMAIN g_cmdq : Put(i, later)
    BY <1>5
  <2>2. /\ DOMAIN g_cmdq' = DOMAIN g_cmdq \cup {i} /\ g_cmdq'[i] = later
        /\ \A j \in DOMAIN g_cmdq : g_cmdq'[j] = g_cmdq[j]
    BY <2>1, SlotFilled
  <2>3. TypeOK'
    BY <1>1, <1>2, <1>5, <2>1, <2>2 DEF TypeOK
  <2>4. WorkersJob'
    BY <1>1, <1>2, <1>5, <2>1, <2>2 DEF WorkersJob
  <2>5. AllGiven'
    BY <1>1, <1>2, <1>5, <2>1, <2>2 DEF AllGiven, Given
  <2>6. InOnePlace'
    BY <1>1, <1>2, <1>5, <2>1, <2>2 DEF InOnePlace
  <2>7. EffectOfStage'
    BY <1>1, <1>2, <1>5, <2>1, <2>2 DEF EffectOfStage
  <2>8. NewestWaits'
    BY <1>1, <1>2, <1>5, <2>1, <2>2, JobHas, LcHas DEF NewestWaits, SameTarget
  <2>9. OldestAhead'
    <3>1. /\ later.cmd.id \in Id /\ later.cmd.kind \in Kind /\ later.cmd.seq \in Nat
          /\ latched[later.cmd.id][later.cmd.kind] < later.cmd.seq
      BY <1>1, <1>2, JobHas DEF OldestAhead
    <3>2. ASSUME NEW id \in Id, NEW c \in inbox[id], SameTarget(later.cmd, c)
          PROVE  c.seq < later.cmd.seq
      <4>1. c.seq <= job.cmd.seq /\ c.seq # job.cmd.seq
        BY <1>1, <1>2, <3>2 DEF OldestAhead, InOnePlace
      <4> QED BY <1>2, <3>1, <4>1, LcHas
    <3> QED BY <1>1, <1>5, <2>1, <2>2, <3>1, <3>2 DEF OldestAhead
  <2>10. OpenIsPending'
    BY <1>1, <1>2, <1>5, <2>1, <2>2 DEF OpenIsPending, Pending
  <2>11. OutcomesAreTrue'
    BY <1>1, <1>2, <1>5, <2>1, <2>2 DEF OutcomesAreTrue
  <2> QED BY <2>3, <2>4, <2>5, <2>6, <2>7, <2>8, <2>9, <2>10, <2>11
<1> QED BY <1>3, <1>4, <1>5

(* A command with a wrong word leaves only a record. *)
LEMMA OperatorMistypesKeeps ==
  ASSUME PathInv, NEW id \in Id, OperatorMistypes(id)
  PROVE  PathInv'
<1> USE DEF PathInv
<1>1. /\ UNCHANGED <<g_seq_no, g_cmdq, worker, held, node_known, link_seen, override_coid, lc_up,
                     lc_starts, inbox, latched, applied, outcome>>
      /\ tracked' \subseteq Id
  BY DEF OperatorMistypes, TypeOK, sender, lcs
<1>2. TypeOK'
  BY <1>1 DEF TypeOK
<1>3. WorkersJob'
  BY <1>1 DEF WorkersJob
<1>4. AllGiven'
  BY <1>1 DEF AllGiven, Given
<1>5. InOnePlace'
  BY <1>1 DEF InOnePlace
<1>6. EffectOfStage'
  BY <1>1 DEF EffectOfStage
<1>7. NewestWaits'
  BY <1>1, JobHas, LcHas DEF NewestWaits, SameTarget
<1>8. OldestAhead'
  BY <1>1, JobHas, LcHas DEF OldestAhead, SameTarget
<1>9. OpenIsPending'
  BY <1>1 DEF OpenIsPending, Pending
<1>10. OutcomesAreTrue'
  BY <1>1 DEF OutcomesAreTrue
<1> QED BY <1>2, <1>3, <1>4, <1>5, <1>6, <1>7, <1>8, <1>9, <1>10
(* A new command takes its place in the queue, or is settled. *)
LEMMA OperatorCommandsKeeps ==
  ASSUME PathInv, NEW k \in Kind, NEW id \in Id, OperatorCommands(k, id)
  PROVE  PathInv'
<1> USE DEF PathInv
<1> DEFINE c == [kind |-> k, id |-> id, seq |-> g_seq_no]
           new == Fresh(c)
<1>1. /\ g_seq_no \in 1..MaxSeq /\ g_seq_no' = g_seq_no + 1 /\ tracked' \subseteq Id
      /\ EnqueueCommand(c)
      /\ UNCHANGED <<worker, held, node_known, link_seen, override_coid, lc_up,
                     lc_starts, inbox, latched, applied>>
  BY PathAssumption DEF OperatorCommands, TypeOK, sender, lcs, PathAssumption
<1>2. /\ c \in Command /\ c.seq = g_seq_no /\ c.kind = k /\ c.id = id
  BY <1>1 DEF Command
<1> HIDE DEF c
<1>3. new \in Job /\ new.cmd = c /\ new.attempts = 0 /\ 0 < CmdMaxAttempts
  BY <1>2, FreshJob, PathAssumption DEF PathAssumption
<1>4. \A s \in 1..MaxSeq : s < g_seq_no' <=> s < g_seq_no \/ s = g_seq_no
  BY <1>1
<1>5. \A s : Given(s) => Given(s)' /\ s # g_seq_no
  BY <1>1 DEF Given
<1>6. /\ g_seq_no' \in 1..(MaxSeq + 1) /\ g_seq_no < g_seq_no'
      /\ \A i \in Id, l \in Kind : latched[i][l] < g_seq_no'
  BY <1>1, LcHas, PathAssumption DEF PathAssumption, AllGiven
<1>7. \/ /\ \A i \in DOMAIN g_cmdq : ~SameTarget(g_cmdq[i].cmd, c)
         /\ Settle(c.seq, "queue full")
         /\ UNCHANGED g_cmdq
      \/ /\ \A i \in DOMAIN g_cmdq : ~SameTarget(g_cmdq[i].cmd, c)
         /\ \E i \in (1..CmdQueueLen) \ DOMAIN g_cmdq : Put(i, new)
         /\ UNCHANGED outcome
      \/ \E i \in DOMAIN g_cmdq :
           /\ SameTarget(g_cmdq[i].cmd, c)
           /\ Settle(g_cmdq[i].cmd.seq, "replaced")
           /\ Put(i, new)
  BY <1>1, <1>2, Enqueued
<1> HIDE DEF new
<1>8. CASE /\ Settle(c.seq, "queue full")
           /\ UNCHANGED g_cmdq
  <2>1. /\ outcome' \in [1..MaxSeq -> Outcome] /\ outcome'[g_seq_no] = "queue full"
        /\ \A t \in 1..MaxSeq : t # g_seq_no => outcome'[t] = outcome[t]
    BY <1>1, <1>2, <1>8, Settled DEF TypeOK, Outcome
  <2>2. TypeOK'
    BY <1>1, <1>6, <1>8, <2>1 DEF TypeOK
  <2>3. WorkersJob'
    BY <1>1, <1>8 DEF WorkersJob
  <2>4. AllGiven'
    BY <1>1, <1>5, <1>6, <1>8, <2>1 DEF AllGiven, Given
  <2>5. InOnePlace'
    BY <1>1, <1>8 DEF InOnePlace
  <2>6. EffectOfStage'
    BY <1>1, <1>8 DEF EffectOfStage
  <2>7. NewestWaits'
    BY <1>1, <1>8 DEF NewestWaits
  <2>8. OldestAhead'
    BY <1>1, <1>8 DEF OldestAhead
  <2>9. OpenIsPending'
    <3>1. \A t \in 1..MaxSeq : t < g_seq_no' <=> t < g_seq_no \/ t = g_seq_no
      BY <1>1
    <3>2. Pending' = Pending /\ \A job \in Pending : Given(job.cmd.seq)
      BY <1>1, <1>8 DEF Pending, AllGiven
    <3>3. held' = {} <=> worker' = "idle"
      BY <1>1 DEF OpenIsPending
    <3> QED BY <1>5, <2>1, <3>1, <3>2, <3>3 DEF OpenIsPending
  <2>10. OutcomesAreTrue'
    BY <1>1, <1>5, <2>1 DEF OutcomesAreTrue, AllGiven
  <2> QED BY <2>2, <2>3, <2>4, <2>5, <2>6, <2>7, <2>8, <2>9, <2>10
<1>9. CASE /\ \A i \in DOMAIN g_cmdq : ~SameTarget(g_cmdq[i].cmd, c)
           /\ \E i \in (1..CmdQueueLen) \ DOMAIN g_cmdq : Put(i, new)
           /\ UNCHANGED outcome
  <2>1. PICK i \in (1..CmdQueueLen) \ DOMAIN g_cmdq : Put(i, new)
    BY <1>9
  <2>2. /\ DOMAIN g_cmdq' = DOMAIN g_cmdq \cup {i} /\ g_cmdq'[i] = new
        /\ \A j \in DOMAIN g_cmdq : g_cmdq'[j] = g_cmdq[j]
    BY <2>1, SlotFilled
  <2>3. TypeOK'
    BY <1>1, <1>3, <1>6, <1>9, <2>1, <2>2 DEF TypeOK
  <2>4. WorkersJob'
    BY <1>1, <1>3, <2>2 DEF WorkersJob
  <2>5. AllGiven'
    BY <1>1, <1>2, <1>3, <1>5, <1>6, <1>9, <2>2 DEF AllGiven, Given
  <2>6. InOnePlace'
    BY <1>1, <1>2, <1>3, <1>5, <2>2 DEF InOnePlace, AllGiven
  <2>7. EffectOfStage'
    BY <1>1, <1>2, <1>3, <1>5, <2>2 DEF EffectOfStage, AllGiven
  <2>8. NewestWaits'
    BY <1>1, <1>2, <1>3, <1>9, <2>2, JobHas, LcHas DEF NewestWaits, SameTarget, AllGiven, Given
  <2>9. OldestAhead'
    BY <1>1, <1>2, <1>3, <2>2, JobHas, LcHas DEF OldestAhead, SameTarget, AllGiven, Given
  <2>10. OpenIsPending'
    <3>1. \A s : (\E job \in Pending' : job.cmd.seq = s)
                <=> (\E job \in Pending : job.cmd.seq = s) \/ s = g_seq_no
      BY <1>1, <1>2, <1>3, <2>1, <2>2 DEF Pending
    <3>2. \A s \in 1..MaxSeq : outcome[s] # "open" => s # g_seq_no
      BY <1>1 DEF AllGiven, Given
    <3>3. held' = {} <=> worker' = "idle"
      BY <1>1 DEF OpenIsPending
    <3> QED BY <1>1, <1>4, <1>9, <3>1, <3>2, <3>3 DEF OpenIsPending
  <2>11. OutcomesAreTrue'
    BY <1>1, <1>9 DEF OutcomesAreTrue
  <2> QED BY <2>3, <2>4, <2>5, <2>6, <2>7, <2>8, <2>9, <2>10, <2>11
<1>10. CASE \E i \in DOMAIN g_cmdq :
             /\ SameTarget(g_cmdq[i].cmd, c)
             /\ Settle(g_cmdq[i].cmd.seq, "replaced")
             /\ Put(i, new)
  <2>1. PICK i \in DOMAIN g_cmdq : /\ SameTarget(g_cmdq[i].cmd, c)
                                  /\ Settle(g_cmdq[i].cmd.seq, "replaced")
                                  /\ Put(i, new)
    BY <1>10
  <2>2. /\ DOMAIN g_cmdq' = DOMAIN g_cmdq /\ g_cmdq'[i] = new
        /\ \A j \in DOMAIN g_cmdq \ {i} : g_cmdq'[j] = g_cmdq[j]
        /\ \A j \in DOMAIN g_cmdq \ {i} : ~SameTarget(g_cmdq[j].cmd, c)
    <3>1. \A j \in DOMAIN g_cmdq : SameTarget(g_cmdq[i].cmd, g_cmdq[j].cmd) => i = j
      BY DEF NewestWaits
    <3>2. \A j \in DOMAIN g_cmdq \ {i} : ~SameTarget(g_cmdq[j].cmd, c)
      BY <2>1, <3>1 DEF SameTarget
    <3>3. DOMAIN g_cmdq' = DOMAIN g_cmdq \cup {i} /\ g_cmdq'[i] = new
          /\ \A j \in DOMAIN g_cmdq \ {i} : g_cmdq'[j] = g_cmdq[j]
      BY <2>1, SlotFilled
    <3> QED BY <3>2, <3>3
  <2>3. /\ outcome' \in [1..MaxSeq -> Outcome] /\ outcome'[g_cmdq[i].cmd.seq] = "replaced"
        /\ \A t \in 1..MaxSeq : t # g_cmdq[i].cmd.seq => outcome'[t] = outcome[t]
        /\ Given(g_cmdq[i].cmd.seq)
    BY <2>1, Settled DEF TypeOK, Outcome, AllGiven, Given
  <2>4. TypeOK'
    BY <1>1, <1>3, <1>6, <2>2, <2>3 DEF TypeOK
  <2>5. WorkersJob'
    BY <1>1, <1>3, <2>2 DEF WorkersJob
  <2>6. AllGiven'
    BY <1>1, <1>2, <1>3, <1>5, <1>6, <2>2, <2>3 DEF AllGiven, Given
  <2>7. InOnePlace'
    BY <1>1, <1>2, <1>3, <1>5, <2>2 DEF InOnePlace, AllGiven
  <2>8. EffectOfStage'
    BY <1>1, <1>2, <1>3, <1>5, <2>2 DEF EffectOfStage, AllGiven
  <2>9. NewestWaits'
    BY <1>1, <1>2, <1>3, <2>2, JobHas, LcHas DEF NewestWaits, SameTarget, AllGiven, Given
  <2>10. OldestAhead'
    <3>1. \A j \in DOMAIN g_cmdq' :
            latched'[g_cmdq'[j].cmd.id][g_cmdq'[j].cmd.kind] < g_cmdq'[j].cmd.seq
      <4>1. latched'[new.cmd.id][new.cmd.kind] < new.cmd.seq
        BY <1>1, <1>2, <1>3 DEF AllGiven
      <4>2. \A j \in DOMAIN g_cmdq :
              latched'[g_cmdq[j].cmd.id][g_cmdq[j].cmd.kind] < g_cmdq[j].cmd.seq
        BY <1>1 DEF OldestAhead
      <4> QED BY <2>2, <4>1, <4>2
    <3>2. \A n \in Id : \A d \in inbox[n] : d.seq < g_seq_no
      BY DEF AllGiven, Given
    <3>3. \A n \in Id : \A d \in inbox[n] : \A j \in DOMAIN g_cmdq' :
            SameTarget(g_cmdq'[j].cmd, d) => d.seq < g_cmdq'[j].cmd.seq
      BY <1>2, <1>3, <2>2, <3>2 DEF OldestAhead
    <3> QED BY <1>1, <3>1, <3>3 DEF OldestAhead
  <2>11. OpenIsPending'
    <3>1. \A s : (\E job \in Pending' : job.cmd.seq = s)
                <=> \/ (\E job \in Pending : job.cmd.seq = s) /\ s # g_cmdq[i].cmd.seq
                    \/ s = g_seq_no
      BY <1>1, <1>2, <1>3, <1>5, <2>1, <2>2, <2>3 DEF Pending, InOnePlace
    <3>2. \A s \in 1..MaxSeq : outcome[s] # "open" => s # g_seq_no
      BY <1>1 DEF AllGiven, Given
    <3>3. held' = {} <=> worker' = "idle"
      BY <1>1 DEF OpenIsPending
    <3>4. g_cmdq[i].cmd.seq # g_seq_no
      BY <1>5, <2>3
    <3> QED BY <1>1, <1>4, <2>3, <3>1, <3>2, <3>3, <3>4 DEF OpenIsPending
  <2>12. OutcomesAreTrue'
    BY <1>1, <2>3 DEF OutcomesAreTrue, AllGiven, Given, EffectOfStage, InOnePlace
  <2> QED BY <2>4, <2>5, <2>6, <2>7, <2>8, <2>9, <2>10, <2>11, <2>12
<1> QED BY <1>7, <1>8, <1>9, <1>10
------------------------------------------------------------------------------
(* Every step keeps the invariant. *)
LEMMA PathInvStep == PathInv /\ [Next]_vars => PathInv'
<1> SUFFICES ASSUME PathInv, [Next]_vars PROVE PathInv'
  OBVIOUS
<1>1. CASE Operator
  BY <1>1, OperatorCommandsKeeps, OperatorMistypesKeeps DEF Operator
<1>2. CASE Worker
  BY <1>2, DequeueKeeps, UseConnectionKeeps, ReadRecordKeeps, OpenKeeps, CannotOpenKeeps,
     SendFailsKeeps, TakeAcceptedKeeps, TakeWaitKeeps DEF Worker
<1>3. CASE Server
  BY <1>3, ServerReceivesKeeps, ServerAcceptsKeeps, ServerRefusesKeeps DEF Server
<1>4. CASE \E i \in DOMAIN g_cmdq : WaitElapses(i)
  BY <1>4, WaitElapsesKeeps
<1>5. CASE \E id \in Id : LcStarts(id) \/ LcStops(id) \/ LcReports(id)
  BY <1>5, LcStartsKeeps, LcStopsKeeps, LcReportsKeeps
<1>6. CASE UNCHANGED vars
  <2>1. UNCHANGED <<g_seq_no, g_cmdq, worker, held, node_known, tracked, link_seen,
                    override_coid, lc_up, lc_starts, inbox, latched, applied, outcome>>
    BY <1>6 DEF vars, sender, records, lcs
  <2> QED BY <2>1 DEF PathInv, TypeOK, WorkersJob, AllGiven, Given, InOnePlace, EffectOfStage,
        NewestWaits, SameTarget, OldestAhead, OpenIsPending, Pending, OutcomesAreTrue
<1> QED BY <1>1, <1>2, <1>3, <1>4, <1>5, <1>6 DEF Next

(* The invariant of the command path. *)
THEOREM PathInvariant == Spec => []PathInv
<1>1. PathInv /\ [Next]_vars => PathInv'
  BY PathInvStep
<1> QED BY PathInvInit, <1>1, PTL DEF Spec

(* No job is sent more often than it may be. *)
THEOREM PathTypes == Spec => []TypeOK
<1>1. PathInv => TypeOK
  BY DEF PathInv
<1> QED BY PathInvariant, <1>1, PTL

(* The command that waits for an intersection is the newest of its kind. *)
THEOREM NewestIsQueued == Spec => []NewestWaits
<1>1. PathInv => NewestWaits
  BY DEF PathInv
<1> QED BY PathInvariant, <1>1, PTL

(* What the console told the operator of a command stays true. *)
THEOREM ConsoleTellsTheTruth == Spec => []OutcomesAreTrue
<1>1. PathInv => OutcomesAreTrue
  BY DEF PathInv
<1> QED BY PathInvariant, <1>1, PTL

(* No command is lost without an outcome, none comes back after one. *)
THEOREM NoneIsForgotten == Spec => []OpenIsPending
<1>1. PathInv => OpenIsPending
  BY DEF PathInv
<1> QED BY PathInvariant, <1>1, PTL

(* An LC never goes back to an older command of a kind while it runs. *)
THEOREM NewestCommandWins == Spec => NewestWins
<1>1. ASSUME PathInv, [Next]_vars, NEW id \in Id, NEW k \in Kind,
             latched'[id][k] # latched[id][k]
      PROVE  latched'[id][k] > latched[id][k] \/ ~lc_up'[id]
  <2>1. CASE \E c \in inbox[id] : ServerAccepts(c)
    <3>1. PICK c \in inbox[id] : ServerAccepts(c)
      BY <2>1
    <3>2. c.id = id /\ c.kind \in Kind /\ c.seq \in Nat /\ latched[id][c.kind] < c.seq
          /\ latched[id][c.kind] \in Nat
      BY <1>1, LcHas DEF PathInv, AllGiven, OldestAhead
    <3>3. latched' = [latched EXCEPT ![id][c.kind] = c.seq]
          /\ latched \in [Id -> [Kind -> Nat]]
      BY <1>1, <3>1, <3>2 DEF ServerAccepts, PathInv, TypeOK
    <3>4. k = c.kind /\ latched'[id][k] = c.seq
      BY <1>1, <3>2, <3>3
    <3> QED BY <3>2, <3>4
  <2>2. CASE LcStops(id)
    BY <1>1, <2>2 DEF LcStops, PathInv, TypeOK
  <2>3. CASE \E i \in Id \ {id} : LcStops(i) \/ \E c \in inbox[i] : ServerAccepts(c)
    <3>1. \A i \in Id : \A c \in inbox[i] : c.id = i
      BY <1>1 DEF PathInv, AllGiven
    <3>2. PICK i \in Id \ {id} : LcStops(i) \/ \E c \in inbox[i] : ServerAccepts(c)
      BY <2>3
    <3>3. latched \in [Id -> [Kind -> Nat]]
      BY <1>1 DEF PathInv, TypeOK
    <3>4. LcStops(i) => latched'[id] = latched[id]
      BY <3>2, <3>3 DEF LcStops
    <3>5. ASSUME NEW c \in inbox[i], ServerAccepts(c) PROVE latched'[id] = latched[id]
      BY <3>1, <3>2, <3>3, <3>5 DEF ServerAccepts
    <3> QED BY <1>1, <3>2, <3>4, <3>5
  <2>4. CASE latched' = latched
    BY <1>1, <2>4
  <2>5. \/ latched' = latched
        \/ \E i \in Id : LcStops(i) \/ \E c \in inbox[i] : ServerAccepts(c)
    <3>1. Operator => latched' = latched
      BY DEF Operator, OperatorCommands, OperatorMistypes, lcs
    <3>2. Worker => latched' = latched
      BY DEF Worker, Dequeue, UseConnection, ReadRecord, Open, CannotOpen, SendFails,
             TakeAccepted, TakeWait, lcs
    <3>3. Server => latched' = latched \/ \E i \in Id : \E c \in inbox[i] : ServerAccepts(c)
      BY DEF Server, ServerReceives, ServerRefuses
    <3>4. \A i : WaitElapses(i) => latched' = latched
      BY DEF WaitElapses, lcs
    <3>5. \A i \in Id : LcStarts(i) \/ LcReports(i) => latched' = latched
      BY DEF LcStarts, LcReports, lcs
    <3>6. UNCHANGED vars => latched' = latched
      BY DEF vars, lcs
    <3> QED BY <1>1, <3>1, <3>2, <3>3, <3>4, <3>5, <3>6 DEF Next
  <2> QED BY <2>1, <2>2, <2>3, <2>4, <2>5
<1>2. PathInv /\ [Next]_vars =>
        [\A id \in Id, k \in Kind :
           latched'[id][k] # latched[id][k] =>
             latched'[id][k] > latched[id][k] \/ ~lc_up'[id]]_vars
  BY <1>1
<1> QED BY PathInvariant, <1>2, PTL DEF NewestWins, Spec
------------------------------------------------------------------------------
(* The command path implements CommandChannel. *)

(* An LC's copy of a command is the only one, and has had no effect yet.   *)
LEMMA TakenOnceStep ==
  ASSUME PathInv, TakenOnce, [Next]_vars
  PROVE  TakenOnce'
<1>1. ASSUME NEW job \in held, ServerReceives(job) PROVE TakenOnce'
  <2>1. /\ worker = "sending" /\ job.cmd.id \in Id /\ inbox[job.cmd.id] = {}
        /\ applied' = applied /\ inbox \in [Id -> SUBSET Command]
        /\ inbox' = [inbox EXCEPT ![job.cmd.id] = {job.cmd}]
    BY <1>1, LcHas, JobHas DEF ServerReceives, PathInv, TypeOK
  <2>2. /\ inbox'[job.cmd.id] = {job.cmd}
        /\ \A id \in Id : id # job.cmd.id => inbox'[id] = inbox[id]
    BY <2>1
  <2>3. job.cmd.seq \notin applied
    BY <2>1 DEF PathInv, EffectOfStage
  <2>4. \A id \in Id : \A c \in inbox[id] : c.seq # job.cmd.seq
    BY <2>1 DEF PathInv, InOnePlace
  <2> QED BY <2>1, <2>2, <2>3, <2>4 DEF TakenOnce
<1>2. ASSUME NEW id \in Id, NEW c \in inbox[id], ServerAccepts(c) \/ ServerRefuses(c)
      PROVE  TakenOnce'
  <2>1. c.id = id /\ inbox \in [Id -> SUBSET Command]
    BY DEF PathInv, AllGiven, TypeOK
  <2>2. /\ inbox' = [inbox EXCEPT ![id] = {}]
        /\ applied' \subseteq applied \cup {c.seq}
    BY <1>2, <2>1 DEF ServerAccepts, ServerRefuses, Answer
  <2>3. inbox'[id] = {} /\ \A j \in Id : j # id => inbox'[j] = inbox[j]
    BY <2>1, <2>2
  <2>4. \A j \in Id : j # id => \A d \in inbox[j] : d.seq # c.seq
    BY DEF TakenOnce
  <2> QED BY <2>2, <2>3, <2>4 DEF TakenOnce
<1>3. ASSUME NEW id \in Id, LcStops(id) PROVE TakenOnce'
  <2>1. applied' = applied /\ \A j \in Id : inbox'[j] \subseteq inbox[j]
    BY <1>3 DEF LcStops, PathInv, TypeOK
  <2> QED BY <2>1 DEF TakenOnce
<1>4. CASE UNCHANGED <<inbox, applied>>
  BY <1>4 DEF TakenOnce
<1>5. CASE Operator \/ Worker
  BY <1>4, <1>5 DEF Operator, OperatorCommands, OperatorMistypes, Worker, Dequeue, UseConnection,
     ReadRecord, Open, CannotOpen, SendFails, TakeAccepted, TakeWait, lcs
<1>6. ASSUME NEW i \in DOMAIN g_cmdq, WaitElapses(i) PROVE TakenOnce'
  BY <1>4, <1>6 DEF WaitElapses, lcs
<1>7. ASSUME NEW id \in Id, LcStarts(id) \/ LcReports(id) PROVE TakenOnce'
  BY <1>4, <1>7 DEF LcStarts, LcReports, lcs
<1>8. CASE UNCHANGED vars
  BY <1>4, <1>8 DEF vars, lcs
<1> QED BY <1>1, <1>2, <1>3, <1>5, <1>6, <1>7, <1>8 DEF Next, Server

(* A command an LC works on has had no effect before, here or elsewhere.   *)
THEOREM CopiesAreTakenOnce == Spec => []TakenOnce
<1>1. Init => TakenOnce
  BY DEF Init, TakenOnce
<1>2. PathInv /\ TakenOnce /\ [Next]_vars => TakenOnce'
  BY TakenOnceStep
<1> QED BY <1>1, <1>2, PathInvariant, PTL DEF Spec

(* Settling a command tells the console its outcome, and nothing else. *)
LEMMA SettleTells ==
  ASSUME PathInv, NEW s \in 1..MaxSeq, NEW how \in Outcome, Settle(s, how), outcome[s] = "open"
  PROVE  Channel!Settle(s, Told(how))
<1> DEFINE told == [t \in 1..MaxSeq |-> Told(outcome[t])]
<1>1. /\ outcome' \in [1..MaxSeq -> Outcome] /\ outcome'[s] = how
      /\ \A t \in 1..MaxSeq : t # s => outcome'[t] = outcome[t]
  BY Settled DEF PathInv, TypeOK
<1>2. told[s] = "open"
  BY DEF Told
<1>3. told' = [told EXCEPT ![s] = Told(how)]
  BY <1>1
<1> QED BY <1>2, <1>3 DEF Channel!Settle

(* A command that waits or is in hand is open, and only an accepted one of *)
(* them has had an effect.                                                 *)
LEMMA PendingIsOpen ==
  ASSUME PathInv
  PROVE  /\ \A i \in DOMAIN g_cmdq : LET s == g_cmdq[i].cmd.seq IN
              s \in 1..MaxSeq /\ s < g_seq_no /\ outcome[s] = "open" /\ s \notin applied
         /\ \A job \in held : LET s == job.cmd.seq IN
              /\ s \in 1..MaxSeq /\ s < g_seq_no /\ outcome[s] = "open"
              /\ s \in applied <=> worker = "accepted"
<1>1. \A job \in Pending : job.cmd.seq \in 1..MaxSeq /\ job.cmd.seq < g_seq_no
                           /\ outcome[job.cmd.seq] = "open"
  <2>1. \A job \in Pending : job.cmd.seq \in 1..MaxSeq /\ job.cmd.seq < g_seq_no
    BY DEF PathInv, AllGiven, Given, Pending
  <2> QED BY <2>1 DEF PathInv, OpenIsPending
<1> QED BY <1>1 DEF Pending, PathInv, EffectOfStage

(* A new command is a new command of the channel, and what it pushes out   *)
(* is dropped.                                                             *)
LEMMA OperatorGives ==
  ASSUME PathInv, NEW k \in Kind, NEW id \in Id, OperatorCommands(k, id)
  PROVE  Channel!Give
<1> DEFINE c == [kind |-> k, id |-> id, seq |-> g_seq_no]
<1>1. /\ g_seq_no \in 1..MaxSeq /\ g_seq_no' = g_seq_no + 1
      /\ EnqueueCommand(c) /\ UNCHANGED <<applied, latched>>
  BY PathAssumption DEF OperatorCommands, PathInv, TypeOK, lcs, PathAssumption
<1>2. c \in Command /\ c.seq = g_seq_no
  BY <1>1 DEF Command
<1> HIDE DEF c
<1>3. \/ UNCHANGED outcome
      \/ \E s \in 1..g_seq_no, how \in Outcome :
           /\ how \notin {"open", "accepted", "unknown"} /\ s \notin applied
           /\ outcome[s] = "open" /\ Settle(s, how)
  <2>1. CASE Settle(c.seq, "queue full")
    <3>1. outcome[g_seq_no] = "open" /\ g_seq_no \notin applied
      BY <1>1 DEF PathInv, AllGiven, Given
    <3>2. g_seq_no \in 1..g_seq_no /\ "queue full" \in Outcome /\ Settle(g_seq_no, "queue full")
      <4>1. Settle(g_seq_no, "queue full")
        BY <1>2, <2>1 DEF Settle
      <4>2. g_seq_no \in 1..g_seq_no
        BY <1>1
      <4> QED BY <4>1, <4>2 DEF Outcome
    <3> QED BY <3>1, <3>2
  <2>2. CASE \E i \in DOMAIN g_cmdq : Settle(g_cmdq[i].cmd.seq, "replaced")
    <3>1. PICK i \in DOMAIN g_cmdq : Settle(g_cmdq[i].cmd.seq, "replaced")
      BY <2>2
    <3>2. /\ g_cmdq[i].cmd.seq \in 1..MaxSeq /\ g_cmdq[i].cmd.seq < g_seq_no
          /\ outcome[g_cmdq[i].cmd.seq] = "open" /\ g_cmdq[i].cmd.seq \notin applied
      BY PendingIsOpen
    <3>3. g_cmdq[i].cmd.seq \in 1..g_seq_no
      BY <1>1, <3>2
    <3> QED BY <3>1, <3>2, <3>3 DEF Outcome
  <2> QED BY <1>1, <1>2, <2>1, <2>2, Enqueued
<1>4. CASE UNCHANGED outcome
  BY <1>1, <1>4 DEF Channel!Give
<1>5. ASSUME NEW s \in 1..g_seq_no, NEW how \in Outcome, how \notin {"open", "accepted", "unknown"},
             s \notin applied, outcome[s] = "open", Settle(s, how)
      PROVE  Channel!Give
  <2>1. s \in 1..MaxSeq
    BY <1>1, PathAssumption DEF PathAssumption
  <2>2. Channel!Settle(s, "dropped")
    BY <1>5, <2>1, SettleTells DEF Told
  <2> QED BY <1>1, <1>5, <2>2 DEF Channel!Give, Channel!Drop
<1> QED BY <1>3, <1>4, <1>5

(* What the worker tells of a command in hand is told once and true. *)
LEMMA WorkerTells ==
  ASSUME PathInv, NEW job \in held,
         CannotOpen(job) \/ SendFails(job) \/ TakeAccepted(job) \/ TakeWait(job)
  PROVE  [Channel!Next]_(Channel!state)
<1> DEFINE s == job.cmd.seq
<1>1. /\ s \in 1..MaxSeq /\ s < g_seq_no /\ outcome[s] = "open"
      /\ (s \in applied <=> worker = "accepted")
      /\ UNCHANGED <<g_seq_no, applied, latched>>
  BY PendingIsOpen DEF CannotOpen, SendFails, TakeAccepted, TakeWait, lcs
<1> HIDE DEF s
<1>2. CASE CannotOpen(job)
  <2>1. Settle(s, "unreachable") /\ "unreachable" \in Outcome /\ worker = "opening"
    BY <1>2 DEF CannotOpen, s, Outcome
  <2>2. Channel!Settle(s, "dropped")
    BY <1>1, <2>1, SettleTells DEF Told
  <2>3. Channel!Tell(s)
    BY <1>1, <2>1, <2>2 DEF Channel!Tell, Channel!Drop
  <2> QED BY <1>1, <2>3 DEF Channel!Next
<1>3. CASE SendFails(job)
  <2>1. Settle(s, "unknown") /\ "unknown" \in Outcome
    BY <1>3 DEF SendFails, s, Outcome
  <2>2. Channel!Settle(s, "unknown")
    BY <1>1, <2>1, SettleTells DEF Told
  <2>3. Channel!Tell(s)
    BY <1>1, <2>2 DEF Channel!Tell
  <2> QED BY <1>1, <2>3 DEF Channel!Next
<1>4. CASE TakeAccepted(job)
  <2>1. Settle(s, "accepted") /\ "accepted" \in Outcome /\ worker = "accepted"
    BY <1>4 DEF TakeAccepted, s, Outcome
  <2>2. Channel!Settle(s, "accepted")
    BY <1>1, <2>1, SettleTells DEF Told
  <2>3. Channel!Tell(s)
    BY <1>1, <2>1, <2>2 DEF Channel!Tell
  <2> QED BY <1>1, <2>3 DEF Channel!Next
<1>5. CASE TakeWait(job)
  <2> DEFINE later == [job EXCEPT !.wait = "running"]
  <2>1. worker = "refused" /\ later \in Job /\ later.cmd = job.cmd
    BY <1>5, JobChanges, LcHas DEF TakeWait, PathInv
  <2>2. \/ UNCHANGED outcome
        \/ \E how \in Outcome \ {"open", "accepted", "unknown"} : Settle(s, how)
    <3>1. CASE job.attempts >= CmdMaxAttempts
      BY <1>5, <3>1 DEF TakeWait, Outcome, s
    <3>2. CASE ~(job.attempts >= CmdMaxAttempts)
      <4>1. RequeueCommand(later)
        BY <1>5, <3>2 DEF TakeWait
      <4>2. Given(job.cmd.seq)
        BY <1>1 DEF Given, s
      <4> HIDE DEF later
      <4> QED BY <2>1, <4>1, <4>2, Requeued DEF s
    <3> QED BY <3>1, <3>2
  <2>3. CASE UNCHANGED outcome
    BY <1>1, <2>3 DEF Channel!state
  <2>4. ASSUME NEW how \in Outcome \ {"open", "accepted", "unknown"}, Settle(s, how)
        PROVE  Channel!Next
    <3>1. Channel!Settle(s, "dropped")
      BY <1>1, <2>4, SettleTells DEF Told
    <3>2. Channel!Tell(s)
      BY <1>1, <2>1, <3>1 DEF Channel!Tell, Channel!Drop
    <3> QED BY <1>1, <3>2 DEF Channel!Next
  <2> QED BY <2>2, <2>3, <2>4
<1> QED BY <1>2, <1>3, <1>4, <1>5

(* Every step of the path is a step of the channel or leaves it alone. *)
LEMMA ChannelStep ==
  ASSUME PathInv, TakenOnce, [Next]_vars
  PROVE  [Channel!Next]_(Channel!state)
<1>1. ASSUME NEW k \in Kind, NEW id \in Id, OperatorCommands(k, id) PROVE Channel!Next
  BY <1>1, OperatorGives DEF Channel!Next
<1>2. ASSUME NEW id \in Id, NEW c \in inbox[id], ServerAccepts(c) PROVE Channel!Next
  <2>1. /\ c.id = id /\ c.kind \in Kind /\ c.seq \in 1..MaxSeq /\ c.seq < g_seq_no
        /\ c.seq \notin applied /\ latched[id][c.kind] < c.seq
        /\ outcome[c.seq] \in {"open", "unknown"}
    BY LcHas DEF PathInv, AllGiven, Given, TakenOnce, OldestAhead, OutcomesAreTrue
  <2>2. /\ latched' = [latched EXCEPT ![id][c.kind] = c.seq]
        /\ applied' = applied \cup {c.seq} /\ UNCHANGED <<g_seq_no, outcome>>
    BY <1>2, <2>1 DEF ServerAccepts, Answer
  <2>3. [s \in 1..MaxSeq |-> Told(outcome[s])][c.seq] \in {"open", "unknown"}
    BY <2>1 DEF Told
  <2>4. Channel!TakeEffect(c.seq, id, c.kind)
    BY <2>1, <2>2, <2>3 DEF Channel!TakeEffect
  <2> QED BY <2>1, <2>4 DEF Channel!Next
<1>3. ASSUME NEW id \in Id, LcStops(id) PROVE Channel!Next
  BY <1>3 DEF LcStops, Channel!Stop, Channel!Next
<1>4. CASE UNCHANGED <<g_seq_no, latched, outcome, applied>>
  BY <1>4 DEF Channel!state
<1>5. ASSUME NEW id \in Id, OperatorMistypes(id) \/ LcStarts(id) \/ LcReports(id)
      PROVE  UNCHANGED Channel!state
  BY <1>5 DEF OperatorMistypes, LcStarts, LcReports, lcs, Channel!state
<1>6. CASE \E i \in DOMAIN g_cmdq : Dequeue(i) \/ WaitElapses(i)
  BY <1>4, <1>6 DEF Dequeue, WaitElapses, lcs
<1>7. CASE \E job \in held : \/ UseConnection(job) \/ ReadRecord(job) \/ Open(job)
                             \/ ServerReceives(job)
  BY <1>4, <1>7 DEF UseConnection, ReadRecord, Open, ServerReceives, lcs
<1>8. CASE \E id \in Id : \E c \in inbox[id] : ServerRefuses(c)
  BY <1>4, <1>8 DEF ServerRefuses, Answer
<1>9. CASE UNCHANGED vars
  BY <1>4, <1>9 DEF vars, lcs
<1> QED BY <1>1, <1>2, <1>3, <1>5, <1>6, <1>7, <1>8, <1>9, WorkerTells
        DEF Next, Operator, Worker, Server

(* Through queue, resends, timeouts and restarts a command takes effect at *)
(* most once and never after a newer one of its kind, and the console's    *)
(* word on it is given once and true.                                      *)
THEOREM ChannelImplemented == Spec => ImplementsChannel
<1>1. Init => Channel!Init
  BY DEF Init, Channel!Init, Told
<1>2. PathInv /\ TakenOnce /\ [Next]_vars => [Channel!Next]_(Channel!state)
  BY ChannelStep
<1> QED BY <1>1, <1>2, PathInvariant, CopiesAreTakenOnce, PTL
        DEF Spec, ImplementsChannel, Channel!Spec
================================================================================
