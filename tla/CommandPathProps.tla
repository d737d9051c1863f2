--------------------------- MODULE CommandPathProps ----------------------------
(***************************************************************************)
(* What the CC promises of an operator's command.                          *)
(***************************************************************************)
EXTENDS CommandPath

Outcome == {"open", "accepted", "replaced", "outdated", "queue full", "gave up",
            "unreachable", "unknown"}

(* Every variable stays in its range; above all no job was sent more often *)
(* than CMD_MAX_ATTEMPTS.                                                   *)
TypeOK ==
  /\ g_seq_no \in 1..(MaxSeq + 1)
  /\ DOMAIN g_cmdq \subseteq 1..CmdQueueLen
  /\ \A i \in DOMAIN g_cmdq : g_cmdq[i] \in Job
  /\ worker \in {"idle", "connecting", "opening", "sending", "replying", "accepted", "refused"}
  /\ held \subseteq Job /\ node_known \in BOOLEAN
  /\ tracked \subseteq Id /\ link_seen \in [Id -> BOOLEAN]
  /\ override_coid \in [Id -> 0..MaxStarts]
  /\ lc_up \in [Id -> BOOLEAN] /\ lc_starts \in [Id -> 0..MaxStarts]
  /\ inbox \in [Id -> SUBSET Command]
  /\ latched \in [Id -> [Kind -> Nat]]
  /\ outcome \in [1..MaxSeq -> Outcome] /\ applied \subseteq Nat

Pending == held \cup {g_cmdq[i] : i \in DOMAIN g_cmdq}
SameTarget(c, d) == c.kind = d.kind /\ c.id = d.id

(* One command of a kind waits for an intersection, and it is newer than   *)
(* any the worker still has in hand: "a newer command of the same kind for *)
(* the same intersection replaces a queued one" (README), resends          *)
(* included.                                                               *)
NewestWaits ==
  \A i \in DOMAIN g_cmdq :
    /\ \A j \in DOMAIN g_cmdq : SameTarget(g_cmdq[i].cmd, g_cmdq[j].cmd) => i = j
    /\ \A job \in held : SameTarget(g_cmdq[i].cmd, job.cmd) => job.cmd.seq < g_cmdq[i].cmd.seq

(* An LC never takes an older command after a newer one of its kind,       *)
(* through resends, timeouts whose command arrives all the same, and       *)
(* reconnections.                                                          *)
NewestWins ==
  [][\A id \in Id, k \in Kind :
       latched'[id][k] # latched[id][k] =>
         latched'[id][k] > latched[id][k] \/ ~lc_up'[id]]_vars

(* The console tells the operator the truth: a command it reports as       *)
(* accepted was, one it reports as given up, replaced or never sent has    *)
(* had no effect and will have none; only after a failed send it does not  *)
(* know.                                                                    *)
OutcomesAreTrue ==
  \A s \in 1..MaxSeq :
    /\ outcome[s] = "accepted" => s \in applied
    /\ s \in applied => outcome[s] \in {"open", "accepted", "unknown"}
    /\ outcome[s] \notin {"open", "unknown"} =>
         \A id \in Id : \A c \in inbox[id] : c.seq # s

(* A command is open exactly as long as it is queued or in the worker's    *)
(* hands: none is forgotten without a word to the operator, and none that  *)
(* was settled comes back.                                                 *)
OpenIsPending ==
  /\ \A s \in 1..MaxSeq :
       outcome[s] = "open" /\ s < g_seq_no <=> \E job \in Pending : job.cmd.seq = s
  /\ held = {} <=> worker = "idle"

(* Every command comes to an outcome. *)
EveryCommandSettled ==
  \A s \in 1..MaxSeq : g_seq_no > s ~> outcome[s] # "open"

(* "You can send a command to an intersection the CC hasn't heard from     *)
(* yet; it's delivered once that LC's first report tells the CC where it   *)
(* is" (README): none is given up for want of a connection before that.    *)
KeptUntilHeard ==
  [][\A s \in 1..MaxSeq :
       outcome[s] = "open" /\ outcome'[s] = "unreachable" =>
         \E job \in held : job.cmd.seq = s /\ link_seen[job.cmd.id]]_vars
------------------------------------------------------------------------------
(* The inductive invariant.  A command is in one place: in a slot, in the  *)
(* worker's hands, or settled; the LC may have a copy of it meanwhile.     *)

(* The worker holds one job, and a job that will be sent was sent less     *)
(* often than it may be.                                                   *)
WorkersJob ==
  /\ \A a, b \in held : a = b
  /\ held = {} <=> worker = "idle"
  /\ \A i \in DOMAIN g_cmdq : g_cmdq[i].attempts < CmdMaxAttempts
  /\ worker \in {"connecting", "opening"} => \A job \in held : job.attempts < CmdMaxAttempts

(* Everything anybody knows of was given by the operator before. *)
Given(s) == s \in 1..MaxSeq /\ s < g_seq_no
AllGiven ==
  /\ \A i \in DOMAIN g_cmdq : Given(g_cmdq[i].cmd.seq)
  /\ \A job \in held : Given(job.cmd.seq)
  /\ \A id \in Id : \A c \in inbox[id] : c.id = id /\ Given(c.seq)
  /\ \A id \in Id, k \in Kind : latched[id][k] < g_seq_no
  /\ \A s \in applied : Given(s)
  /\ \A s \in 1..MaxSeq : outcome[s] # "open" => Given(s)

(* No command is in two slots, or in a slot and in hand; of those only the *)
(* one being sent is at an LC.                                             *)
InOnePlace ==
  /\ \A i, j \in DOMAIN g_cmdq : g_cmdq[i].cmd.seq = g_cmdq[j].cmd.seq => i = j
  /\ \A i \in DOMAIN g_cmdq : \A job \in held : g_cmdq[i].cmd.seq # job.cmd.seq
  /\ \A id \in Id : \A c \in inbox[id] :
       /\ \A i \in DOMAIN g_cmdq : g_cmdq[i].cmd.seq # c.seq
       /\ \A job \in held : job.cmd.seq = c.seq => job.cmd = c /\ worker = "replying"

(* A command that waits, or is in hand and not accepted, has had no effect. *)
EffectOfStage ==
  /\ \A i \in DOMAIN g_cmdq : g_cmdq[i].cmd.seq \notin applied
  /\ \A job \in held : job.cmd.seq \in applied <=> worker = "accepted"

(* Of one kind and intersection, what the LC did is older than what it     *)
(* works on, that than what is in hand, and that than what waits.          *)
OldestAhead ==
  /\ \A i \in DOMAIN g_cmdq :
       latched[g_cmdq[i].cmd.id][g_cmdq[i].cmd.kind] < g_cmdq[i].cmd.seq
  /\ worker # "accepted" =>
       \A job \in held : latched[job.cmd.id][job.cmd.kind] < job.cmd.seq
  /\ \A id \in Id : \A c \in inbox[id] :
       /\ latched[id][c.kind] < c.seq
       /\ \A i \in DOMAIN g_cmdq : SameTarget(g_cmdq[i].cmd, c) => c.seq < g_cmdq[i].cmd.seq
       /\ \A job \in held : SameTarget(job.cmd, c) => c.seq <= job.cmd.seq

PathInv ==
  /\ TypeOK /\ WorkersJob /\ AllGiven /\ InOnePlace /\ EffectOfStage
  /\ NewestWaits /\ OldestAhead /\ OpenIsPending /\ OutcomesAreTrue

(* What is true of an LC's copy besides: a command it works on has had no  *)
(* effect before, here or at another LC, though its sender may have given  *)
(* it up.                                                                  *)
TakenOnce ==
  /\ \A id \in Id : \A c \in inbox[id] : c.seq \notin applied
  /\ \A id, j \in Id : \A c \in inbox[id], d \in inbox[j] : c.seq = d.seq => id = j /\ c = d

(* The path of a command, with its resends and timeouts, keeps the promise *)
(* of CommandChannel: at most once, newest wins, each outcome told once    *)
(* and true, in every step of every actor.                                 *)
Told(o) == IF o \in {"open", "accepted", "unknown"} THEN o ELSE "dropped"
Channel == INSTANCE CommandChannel WITH
  next <- g_seq_no, outcome <- [s \in 1..MaxSeq |-> Told(outcome[s])], latest <- latched
ImplementsChannel == Channel!Spec
================================================================================
