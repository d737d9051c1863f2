# Traffic and railway controllers: a TLA+ model

This directory models the program in `src/asm3_sensor_driven`: *local
controllers* (LC), one per signalised intersection beside a railway crossing,
and a *central controller* (CC) that monitors them and sends operator commands.
The program is written for QNX: threads that exchange pulses (queued, not
answered) and messages (a rendezvous that is answered).

## 1. Inventory

An LC is one process, a CC is another.  Everything that decides a signal runs on
one thread of the LC, `Phase_Controller_Task`; the other threads feed it pulses
or carry out what it asks.

| component (source) | state | operations | talks to | what makes it correct |
|---|---|---|---|---|
| phase table (`phase_table.c`) | constant | `phase_table_allows`, start-up check | asked by the arrows | no row releases two conflicting movements |
| context, steps (`lc_context.c`) | `lc_context_t`: step, countdown, published safety view, everything below | `lc_enter_step`, locked setters | every task | the view read by other threads matches the step |
| right-turn arrows (`right_turn.c`) | remaining time per arrow | step change, tick, force off | context | an arrow never outlives the steps that allow it |
| vehicle cycle (`fixed_timing.c`) | two vehicle heads | `fixed_timing_advance`, begin green | tick | all-red between two greens |
| sensor mode (`sensor_driven.c`) | demand flags, `min_green_elapsed` | detection (other thread), tick | tick | a green keeps its minimum; detections are used up |
| mode schedule (`mode_schedule.c`) | mode, period | tick | simulated clock | mode follows the period until the CC changes it |
| pedestrian (`pedestrian.c`) | request flag, pedestrian head | press (other thread), walk, clearance | tick | a request is served; nothing moves meanwhile |
| railway protection (`railway_protection.c`) | steps `RAIL_*`, crossing lights, train light, fault | approach, cleared, nine timed steps, gate events | train sensor, gate | the crossing is closed, cleared, warned and locked in that order, and stays so until the gate is up |
| boom gate (`boom_gate.c`) | gate state, attempts, the gate task | close, retry, open, report | controller and gate task | one move at a time, one report per move, bounded attempts |
| command server (`central_command_server.c`) | command slots | accept or WAIT, apply | CC, controller | nothing unsafe is applied; nothing accepted is forgotten |
| status reporting (`status_report.c`) | link, retry counter, dirty flag, fault queue | absorb, flush, retry, back off | CC | the last state and every fault reach the CC |
| timetable (`train_schedule.c`) | 24 h of trains, simulated clock | build, fire | train sensor, mode schedule | every train it can warn for is announced once |
| console (`console_input.c`) | none | one key, one call | all inputs | - |
| central controller (`cc/central_controller.c`) | records of LCs, command queue | receive reports; queue, deliver, requeue commands | LCs | a command is delivered, refused or reported lost, newest first; records show the newest report |
| signal outputs (`signal_output.c`, `railway_signal_task`) | none | print | controller | - |

What is hard here is not any one function but the order they run in.

* **One queue, many senders.**  Timer, console, timetable, gate task and command
  server all send pulses to one FIFO.  A gate report may reach the controller
  behind a tick, a train behind an override, a clear before the train it clears.
* **Decisions taken on another thread.**  The command server decides from a
  published view and the controller applies the command later; detections and
  presses are flags set while a tick reads them.
* **A blocking send in a loop that must not block.**  Commanding the gate is a
  rendezvous with a task that sleeps while the gate moves.
* **Faults and retries.**  A close can fail, is retried, and after three attempts
  starts over, with a light telling the train and a bit telling the CC.
* **An unreliable link.**  Reports and commands time out with unknown outcome.

`PROJECT.json` lists each such hazard at the line where it bites, with the
properties that would catch it going wrong.

## 2. Modules

First the LC's modules, in reading order, each extending the one before; then the path of
a command, the path of a report, and three modules about time.  The last three repeat
steps of the first group with their durations and without what takes no time; each says
what it leaves out.

| module | models |
|---|---|
| `PhaseTable` | steps, movements, the table and its start-up check |
| `LcContext` | constants, the variables of `lc_context_t` and of the tasks, `lc_enter_step()` with the arrows |
| `VehicleControl` | what a tick does before it looks at the countdown (arrows, mode, early end of a green), and the end of a countdown in the vehicle cycle and the pedestrian crossing |
| `RailwayProtection` | the closure: timed steps, train pulses, gate events, gate commands |
| `GateAndServer` | the gate task, the command server, and the application of commands |
| `LocalController` | the tasks together: `Init`, the pulse loop, timer, inputs, `Next`, fairness |
| `LocalControllerProps` | properties, the inductive invariant, the refinement mapping |
| `Crossing` | the abstract specification: released roads, closed or not, barrier, train light |
| `MCLocalController` | durations for TLC |
| `CommandPath` | the CC's operator console, command queue and worker, with an LC reduced to its command server |
| `CommandChannel` | the abstract specification of a command: taken at most once, newest wins, outcome told once |
| `CommandPathProps`, `MCCommandPath` | its properties and refinement mapping; the root module for TLC |
| `StatusReport` | `notify_status()`, the status task with its queue of faults, retries, back-off and reconnects, the CC's workers and the record of an LC |
| `StateReporting` | the abstract specification of the status path: states learnt in order, alarms only of faults raised |
| `CommonTimes` | durations of `common.h` and their scaling |
| `RailTiming` | the closure and the pedestrian crossing in milliseconds, the timetable's train, the wait told to the CC |
| `TrainSchedule` | the timetable and the task that works it off |
| `LinkAge` | when an LC reports and how old the CC's record of it gets, against the STALE threshold |
| `*Props`, `MC*` | the properties of a module; instances for TLC |
| `*_proofs` | theorems |

### How state and actions correspond to the code

A handler of the controller runs to its end before the next pulse is received,
and no other thread waits for it half-way, so each handler is one action:
`HandleTick`, `HandleApproach`, `HandleCleared`, `HandleCommands`,
`HandleGateStatus`, one for each `case` of the loop that does anything.
A tick is one action too, whatever module its countdown ends in; `AdvanceX` is
the branch for step X.  `EnterStep` is in every branch that changes the step, as
in the code, and carries the published view and the arrows with it.

Other threads are cut where another thread can see the difference:

* the command server in three steps: decide from the view (`ServerAcceptsX`), fill
  the slot (`ServerLatches`), wake the controller (`ServerWakesController`).  A WAIT
  answer changes nothing in the LC and is no step;
* the gate task in two: take the command and decide how the move will end
  (`GateStartsMoving`), report it (`GateReports`).  The command itself is part of
  the controller's action and needs the task idle: that is the rendezvous.

Abstractions, and why they are sound for what is checked:

* Durations are counted in 100 ms ticks (`Duration[s]`); the proofs hold for any
  positive ones.  A tick is a pulse in the same queue as the others; handlers are
  assumed to finish inside one tick, so at most one tick waits (`TimerFires`).
* `pulses` keeps the order of all senders: the threads run at one priority.
* `PED_REQUEST` and `VEHICLE_DEMAND` pulses are ignored by the controller and
  `rail_clear_req` is never read; they are left out, the flags they announce are not.
* Waiting reports are the set `reports`: the status task drains all it finds and
  sends one snapshot.
* The clock is the service period it is in, which changes at any time.
* `FAULT_*` flags other than the gate's are never raised.  `FAILSAFE` is never
  entered; its branch is in `Rearm` and the invariant shows it is not taken.
  The default case of `advance_step()` is unreachable for the same reason: every
  step has a handler.
* An override of a green passes through that green for a moment before
  `OVERRIDE_HOLD`; both happen in one handler, which ends with the arrows off.
* The CC sends only the two modes its console knows, but the proofs cover all three.
* A failed send to the gate task (its thread is gone) is not modelled.

### The command path

`CommandPath` cuts the CC where another thread, an LC or the network can come between:

* the console makes a record and queues a command under the queue's lock
  (`OperatorCommands`); a line with a wrong word in it leaves the record behind
  (`OperatorMistypes`);
* the worker takes the job that is due first (`Dequeue`), reads the record under its
  lock (`UseConnection`, `ReadRecord`), opens the name without the lock (`Open`,
  `CannotOpen`), sends (`ServerReceives`), and ends the attempt (`SendFails`,
  `TakeAccepted`, `TakeWait`, which queues the command again);
* an LC receives, answers, starts and stops, and its reports make the CC know its node.

The module composes with the LC by what the server answers: `GateAndServer` has the
reasons for WAIT, here an override may be refused at any time.  Abstractions:

* a connection is the run of the LC process it was opened to (`override_coid`), so one
  that outlives its process fails, as a QNX connection does;
* a send may fail at any moment before the answer: a timeout, a lost link and a dead
  process look alike to the worker.  A command the server has received stays with it,
  so it may take effect after the console was told "outcome unknown";
* a server handles one command at a time and the CC has one worker, so an LC has at most
  one command in hand; a name resolves when the LC runs and is on the CC's node or has
  been heard from, and even then the lookup of another node's name may fail (`CannotOpen`):
  the link to it may be down;
* waits run out in any order, which includes the real one; that a new command goes
  before any resend is kept;
* `outcome` and `applied` are history variables, and `quit` (the process ends) is left out.

### The status path

`StatusReport` cuts where the controller, the status task, a worker or the network can
come between:

* a handler of the controller is the order in which it writes the state and notifies
  (`Handlers`, two of them in `MCStatusReport`, each with the code it is taken from);
  `WriteState` and `NotifyStatus` are steps of their own, for the status task can take its
  snapshot between them;
* the status task takes its pulses one by one, waiting or draining (`AbsorbPulse`), begins
  to send when none is left and an attempt is due (`BeginFlush`), connects, takes a
  snapshot under the lock (`FillSnapshot`), and is blocked in its send until a reply
  (`SendSucceeds`) or a timeout (`SendFails`);
* a worker receives, replies and only then records (`Receive`, `Reply`,
  `RecordReport`), several of them side by side; it records nothing for an LC that found
  every slot of the table taken (`OthersFillTable`, `g_lc_full`);
* the CC stops between any two steps and is started again, without its records.

The state of the LC is a version number: what matters is which state a report carries,
not what it says.  `due` is whether `g_next_attempt_ms` has passed; the gap before a resend
and the back-off differ only in length.  A connection is the run of the CC it was
opened to.  `told`, `heard`, `raised`, `alarmed` and `overtaking` are history variables.
`g_central_link_up` decides only what is printed and is left out.  A report that is
answered or given up is forgotten (`report`), as the code's is when `send_report()` returns.
That a reply reaches only the send it answers is the kernel's rule and a premise here, not a
result.  The LC itself is not restarted: a new LC process starts its status path as `Init` does.

### Times

`RailTiming` is the closure and the crossing with their real durations.  A tick's time
passes in one step (`TimePasses`), and only when the controller has handled the last
tick; the gate reports between two ticks, at most `GateLate` after its travel.  Roads
are the one step `ROAD`, since nothing there waits for them.  The train is the one the
timetable announces: due `RAIL_PROTECT_LEAD_S` after the sensor, clear
`RAIL_TRAIN_OCCUPY_S` later.  `busy` is `busy_until_ms`, from now; `WaitTold` is the answer
of the command server with its rounding to seconds.  Presses are left to any moment a
crossing may start.

`TrainSchedule` builds the table as `train_schedule_build()` does, one iteration a step,
then works it off over the simulated clock.  The task wakes at most `Late` simulated
seconds after what it waits for: `wait_until_sim()` sleeps what is left, in slices, so only
the scheduler makes it late.

`LinkAge` keeps, of every step, how long it takes, what follows it and whether the code at
its end calls `notify_status()` (it does not at the end of `Silent` steps).  Overrides,
trains and mode changes come at any moment.  What is known of the status path is how long
a report may take (`Delivery`): `LostRounds` rounds of `STATUS_MAX_RETRY` sends that time out,
with gaps and back-off, before one gets through.

## 3. Runs

The instances are small in time, not in behaviour: durations of one tick, greens of
three so that a minimum green (2) and an arrow (2) can end before them, an occupied
and an override step of two where a train clearing early must make a difference.

| run | constants that matter | what it shows |
|---|---|---|
| `lc_rail` | `FairSpec`; keys p, t, c, g; up to two queued pulses; one override, to all-red | the railway: `GateDownForTrain`, `FaultStopsTrain`, `ControllerNeverWaitsOnGate`, `AwaitedReportComes`, `ReopensOnlyWhenGateOpen`, `ImplementsCrossing`; and `ProtectionEnds`, `ApproachProtected`, `PedestrianServed`, `CommandsApplied` |
| `lc_commands` | overrides to all-red and to greens, mode switches, keys p, n, t, c, two periods, a forced fault per closure | commands racing everything else: the inductive invariant, `VehicleHeadsObeyTable`, `NoCommandStranded`, `ClosureInOrder`, `MinGreenKept`, `AllRedNotSkipped` |
| `lc_walk_preempted` | keys p, t | violated: see finding 1 |
| `lc_second_train` | `FairSpec`; key t | violated: finding 2 |
| `cc_commands` | two LCs (one local, one remote) started twice each, three commands, a queue of two, two attempts | the inductive invariant `PathInv`, `OutcomesAreTrue`, `NewestWins` |
| `cc_live` | `FairSpec`; the same with one record for the two intersections | `ImplementsChannel`: every step of console, worker and LC is a step of `CommandChannel` or none; `EveryCommandSettled` |
| `cc_unheard` | one command | violated: finding 3 |
| `st_reports` | `FairSpec`; the gate's fault, two workers, two sends before back-off, the CC started twice | `ChangesStayPending`, `AlarmsStayQueued`, `RecordLastOrOvertaken`, `KeepsPromise`; and `EveryChangeHeard`, `EveryAlarmHeard` |
| `st_two_workers` | the CC started once, two workers | violated: finding 4 |
| `rt_closures` | factor 3 (divides neither the durations nor the tick); any number of gate faults | `WaitCovers`, `TrainMeetsLockedGate`, `GateHeldUntilClear`, `TrainGetsItsTime` |
| `ts_table` | factor 1 (most trains, closest together), thirteen starts around every change of period, each weekday | `NoTrainMissing`, `TableHoldsDay`, `TrainsApart`, `EveryTrainWarned` |
| `la_default` | factor 5, the gate 100 ms late, one lost round of sends | `NeverLongSilent`, `LiveLinkNotStale` |

`NoTrainMissing` gives the time of each train from the one before, so it includes that trains
run only in service.  The inductive invariants contain the type invariants of the LC and of
the command path; those of `StatusReport`, `RailTiming` and `LinkAge` are proved.

Bounds.  `MaxPulses` holds back *inputs* while that many pulses are queued; the gate's
report, the timer and the server's wake-up are never held back.  Two are enough for
a train and a clear to be queued in either order before or behind a tick and a gate
report; in `lc_commands` one input is, and the server adds its own.  Three close attempts
reach the retry, the last attempt and the start over.  Nothing else is bounded: `arrow` and
`countdown` are bounded by the durations.

`MaxSeq` bounds the operator's commands.  Three are one more than the queue holds, and let a
newer command meet an older one in the queue, in the worker's hands and at the LC.  In
`cc_live` the bound is also an assumption: new commands go before resends, so an
operator who never stops typing could keep a resend waiting.  `MaxStarts` of two gives
a connection that outlives its LC; two attempts give a resend and a last one.
`MaxTrackedLc = 1` lets the table of intersections run full.

In `StatusReport`, `MaxVersion` and `MaxRuns` bound the states and the starts of the CC.  Three
states let a change and a fault fall before, during and after a send; two starts give a
connection that outlives its CC.  There is one fault, for only the gate's is ever raised
(`railway_protection.c:161`), so the queue of eight never fills; two workers are enough for
one report to overtake another.  The proofs hold for any number of faults, any queue and
the three workers of the code.  `RailTiming` and `LinkAge` have no
bound but the lateness of the gate (`GateLate`) and the lost rounds: their times are bounded
by the durations.  `GateLate` of one tick is the smallest at which the report can fall on
either side of a tick; the proofs about the wait and the train's time allow 400 ms, those
about the gate and the train light any lateness.  `Late` is 40 simulated seconds;
`EveryTrainWarned` is proved up to 45, the rest for any.

Fairness.  `FairSpec` asks weak fairness of the controller, the timer, the gate task,
the server's steps once it has a command and the status task: each is a thread in a
loop that waits for nothing but its own queue, at one priority under a scheduler that
lets them all run.  That the controller does not wait on the gate task for ever is a
checked invariant, not an assumption.  Nothing is assumed of people, trains and operators; the
liveness properties say what they need of them (for example, that from some time on
nobody arms a gate fault).

For the CC: weak fairness of the worker (its send has a timeout), of the servers and of
each running wait.  Nothing is assumed of operators, nor that an LC starts, stays up or
is ever heard from.

For the status path: weak fairness of the status task, of the rest of a begun handler, of
the passing of deadlines and of a worker that has a report.  Strong fairness is asked of
connecting, of a report being received and of its answer arriving in time: a send that is
repeated for ever while the CC is up gets through at last.  This is the least the
network must do, and the properties are stated under `[]<>cc_up` besides.  A link that
loses every send is no counterexample the code could do anything about.

### Findings

1. *WALK stays lit.*  `railway_begin_protection()` turns both roads yellow in the middle
   of a crossing and does not touch the pedestrian head.  It shows WALK through the
   closure and beside the NS green after it, until the request is served again.
2. *A second train is forgotten* if it is reported while protection is active, even
   when the gate is already rising.
3. *A command sent too early is dropped.*  `src/README.md` promises that a command for an
   intersection not heard from yet is delivered after its first report.  The worker takes
   it from the queue, cannot connect, says so, and forgets it.
4. *The dashboard may keep an older state.*  A worker answers before it records, so the LC's
   next report can be recorded by another worker first and the older one over it.  Nothing
   corrects that before the LC's next change, and `LINK` says OK.  `RecordLastOrOvertaken`
   says that this is the only way: it happens only if another worker still had a report when
   the last one was received.

Observations made while modelling, each visible in the modules, for which no run is kept:

* *Overrides to a green skip yellow and all-red* (`central_command_server.c:116`), on the
  way in and when the hold ends.  `AllRedNotSkipped` says that nothing else does: trains,
  crossings and mode changes all come through the all-red interval.
* *A demand flag is never cleared* once set (`sensor_driven.c:32`): it is cleared only where
  it is clear.
* *Yellow to all-red is not reported* to the CC (`fixed_timing.c:41`), nor are the gate's
  retry and raise.
* *The phase of a new green may not be reported.*  `fixed_timing_begin_ew_green()`
  notifies and returns to its caller, which then writes the phase (`fixed_timing.c:52`).  A
  snapshot between the two has the old phase.
* *The wait does not cover a gate fault.*  `railway_remaining_ms()` counts on the gate locking
  in time (`railway_protection.c:105`); hence `NoFault` in `WaitCovers`.
* *The train light turns red when the train is due already.*  The gate is told to close
  10 s before, and that the close failed is known after 11 s
  (`railway_protection.c:152`); hence `FaultKnownAfter` in `TrainMeetsLockedGate`.
* *A clear cuts the occupied step short after a retry* (`train_schedule.c:207`): the
  timetable reports it at a fixed time after its sensor; hence `NoFault` in
  `TrainGetsItsTime`.

## 4. Proofs

`LocalController_proofs` proves, for all durations, attempts, keys and commands that
satisfy the named assumptions of the constants, the theorems listed in `PROJECT.json`.
The argument has four parts.

* **The inductive invariant `IInv`.**  Almost every safety property says something about
  a step, so `IInv` says, for every step, what all the other variables may be:
  `HeadsOfStep` (vehicle heads and arrows), `GateOfStep` (gate state, gate task and its
  queued report), `SignalsOfStep` (railway and train lights, phase, published view).
  None of the properties is inductive alone.  "The gate is locked while the train is due"
  needs to know that no report of an earlier move is still queued, which needs that
  each command waits for the one report before it, which needs that the controller
  leaves `GATE_LOWER` and `GATE_RAISE` only on a report (`AwaitedReportComes`).  An
  attempt count that is not reset would break `CloseAttemptsBounded` one train later.
  The proof has one lemma per action; those of the gate step and the queue follow the
  one report through the FIFO.
* **Step properties** (`ClosureInOrder`, `ReopensOnlyWhenGateOpen`, `MinGreenKept`,
  `AllRedNotSkipped`) follow from `IInv` in the state before.  `MinGreenKept` needs
  an invariant of its own, that a green in which `min_green_elapsed` is set has run
  its minimum.  `VehicleHeadsObeyTable` is about vehicle heads and arrows only: the pedestrian
  head does not follow the table (finding 1).
* **`NoCommandStranded`** follows the server's state, the two slots and the queued
  wake-ups.
* **Refinement.**  `Implements` maps every step to a step of `Crossing` or a stutter.  The
  abstract theorem `EmptyUnderGate` then carries over: `NobodyUnderBoomGate`.

`CommandPath_proofs` proves every safety property of the CC's command path, for any
intersections, queue length, attempts, commands and restarts, from `PathInv`.  The
properties lean on one another: that a command reported "replaced" has had no effect
(`OutcomesAreTrue`) needs that a queued one has none (`EffectOfStage`), which needs that
no copy of it is still at an LC (`InOnePlace`), which holds because only a WAIT answer
queues it again and a send with unknown outcome does not.  `NewestCommandWins` needs the
order all along the way (`OldestAhead`): done, at the LC, in hand, queued.  One lemma
per action, and in it one step per part of the invariant.

`ChannelImplemented` adds the refinement of `CommandChannel`.  The mapping shows the abstract
channel the console's messages and the commands the LCs latched.  That a latched command
is a new one needs more than `PathInv`: of a command at most one copy is at any LC, and
none when it took effect (`TakenOnce`, proved as `CopiesAreTakenOnce`), because a send with
unknown outcome is not repeated.

`StatusReport_proofs` proves every safety property of the status path, for any faults,
handlers, workers, retries and starts of the CC, from `ReportInv`.  What makes it
inductive is `StillMarked`, that the report in flight answers for the head of the fault
queue or for the dirty flag, which stay until the answer, and `LaterWaits`, that whatever
was notified after its snapshot is still in the pulse queue.  `AlarmsAreKept` needs that no
more faults exist than the queue holds, as the code says; `PromiseKept` is the refinement
of `StateReporting`.

`RecordIsLastReport` is false (finding 4); what is proved, for any number of workers, is
`RecordLastOrOvertaken`.  Its invariant `RecordInv` follows what the CC lacks: unless the last
report came while another worker was busy, a worker is about to record it, or the LC has
marked its state unsent.  It must survive a CC that is stopped with a report in hand (the new
one needs a new connection, which marks the state) and a reply that is lost after the worker
took the report (the mark stays).

`RailTiming_proofs` proves the four properties of the closure in time at every factor the
build accepts (`Factors`, in `CommonTimes_proofs`: the check in `common.h` leaves 1 to 5).

* The wait told to the CC covers the sequence, if the gate is at most 400 ms late, in every
  closure in which it does not fail.  The invariant `WaitInv` is that in such a closure the
  published busy time is never less than what is left of the sequence, and a wait told
  never less than that by more than a tick for each step gone by; the second that the
  server adds and the second by which the gate rises faster than it is given pay for them.
* The train.  Rounding works in both directions: a step may last almost a tick longer than
  its time, or end a tick early when the pulse that ends it already waits.  `ClosureInv`
  therefore bounds the train's time plus what is left of the step from both sides.
  `NotLate` (with `Latest`) says that no step of the lead ends too late, so the gate is
  locked, or known to have failed, when the train is there: `TrainIsProtected`.  `NotSoon`
  (with `Soonest`) says that a step that no clear has cut short ends no earlier than the
  sum of the steps before it allows, and that sum lies behind the timetable's clear:
  `GateIsHeld`.  Both hold for any number of failed attempts and any lateness of the gate,
  and both need `GateFollows`, that gate, light and fault flag are those of the step: a
  clear cuts the occupied step short only where the gate is down.
* `GateIsDownLongEnough`, in a closure without a fault and with the gate at most 400 ms
  late: `LockedFor` adds to these how long the gate has been locked.  If the clear cuts the
  occupied step short, the hold after the train makes up for a late lead.

`TrainSchedule_proofs` proves every property of the timetable, at every factor and from
every second of the week.

* The table stays in its bounds, and two trains in a row are further apart than a closure
  (`ScheduleInv`), however late the task is; a task at most 45 simulated seconds late
  announces every train (`OnTime`), because a headway exceeds a closure and a lead by that
  much.
* `TableInv` follows the building of the table.  `NoHoleInTheTable` and `NoTrainOutOfService`
  need the calendar: `MorningOf` divides time into days from 06:30 to 06:30, in which the
  hours by day come first and the night has one evening, and `ServiceHours` shows that the
  code's test (a night hour, and the weekday of today or yesterday) is that of the
  specification, and that what it skips is what is left of the night.
* `TableLargeEnough`: the 512 entries are never all taken.  A bound by the shortest headway
  alone would not do, since a day of peak headways needs 720.  `Weighted` counts each second of peak
  so that every train, peak or not, adds at least 240, and the peak hours of a day are
  limited.

`LinkAge_proofs` proves that a live LC is not shown STALE at any factor, if the gate is at most
five seconds late and at most one round of sends is lost.  The invariant is
`NeverLongSilent`: what is left of a step, together with the step after it when it ends in
silence, is at most one vehicle green, so the next notification is never further away.

Every safety property that a passing run checks is stated by a theorem.  Only model-checked:
liveness (in `lc_rail`, `cc_live`, `st_reports`), which the prover does not reach.  Conditions
of the theorems, each an `ASSUME` of the theorem: `GateLate <= 400` (`WaitIsLongEnough`,
`GateIsDownLongEnough`), `Late <= 45` (`NoTrainUnwarned`), and those of `LinkAge_proofs`.
Not provable because false: the properties of the four findings.

## 5. What is not modelled, and the plan

Left to prove:

1. That a closure without a fault is over before the timetable's next sensor, at every
   factor.  `RailTiming` has a train only come when the last closure is over, and
   `TrainsApart` compares headways with the 90 seconds of `common.h:113`; an
   invariant with the length of the whole closure would join the two.
2. How long a report stays pending in `StatusReport`, in retries and not in time, as
   `LinkAge` assumes it.

Left to model:

1. A restart of the LC while reports of the old process are at a worker.
2. The commands and the status path together: `CommandPath` assumes that the CC hears of an
   LC at some time, `StatusReport` shows when.

Hazards without a property, and why:

* One slot for each kind of command in an LC (`central_command_server.c:48`).  The second of
  two accepted overrides replaces the first.  That is what the newest command wins means
  at the CC, and nothing in the repository says otherwise of the LC.
* A press during clearance (`pedestrian.c:54`) and a detection while the tick clears its
  flag (`sensor_driven.c:32`) are lost.  The state that results is one the model has, and
  no document promises more.
* The table of intersections running full, and a node read a moment before the first report
  (`central_controller.c:117`, `:443`).  Both are in the model; no document says what a refused
  or unreachable command should come to, beyond finding 3.
* A wait told before the gate fails (`railway_protection.c:105`) ends while the closure goes on:
  the code counts no retry (see the observations).
* The places that do not notify, or notify too early (`fixed_timing.c:41`, `:52`): the code
  does not keep such a property (see the observations).

Left out for good, because no state the rest depends on is in them: signal output tasks
and `railway_signal_task` (they print), the dashboard's layout, the log, status lines and
`phase_table_dump`, `probe_cc_connectivity()` at start-up (it opens and closes a name), name
helpers, option parsing, and build files.  A failed send to the gate task needs the death
of a thread that has no way to end.
