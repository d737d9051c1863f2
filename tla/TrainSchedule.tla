----------------------------- MODULE TrainSchedule -----------------------------
(***************************************************************************)
(* train_schedule.c: the timetable of the next 24 simulated hours, built   *)
(* from the moment the process starts, and the task that works it off,     *)
(* which trips the sensor ahead of each train and reports it clear.        *)
(* Times are simulated seconds after the start.  announced are the trains  *)
(* the controller was told of, and read by no step.                        *)
(***************************************************************************)
EXTENDS Integers, Sequences

CONSTANTS
  TIME_SCALE_FACTOR,
  StartSods,    \* seconds of the day at which the process may start
  Late          \* bound: simulated seconds by which the task wakes up late

DAY_S       == 24 * 3600
SecondOfDay == 0..(DAY_S - 1)

ASSUME ScheduleAssumption ==
  /\ TIME_SCALE_FACTOR \in Nat \ {0}
  /\ StartSods \subseteq SecondOfDay
  /\ Late \in Nat

SOD(h, m) == h * 3600 + m * 60
PEAK_AM_START_SOD == SOD(6, 30)
PEAK_AM_END_SOD   == SOD(9, 0)
PEAK_PM_START_SOD == SOD(16, 30)
PEAK_PM_END_SOD   == SOD(19, 30)
NIGHT_START_SOD   == SOD(22, 0)
NIGHT_END_SOD     == SOD(6, 30)

TRAIN_HEADWAY_PEAK_S    == 2 * 60 * TIME_SCALE_FACTOR
TRAIN_HEADWAY_OFFPEAK_S == 4 * 60 * TIME_SCALE_FACTOR
TRAIN_HEADWAY_NIGHT_S   == 1800

RAIL_PROTECT_LEAD_S   == 50
RAIL_TRAIN_OCCUPY_S   == 25

(* Mutant: a table too small for the day at real-world speed. *)
FEWER_TIMETABLE_ENTRIES == 256
MAX_TIMETABLE_ENTRIES   == 512
SCHEDULE_HORIZON_S      == 24 * 3600

VARIABLES
  g_start_sod, g_start_wday,
  at,           \* where the thread is: building, or in the loop of the task
  t,            \* where building has got to
  g_timetable,
  i,            \* the train the task is at
  now,          \* sim_elapsed_s()
  announced     \* the trains whose approach was told

vars == <<g_start_sod, g_start_wday, at, t, g_timetable, i, now, announced>>

Init ==
  /\ g_start_sod \in StartSods /\ g_start_wday \in 0..6
  /\ at = "build" /\ t = 0 /\ g_timetable = <<>>
  /\ i = 1 /\ now = 0 /\ announced = {}

------------------------------------------------------------------------------
(* train_schedule_build() *)

TrainPeriod(sod) ==
  IF sod >= NIGHT_START_SOD \/ sod < NIGHT_END_SOD THEN "NIGHT"
  ELSE IF \/ sod >= PEAK_AM_START_SOD /\ sod < PEAK_AM_END_SOD
          \/ sod >= PEAK_PM_START_SOD /\ sod < PEAK_PM_END_SOD THEN "PEAK"
  ELSE "OFFPEAK"

HeadwayFor == [PEAK |-> TRAIN_HEADWAY_PEAK_S, OFFPEAK |-> TRAIN_HEADWAY_OFFPEAK_S,
               NIGHT |-> TRAIN_HEADWAY_NIGHT_S]

NightServiceRuns(sod, wday) == IF sod >= NIGHT_START_SOD THEN wday \in {5, 6}
                               ELSE wday \in {6, 0}

Sod  == (g_start_sod + t) % DAY_S
Wday == (g_start_wday + (g_start_sod + t) \div DAY_S) % 7

NoService == TrainPeriod(Sod) = "NIGHT" /\ ~NightServiceRuns(Sod, Wday)

Building == at = "build" /\ t < SCHEDULE_HORIZON_S /\ Len(g_timetable) < MAX_TIMETABLE_ENTRIES

Entry == [at_s |-> t, sod |-> Sod, wday |-> Wday, period |-> TrainPeriod(Sod)]

(* Mutant: always to 06:30 of the next day. *)
ToNextDay == DAY_S - Sod + NIGHT_END_SOD

ToMorning == IF Sod >= NIGHT_START_SOD THEN DAY_S - Sod + NIGHT_END_SOD
             ELSE NIGHT_END_SOD - Sod

(* Mutant: the skip falls through to the entry. *)
SkipNightAdds ==
  /\ Building /\ NoService
  /\ t' = t + ToMorning
  /\ g_timetable' = Append(g_timetable, [Entry EXCEPT !.at_s = t'])
  /\ UNCHANGED <<g_start_sod, g_start_wday, at, i, now, announced>>

SkipNight ==
  /\ Building /\ NoService
  /\ t' = t + (IF ToMorning > 0 THEN ToMorning ELSE 60)
  /\ UNCHANGED <<g_start_sod, g_start_wday, at, g_timetable, i, now, announced>>

AddTrain ==
  /\ Building /\ ~NoService
  /\ g_timetable' = Append(g_timetable, Entry)
  /\ t' = t + HeadwayFor[Entry.period]
  /\ UNCHANGED <<g_start_sod, g_start_wday, at, i, now, announced>>

(* train_schedule_start(): the clock has run since train_schedule_init(). *)
Start ==
  /\ at = "build" /\ ~Building
  /\ at' = "next"
  /\ now' \in {0, Late}
  /\ UNCHANGED <<g_start_sod, g_start_wday, t, g_timetable, i, announced>>

------------------------------------------------------------------------------
(* train_schedule_task() *)

SensorAt(k) == g_timetable[k].at_s - RAIL_PROTECT_LEAD_S
ClearAt(k)  == g_timetable[k].at_s + RAIL_TRAIN_OCCUPY_S

(* wait_until_sim() polls the clock until it has reached the target. *)
WaitUntilSim(target) == IF now >= target THEN now' = now ELSE now' \in {target, target + Late}

AtTrain == at = "next" /\ i <= Len(g_timetable)

TooLate ==
  /\ AtTrain /\ SensorAt(i) < now
  /\ i' = i + 1
  /\ UNCHANGED <<g_start_sod, g_start_wday, at, t, g_timetable, now, announced>>

Approach ==
  /\ AtTrain /\ ~(SensorAt(i) < now)
  /\ WaitUntilSim(SensorAt(i))
  /\ announced' = announced \cup {i}
  /\ at' = "crossing"
  /\ UNCHANGED <<g_start_sod, g_start_wday, t, g_timetable, i>>

(* Mutant: the loop stays with the train. *)
ClearedAgain ==
  /\ at = "crossing"
  /\ WaitUntilSim(ClearAt(i))
  /\ at' = "next"
  /\ UNCHANGED <<g_start_sod, g_start_wday, t, g_timetable, i, announced>>

(* Mutant: the clear is timed from the arrival as the approach is. *)
ClearedAfterLead ==
  /\ at = "crossing"
  /\ WaitUntilSim(ClearAt(i) + RAIL_PROTECT_LEAD_S)
  /\ at' = "next" /\ i' = i + 1
  /\ UNCHANGED <<g_start_sod, g_start_wday, t, g_timetable, announced>>

Cleared ==
  /\ at = "crossing"
  /\ WaitUntilSim(ClearAt(i))
  /\ at' = "next" /\ i' = i + 1
  /\ UNCHANGED <<g_start_sod, g_start_wday, t, g_timetable, announced>>

NoMoreTrains ==
  /\ at = "next" /\ i > Len(g_timetable)
  /\ at' = "done"
  /\ UNCHANGED <<g_start_sod, g_start_wday, t, g_timetable, i, now, announced>>

Next == \/ SkipNight \/ AddTrain \/ Start
        \/ TooLate \/ Approach \/ Cleared \/ NoMoreTrains

Spec == Init /\ [][Next]_vars
================================================================================
