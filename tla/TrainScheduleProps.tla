--------------------------- MODULE TrainScheduleProps --------------------------
(* What the timetable must be, and what the task must make of it. *)
EXTENDS TrainSchedule

PeriodName == {"NIGHT", "PEAK", "OFFPEAK"}
TrainEvent == [at_s : Nat, sod : SecondOfDay, wday : 0..6, period : PeriodName]

(* No variable leaves its range; the train the task is at was announced    *)
(* if it is on the crossing and not before (train_schedule.c:190).         *)
TypeOK ==
  /\ g_start_sod \in SecondOfDay /\ g_start_wday \in 0..6
  /\ at \in {"build", "next", "crossing", "done"}
  /\ t \in Nat
  /\ g_timetable \in Seq(TrainEvent)
  /\ Len(g_timetable) <= MAX_TIMETABLE_ENTRIES
  /\ i \in 1..(Len(g_timetable) + 1)
  /\ at = "crossing" => i <= Len(g_timetable)
  /\ now \in Nat
  /\ announced \subseteq 1..Len(g_timetable)
  /\ i \in announced <=> at = "crossing"

(* The days and hours with trains, told as common.h:108 and                *)
(* train_schedule.c:97-99 do: by day always, by night if the evening it    *)
(* began on is a Friday's or a Saturday's.                                 *)
Moment(s)  == g_start_sod + s
Evening(s) == (g_start_wday + (Moment(s) - NIGHT_END_SOD + DAY_S) \div DAY_S - 1) % 7
ByDay(s)   == Moment(s) % DAY_S \in NIGHT_END_SOD..(NIGHT_START_SOD - 1)
InService(s) == ByDay(s) \/ Evening(s) \in {5, 6}

(* Every train runs in service, whatever the weekday and hour of the start *)
(* and however often midnight and the week's end are passed.               *)
TrainsInService == \A k \in 1..Len(g_timetable) : InService(g_timetable[k].at_s)

Trains == 1..Len(g_timetable)

(* The service has no hole: after each train the next one follows at its   *)
(* headway, or, if there is no service then, at the 06:30 that ends the    *)
(* night; so does the first, and building ends when no train is left.      *)
FollowsAt(s, u) ==
  \/ InService(s) /\ u = s
  \/ ~InService(s) /\ Moment(u) % DAY_S = NIGHT_END_SOD /\ s < u /\ u - s < SOD(8, 30) + 1
     /\ \A h \in 0..8 : s + h * 3600 < u => ~InService(s + h * 3600)
FollowUp(k) == IF k = 0 THEN 0
               ELSE g_timetable[k].at_s + HeadwayFor[g_timetable[k].period]
NoTrainMissing ==
  /\ \A k \in Trains : FollowsAt(FollowUp(k - 1), g_timetable[k].at_s)
  /\ at # "build" => \/ FollowUp(Len(g_timetable)) >= SCHEDULE_HORIZON_S
                     \/ FollowsAt(FollowUp(Len(g_timetable)), t)

(* The table holds the whole day: building ends at the horizon and not     *)
(* because MAX_TIMETABLE_ENTRIES are taken.                                *)
TableHoldsDay == at # "build" => t >= SCHEDULE_HORIZON_S

(* "one closure is about 90 simulated seconds" (common.h:113), and an      *)
(* approach that finds the last closure running is forgotten: any two      *)
(* trains in a row are further apart than a closure, and the task has      *)
(* reported the first clear before it must announce the second.            *)
CLOSURE_S == 90
TrainsApart ==
  \A k \in Trains \ {1} :
    /\ g_timetable[k].at_s - g_timetable[k - 1].at_s > CLOSURE_S
    /\ ClearAt(k - 1) < SensorAt(k)

(* A train the task has passed was announced, at most Late late, or it was *)
(* due within a lead of the start.                                         *)
EveryTrainWarned ==
  /\ \A k \in Trains : k < i => k \in announced \/ SensorAt(k) < Late
  /\ at = "crossing" => now - SensorAt(i) \in 0..Late
================================================================================
