-------------------------- MODULE TrainSchedule_proofs --------------------------
(***************************************************************************)
(* For every start of the clock and every time scale: the table has no     *)
(* hole, holds the whole day and only trains in service; successive trains *)
(* are further apart than a closure; and none that leaves the time for it  *)
(* goes unannounced by a task that is at most 45 simulated seconds late.   *)
(***************************************************************************)
EXTENDS TrainScheduleProps, TLAPS

(* Two trains in a row are two minutes apart at the least. *)
GAP_S == 120

LEMMA Headways ==
  \A p \in PeriodName : HeadwayFor[p] \in Nat /\ HeadwayFor[p] >= GAP_S
<1>1. /\ TRAIN_HEADWAY_PEAK_S \in Nat /\ TRAIN_HEADWAY_PEAK_S >= GAP_S
      /\ TRAIN_HEADWAY_OFFPEAK_S \in Nat /\ TRAIN_HEADWAY_OFFPEAK_S >= GAP_S
      /\ TRAIN_HEADWAY_NIGHT_S \in Nat /\ TRAIN_HEADWAY_NIGHT_S >= GAP_S
  BY ScheduleAssumption, SMT DEF TRAIN_HEADWAY_PEAK_S, TRAIN_HEADWAY_OFFPEAK_S,
     TRAIN_HEADWAY_NIGHT_S, GAP_S
<1>2. /\ HeadwayFor["PEAK"] = TRAIN_HEADWAY_PEAK_S
      /\ HeadwayFor["OFFPEAK"] = TRAIN_HEADWAY_OFFPEAK_S
      /\ HeadwayFor["NIGHT"] = TRAIN_HEADWAY_NIGHT_S
  BY Zenon DEF HeadwayFor
<1>. QED BY <1>1, <1>2, Zenon DEF PeriodName

LEMMA Remainder ==
  ASSUME NEW a \in Nat, NEW n \in Nat, n > 0
  PROVE  a % n \in 0..(n - 1)
BY SMT

LEMMA DayIsPositive == DAY_S \in Nat /\ DAY_S > 0
BY SMT DEF DAY_S

LEMMA SecondsOfDay == \A s \in SecondOfDay : s \in Nat /\ s < DAY_S
<1>1. \A n \in Nat : \A s \in 0..(n - 1) : s \in Nat /\ s < n
  BY SMT
<1>. QED BY <1>1, DayIsPositive, Zenon DEF SecondOfDay

(* What building reads and writes. *)
TableTypes ==
  /\ g_start_sod \in SecondOfDay /\ g_start_wday \in 0..6 /\ t \in Nat
  /\ g_timetable \in Seq(TrainEvent)

LEMMA TypesOfTable == TypeOK => TableTypes
BY DEF TypeOK, TableTypes

LEMMA EntryTypes == TableTypes => Entry \in TrainEvent /\ Entry.at_s = t
<1> SUFFICES ASSUME TableTypes PROVE Entry \in TrainEvent /\ Entry.at_s = t
  OBVIOUS
<1>1. /\ g_start_sod \in SecondOfDay /\ g_start_sod \in Nat
      /\ g_start_wday \in 0..6 /\ t \in Nat
  BY SecondsOfDay, Zenon DEF TableTypes
<1>0. PICK m \in Nat : m = g_start_sod + t
  BY <1>1, SMT
<1>2. Sod \in SecondOfDay
  <2>1. m % DAY_S \in 0..(DAY_S - 1)
    BY DayIsPositive, Remainder, Zenon
  <2>. QED BY <1>0, <2>1, Zenon DEF Sod, SecondOfDay
<1>3. Wday \in 0..6
  <2>1. m \div DAY_S \in Nat
    BY DayIsPositive, SMT
  <2>2. PICK q \in Nat : q = m \div DAY_S
    BY <2>1
  <2>3. g_start_wday + q \in Nat /\ 7 \in Nat /\ 7 > 0 /\ 7 - 1 = 6
    BY <1>1, SMT
  <2>4. (g_start_wday + q) % 7 \in 0..6
    BY <2>3, Remainder
  <2>. QED BY <1>0, <2>2, <2>4, Zenon DEF Wday
<1>4. TrainPeriod(Sod) \in PeriodName
  BY DEF TrainPeriod, PeriodName
<1>. QED BY <1>1, <1>2, <1>3, <1>4 DEF Entry, TrainEvent

LEMMA MorningTypes == TableTypes => ToMorning \in Int
<1> SUFFICES ASSUME TableTypes PROVE ToMorning \in Int
  OBVIOUS
<1>1. Entry \in TrainEvent /\ Entry.sod = Sod
  BY EntryTypes DEF Entry
<1>5. Sod \in Int
  BY <1>1, SecondsOfDay, SMT DEF TrainEvent
<1>. QED BY <1>5, SMT DEF ToMorning, NIGHT_END_SOD, SOD, DAY_S

(* What building keeps: a gap between each train and the next, and one     *)
(* between the last and the moment building has got to.                    *)
Apart ==
  /\ \A k \in Trains : g_timetable[k].at_s + GAP_S <= t
  /\ \A k \in Trains \ {1} : g_timetable[k].at_s - g_timetable[k - 1].at_s >= GAP_S

(* What the task keeps: it announces no train before its turn. *)
InTurn ==
  /\ at = "build" => i = 1 /\ now = 0 /\ announced = {}
  /\ \A k \in announced : k < i \/ (k = i /\ at = "crossing")

(* What it keeps if it wakes up in time: the clock is within Late of the   *)
(* start or of the clear of the train before, far from the next sensor.    *)
OnTime ==
  /\ at = "next" => \/ now <= Late
                    \/ i > 1 /\ now <= ClearAt(i - 1) + Late
  /\ EveryTrainWarned

ScheduleInv == TypeOK /\ Apart /\ InTurn

LEMMA InitInv == Init => ScheduleInv /\ OnTime
<1> SUFFICES ASSUME Init PROVE ScheduleInv /\ OnTime
  OBVIOUS
<1>1. g_timetable = <<>> /\ Len(g_timetable) = 0 /\ Trains = {}
  BY SMT DEF Init, Trains
<1>2. TypeOK
  <2>1. /\ g_start_sod \in SecondOfDay /\ g_start_wday \in 0..6 /\ at = "build" /\ t = 0
        /\ i = 1 /\ now = 0 /\ announced = {}
    BY ScheduleAssumption DEF Init
  <2>2. 0 \in Nat /\ 1 \in 1..(0 + 1) /\ 0 <= MAX_TIMETABLE_ENTRIES
    BY SMT DEF MAX_TIMETABLE_ENTRIES
  <2>3. g_timetable \in Seq(TrainEvent)
    BY <1>1, SMT
  <2>. QED BY <1>1, <2>1, <2>2, <2>3 DEF TypeOK
<1>3. Apart /\ EveryTrainWarned
  BY <1>1 DEF Init, Apart, EveryTrainWarned
<1>. QED BY <1>2, <1>3 DEF ScheduleInv, InTurn, OnTime, Init

LEMMA AddTrainInv == ScheduleInv /\ AddTrain => ScheduleInv'
<1> SUFFICES ASSUME ScheduleInv, AddTrain PROVE ScheduleInv'
  OBVIOUS
<1> DEFINE n == Len(g_timetable)
<1>1. /\ TypeOK /\ Apart /\ at = "build" /\ n < MAX_TIMETABLE_ENTRIES
      /\ g_timetable' = Append(g_timetable, Entry) /\ t' = t + HeadwayFor[Entry.period]
      /\ UNCHANGED <<g_start_sod, g_start_wday, at, i, now, announced>>
  BY DEF ScheduleInv, AddTrain, Building
<1>2. Entry \in TrainEvent /\ Entry.at_s = t
  BY <1>1, EntryTypes, TypesOfTable
<1>3. g_timetable \in Seq(TrainEvent) /\ n \in Nat /\ t \in Nat
  BY <1>1, SMT DEF TypeOK
<1>4. /\ g_timetable' \in Seq(TrainEvent) /\ Len(g_timetable') = n + 1
      /\ g_timetable'[n + 1] = Entry
      /\ \A k \in 1..n : g_timetable'[k] = g_timetable[k]
  BY <1>1, <1>2, <1>3, SMT
<1>5. HeadwayFor[Entry.period] \in Nat /\ HeadwayFor[Entry.period] >= GAP_S
  <2>1. Entry.period \in PeriodName
    BY <1>2 DEF TrainEvent
  <2>. QED BY <2>1, Headways
<1>6. t' \in Nat /\ t + GAP_S <= t' /\ t <= t'
  BY <1>1, <1>3, <1>5, SMT DEF GAP_S
<1>7. i = 1 /\ now = 0 /\ announced = {}
  BY <1>1 DEF ScheduleInv, InTurn
<1>8. TypeOK'
  <2>1. n + 1 <= MAX_TIMETABLE_ENTRIES
    BY <1>1, <1>3, SMT DEF MAX_TIMETABLE_ENTRIES
  <2>2. 1 \in 1..(n + 1 + 1)
    BY <1>3, SMT
  <2>. QED BY <1>1, <1>4, <1>6, <1>7, <2>1, <2>2 DEF TypeOK
<1>9. \A k \in 1..n : g_timetable[k].at_s \in Nat /\ g_timetable[k].at_s + GAP_S <= t
  <2>1. \A k \in 1..n : g_timetable[k] \in TrainEvent
    BY <1>3, SMT
  <2>. QED BY <1>1, <2>1 DEF Apart, Trains, TrainEvent
<1>10. Apart'
  <2>1. ASSUME NEW k \in 1..(n + 1) PROVE g_timetable'[k].at_s + GAP_S <= t'
    <3>1. CASE k = n + 1
      BY <3>1, <1>2, <1>4, <1>6
    <3>2. CASE k \in 1..n
      BY <3>2, <1>3, <1>4, <1>6, <1>9, SMT DEF GAP_S
    <3>. QED BY <3>1, <3>2, <1>3, SMT
  <2>2. ASSUME NEW k \in (1..(n + 1)) \ {1}
        PROVE  g_timetable'[k].at_s - g_timetable'[k - 1].at_s >= GAP_S
    <3>1. CASE k = n + 1
      <4>1. k - 1 = n /\ n \in 1..n
        BY <3>1, <1>3, SMT
      <4>. QED BY <3>1, <4>1, <1>2, <1>3, <1>4, <1>9, SMT DEF GAP_S
    <3>2. CASE k \in 1..n
      <4>1. k - 1 \in 1..n /\ k \in Trains \ {1}
        BY <3>2, <2>2, <1>3, SMT DEF Trains
      <4>. QED BY <4>1, <3>2, <1>1, <1>4 DEF Apart
    <3>. QED BY <3>1, <3>2, <1>3, SMT
  <2>. QED BY <1>4, <2>1, <2>2 DEF Apart, Trains
<1>11. InTurn'
  BY <1>1, <1>7 DEF InTurn
<1>. QED BY <1>8, <1>10, <1>11 DEF ScheduleInv

LEMMA SkipNightInv == ScheduleInv /\ SkipNight => ScheduleInv'
<1> SUFFICES ASSUME ScheduleInv, SkipNight PROVE ScheduleInv'
  OBVIOUS
<1>1. /\ TypeOK /\ Apart /\ at = "build"
      /\ t' = t + (IF ToMorning > 0 THEN ToMorning ELSE 60)
      /\ UNCHANGED <<g_start_sod, g_start_wday, at, g_timetable, i, now, announced>>
  BY DEF ScheduleInv, SkipNight, Building
<1>2. t \in Nat /\ t' \in Nat /\ t <= t'
  <2>1. t \in Nat /\ ToMorning \in Int
    BY <1>1, MorningTypes, TypesOfTable DEF TypeOK
  <2>. QED BY <1>1, <2>1, SMT
<1>3. TypeOK'
  BY <1>1, <1>2 DEF TypeOK
<1>4. Apart'
  <2>1. \A k \in Trains : g_timetable[k].at_s \in Nat
    <3>1. g_timetable \in Seq(TrainEvent)
      BY <1>1 DEF TypeOK
    <3>2. \A k \in Trains : g_timetable[k] \in TrainEvent
      BY <3>1, SMT DEF Trains
    <3>. QED BY <3>2 DEF TrainEvent
  <2>2. \A k \in Trains : g_timetable[k].at_s + GAP_S <= t'
    BY <1>1, <1>2, <2>1, SMT DEF Apart, GAP_S
  <2>. QED BY <1>1, <2>2 DEF Apart, Trains
<1>5. InTurn'
  BY <1>1 DEF ScheduleInv, InTurn
<1>. QED BY <1>3, <1>4, <1>5 DEF ScheduleInv

(* The task leaves the timetable as it was built. *)
SameTable == UNCHANGED <<g_start_sod, g_start_wday, t, g_timetable>>

LEMMA TableKept ==
  ASSUME SameTable, Apart
  PROVE  /\ Apart' /\ Trains' = Trains
         /\ \A k \in Nat : SensorAt(k)' = SensorAt(k) /\ ClearAt(k)' = ClearAt(k)
BY DEF SameTable, Apart, Trains, SensorAt, ClearAt

LEMMA TrainTimes ==
  ASSUME TypeOK, NEW k \in Trains
  PROVE  SensorAt(k) \in Int /\ ClearAt(k) \in Int /\ ClearAt(k) = SensorAt(k) + 75
<1>1. g_timetable[k].at_s \in Nat
  <2>1. g_timetable \in Seq(TrainEvent)
    BY DEF TypeOK
  <2>2. g_timetable[k] \in TrainEvent
    BY <2>1, SMT DEF Trains
  <2>. QED BY <2>2 DEF TrainEvent
<1>. QED BY <1>1, SMT DEF SensorAt, ClearAt, RAIL_PROTECT_LEAD_S, RAIL_TRAIN_OCCUPY_S

LEMMA NextSensor ==
  ASSUME TypeOK, Apart, NEW k \in Trains, k > 1
  PROVE  k - 1 \in Trains /\ SensorAt(k) >= ClearAt(k - 1) + 45
<1>1. k - 1 \in Trains /\ k \in Trains \ {1}
  BY SMT DEF Trains, TypeOK
<1>2. g_timetable[k].at_s - g_timetable[k - 1].at_s >= GAP_S
  BY <1>1 DEF Apart
<1>3. g_timetable[k].at_s \in Nat /\ g_timetable[k - 1].at_s \in Nat
  <2>1. g_timetable \in Seq(TrainEvent)
    BY DEF TypeOK
  <2>2. g_timetable[k] \in TrainEvent /\ g_timetable[k - 1] \in TrainEvent
    BY <1>1, <2>1, SMT DEF Trains
  <2>. QED BY <2>2 DEF TrainEvent
<1>. QED BY <1>1, <1>2, <1>3, SMT DEF SensorAt, ClearAt, RAIL_PROTECT_LEAD_S,
     RAIL_TRAIN_OCCUPY_S, GAP_S

LEMMA IndexTypes ==
  TypeOK => /\ i \in Nat /\ i >= 1 /\ now \in Nat /\ Len(g_timetable) \in Nat
            /\ (AtTrain \/ at = "crossing" => i \in Trains)
<1> SUFFICES ASSUME TypeOK
             PROVE  /\ i \in Nat /\ i >= 1 /\ now \in Nat /\ Len(g_timetable) \in Nat
                    /\ (AtTrain \/ at = "crossing" => i \in Trains)
  OBVIOUS
<1>1. /\ g_timetable \in Seq(TrainEvent) /\ now \in Nat /\ i \in 1..(Len(g_timetable) + 1)
      /\ at = "crossing" => i <= Len(g_timetable)
  BY DEF TypeOK
<1>2. Len(g_timetable) \in Nat
  BY <1>1, SMT
<1>3. i \in Nat /\ i >= 1
  BY <1>1, <1>2, SMT
<1>4. i <= Len(g_timetable) => i \in Trains
  BY <1>2, <1>3, SMT DEF Trains
<1>. QED BY <1>1, <1>2, <1>3, <1>4 DEF AtTrain

LEMMA StartInv == ScheduleInv /\ Start => ScheduleInv'
<1> SUFFICES ASSUME ScheduleInv, Start PROVE ScheduleInv'
  OBVIOUS
<1>1. /\ TypeOK /\ Apart /\ SameTable /\ at = "build" /\ at' = "next" /\ now' \in {0, Late}
      /\ i' = i /\ announced' = announced /\ i = 1 /\ announced = {}
  BY DEF ScheduleInv, Start, InTurn, SameTable
<1>2. now' \in Nat
  BY <1>1, ScheduleAssumption, SMT
<1>3. TypeOK' /\ InTurn'
  BY <1>1, <1>2 DEF TypeOK, SameTable, InTurn
<1>. QED BY <1>1, <1>3, TableKept DEF ScheduleInv

LEMMA NoMoreInv == ScheduleInv /\ NoMoreTrains => ScheduleInv'
<1> SUFFICES ASSUME ScheduleInv, NoMoreTrains PROVE ScheduleInv'
  OBVIOUS
<1>1. /\ TypeOK /\ Apart /\ InTurn /\ SameTable /\ at = "next" /\ at' = "done" /\ now' = now
      /\ i' = i /\ announced' = announced
  BY DEF ScheduleInv, NoMoreTrains, SameTable
<1>2. TypeOK' /\ InTurn'
  BY <1>1 DEF TypeOK, SameTable, InTurn
<1>. QED BY <1>1, <1>2, TableKept DEF ScheduleInv

(* Where the index may stand, and what is announced below it. *)
LEMMA IndexStep ==
  ASSUME TypeOK, i \in Trains
  PROVE  /\ i \in Nat /\ i + 1 \in Nat /\ i + 1 > 1 /\ (i + 1) - 1 = i
         /\ i + 1 \in 1..(Len(g_timetable) + 1)
         /\ \A k \in Trains : k < i + 1 => k < i \/ k = i
         /\ \A k \in Trains : (k < i \/ k = i => k < i + 1) /\ (k <= i => k # i + 1)
<1>1. Len(g_timetable) \in Nat /\ i \in Nat
  BY IndexTypes
<1>. QED BY <1>1, SMT DEF Trains

LEMMA TooLateInv == ScheduleInv /\ TooLate => ScheduleInv'
<1> SUFFICES ASSUME ScheduleInv, TooLate PROVE ScheduleInv'
  OBVIOUS
<1>1. /\ TypeOK /\ Apart /\ InTurn /\ SameTable /\ AtTrain /\ i' = i + 1
      /\ at = "next" /\ at' = at /\ now' = now /\ announced' = announced
  BY DEF ScheduleInv, TooLate, SameTable, AtTrain
<1>2. i \in Trains /\ now \in Nat
  BY <1>1, IndexTypes
<1>3. announced \subseteq Trains /\ \A k \in announced : k < i
  BY <1>1 DEF TypeOK, Trains, InTurn
<1>4. \A k \in announced : k < i' /\ k # i'
  BY <1>1, <1>2, <1>3, IndexStep, SMT DEF Trains
<1>5. TypeOK' /\ InTurn'
  BY <1>1, <1>2, <1>4, IndexStep DEF TypeOK, SameTable, InTurn
<1>. QED BY <1>1, <1>5, TableKept DEF ScheduleInv

LEMMA ApproachInv == ScheduleInv /\ Approach => ScheduleInv'
<1> SUFFICES ASSUME ScheduleInv, Approach PROVE ScheduleInv'
  OBVIOUS
<1>1. /\ TypeOK /\ Apart /\ InTurn /\ SameTable /\ AtTrain /\ i' = i
      /\ WaitUntilSim(SensorAt(i)) /\ announced' = announced \cup {i}
      /\ at = "next" /\ at' = "crossing"
  BY DEF ScheduleInv, Approach, SameTable, AtTrain
<1>2. i \in Trains /\ now \in Nat /\ Late \in Nat /\ SensorAt(i) \in Int
  BY <1>1, IndexTypes, TrainTimes, ScheduleAssumption
<1>3. now' \in Nat
  BY <1>1, <1>2, SMT DEF WaitUntilSim
<1>4. TypeOK' /\ InTurn'
  <2>1. i <= Len(g_timetable)
    BY <1>1 DEF AtTrain
  <2>. QED BY <1>1, <1>2, <1>3, <2>1 DEF TypeOK, SameTable, Trains, InTurn
<1>. QED BY <1>1, <1>4, TableKept DEF ScheduleInv

LEMMA ClearedInv == ScheduleInv /\ Cleared => ScheduleInv'
<1> SUFFICES ASSUME ScheduleInv, Cleared PROVE ScheduleInv'
  OBVIOUS
<1>1. /\ TypeOK /\ Apart /\ InTurn /\ SameTable /\ at = "crossing" /\ at' = "next"
      /\ i' = i + 1 /\ WaitUntilSim(ClearAt(i)) /\ announced' = announced
  BY DEF ScheduleInv, Cleared, SameTable
<1>2. i \in Trains /\ now \in Nat /\ Late \in Nat
  BY <1>1, IndexTypes, ScheduleAssumption
<1>3. now' \in Nat
  BY <1>1, <1>2, TrainTimes, SMT DEF WaitUntilSim
<1>4. announced \subseteq Trains /\ \A k \in announced : k < i \/ k = i
  BY <1>1 DEF TypeOK, Trains, InTurn
<1>5. \A k \in announced : k < i' /\ k # i'
  BY <1>1, <1>2, <1>4, IndexStep, SMT DEF Trains
<1>6. TypeOK' /\ InTurn'
  BY <1>1, <1>2, <1>3, <1>5, IndexStep DEF TypeOK, SameTable, InTurn
<1>. QED BY <1>1, <1>6, TableKept DEF ScheduleInv

(* The table keeps its gaps and its types, whenever the task wakes up. *)
THEOREM ScheduleInvariant == Spec => []ScheduleInv
<1>1. ScheduleInv /\ [Next]_vars => ScheduleInv'
  <2> SUFFICES ASSUME ScheduleInv, [Next]_vars PROVE ScheduleInv'
    OBVIOUS
  <2>1. CASE SkipNight
    BY <2>1, SkipNightInv
  <2>2. CASE AddTrain
    BY <2>2, AddTrainInv
  <2>3. CASE Start
    BY <2>3, StartInv
  <2>4. CASE TooLate
    BY <2>4, TooLateInv
  <2>5. CASE Approach
    BY <2>5, ApproachInv
  <2>6. CASE Cleared
    BY <2>6, ClearedInv
  <2>7. CASE NoMoreTrains
    BY <2>7, NoMoreInv
  <2>8. CASE UNCHANGED vars
    BY <2>8 DEF ScheduleInv, vars, TypeOK, Apart, Trains, InTurn
  <2>. QED BY <2>1, <2>2, <2>3, <2>4, <2>5, <2>6, <2>7, <2>8 DEF Next
<1>. QED BY <1>1, InitInv, PTL DEF Spec

(* The clock of a task that has a train before it. *)
LEMMA ClockBeforeTrain ==
  ASSUME Late <= 45, ScheduleInv, OnTime, AtTrain
  PROVE  i \in Trains /\ (SensorAt(i) < now => now <= Late)
<1>1. i \in Trains /\ i \in Nat /\ now \in Nat /\ Late \in Nat
  BY IndexTypes, ScheduleAssumption DEF ScheduleInv
<1>2. SensorAt(i) \in Int
  BY <1>1, TrainTimes DEF ScheduleInv
<1>3. CASE now <= Late
  BY <1>1, <1>3
<1>4. CASE i > 1 /\ now <= ClearAt(i - 1) + Late
  <2>1. i - 1 \in Trains /\ SensorAt(i) >= ClearAt(i - 1) + 45
    BY <1>1, <1>4, NextSensor DEF ScheduleInv
  <2>2. ClearAt(i - 1) \in Int
    BY <2>1, TrainTimes DEF ScheduleInv
  <2>. QED BY <1>1, <1>2, <1>4, <2>1, <2>2, SMT
<1>. QED BY <1>3, <1>4 DEF AtTrain, OnTime

LEMMA TooLateOnTime ==
  ASSUME Late <= 45, ScheduleInv, OnTime, TooLate
  PROVE  OnTime'
<1>1. /\ TypeOK /\ Apart /\ SameTable /\ AtTrain /\ SensorAt(i) < now /\ i' = i + 1
      /\ at = "next" /\ at' = at /\ now' = now /\ announced' = announced
  BY DEF ScheduleInv, TooLate, SameTable, AtTrain
<1>2. i \in Trains /\ now <= Late /\ now \in Nat
  BY <1>1, ClockBeforeTrain, IndexTypes
<1>3. SensorAt(i) < Late
  <2>1. SensorAt(i) \in Int
    BY <1>1, <1>2, TrainTimes
  <2>. QED BY <1>1, <1>2, <2>1, ScheduleAssumption, SMT
<1>4. EveryTrainWarned'
  <2>1. ASSUME NEW k \in Trains, k < i + 1 PROVE k \in announced \/ SensorAt(k) < Late
    BY <1>1, <1>2, <1>3, <2>1, IndexStep DEF OnTime, EveryTrainWarned
  <2>. QED BY <1>1, <2>1, TableKept DEF EveryTrainWarned, Trains, SensorAt, SameTable
<1>. QED BY <1>1, <1>2, <1>4 DEF OnTime

LEMMA ApproachOnTime == ScheduleInv /\ OnTime /\ Approach => OnTime'
<1> SUFFICES ASSUME ScheduleInv, OnTime, Approach PROVE OnTime'
  OBVIOUS
<1>1. /\ TypeOK /\ SameTable /\ AtTrain /\ ~(SensorAt(i) < now) /\ i' = i
      /\ WaitUntilSim(SensorAt(i)) /\ announced' = announced \cup {i} /\ at' = "crossing"
  BY DEF ScheduleInv, Approach, SameTable, AtTrain
<1>2. now \in Nat /\ Late \in Nat /\ SensorAt(i) \in Int
  BY <1>1, IndexTypes, TrainTimes, ScheduleAssumption
<1>3. now' - SensorAt(i) \in 0..Late
  BY <1>1, <1>2, SMT DEF WaitUntilSim
<1>. QED BY <1>1, <1>3 DEF OnTime, EveryTrainWarned, Trains, SensorAt, SameTable

LEMMA ClearedOnTime == ScheduleInv /\ OnTime /\ Late <= 45 /\ Cleared => OnTime'
<1> SUFFICES ASSUME ScheduleInv, OnTime, Late <= 45, Cleared PROVE OnTime'
  OBVIOUS
<1>1. /\ TypeOK /\ SameTable /\ at = "crossing" /\ at' = "next" /\ i' = i + 1
      /\ WaitUntilSim(ClearAt(i)) /\ announced' = announced
  BY DEF ScheduleInv, Cleared, SameTable
<1>2. i \in Trains /\ now \in Nat /\ Late \in Nat /\ i \in announced
  BY <1>1, IndexTypes, ScheduleAssumption DEF TypeOK
<1>3. SensorAt(i) \in Int /\ ClearAt(i) \in Int /\ ClearAt(i) = SensorAt(i) + 75
  BY <1>1, <1>2, TrainTimes
<1>4. now - SensorAt(i) \in 0..Late
  BY <1>1 DEF OnTime, EveryTrainWarned
<1>5. now' <= ClearAt(i) + Late
  <2>1. now < ClearAt(i)
    BY <1>2, <1>3, <1>4, SMT
  <2>. QED BY <1>1, <1>2, <1>3, <2>1, SMT DEF WaitUntilSim
<1>6. EveryTrainWarned'
  <2>1. ASSUME NEW k \in Trains, k < i + 1 PROVE k \in announced \/ SensorAt(k) < Late
    BY <1>1, <1>2, <2>1, IndexStep DEF OnTime, EveryTrainWarned
  <2>. QED BY <1>1, <2>1 DEF EveryTrainWarned, Trains, SensorAt, SameTable
<1>7. (i > 1 /\ now <= ClearAt(i - 1) + Late)'
  <2>1. i' > 1 /\ i' - 1 = i
    BY <1>1, <1>2, IndexStep
  <2>2. ClearAt(i - 1)' = ClearAt(i)
    BY <1>1, <2>1 DEF ClearAt, SameTable
  <2>. QED BY <1>5, <2>1, <2>2
<1>. QED BY <1>6, <1>7, Zenon DEF OnTime

(* While building, and when the task starts, no train is passed yet. *)
LEMMA NotYetOnTime ==
  ASSUME ScheduleInv, at = "build", i' = i, at' = at \/ (at' = "next" /\ now' <= Late)
  PROVE  OnTime'
<1>1. i' = 1 /\ at' # "crossing"
  BY DEF ScheduleInv, InTurn
<1>2. EveryTrainWarned'
  <2>1. \A k \in Trains' : ~(k < 1)
    BY SMT DEF Trains
  <2>. QED BY <1>1, <2>1 DEF EveryTrainWarned
<1>. QED BY <1>2 DEF OnTime

(* The bounds of a wake-up: forty-five simulated seconds are what a gap    *)
(* leaves between a train's clear and the next one's sensor.               *)
THEOREM OnTimeInvariant ==
  ASSUME Late <= 45
  PROVE  Spec => []OnTime
<1>1. ScheduleInv /\ OnTime /\ [Next]_vars => OnTime'
  <2> SUFFICES ASSUME ScheduleInv, OnTime, [Next]_vars PROVE OnTime'
    OBVIOUS
  <2>1. CASE SkipNight \/ AddTrain
    BY <2>1, NotYetOnTime DEF SkipNight, AddTrain, Building
  <2>2. CASE Start
    <3>1. now' <= Late
      BY <2>2, ScheduleAssumption, SMT DEF Start
    <3>. QED BY <2>2, <3>1, NotYetOnTime DEF Start
  <2>3. CASE TooLate
    BY <2>3, TooLateOnTime
  <2>4. CASE Approach
    BY <2>4, ApproachOnTime
  <2>5. CASE Cleared
    BY <2>5, ClearedOnTime
  <2>6. CASE NoMoreTrains
    BY <2>6 DEF NoMoreTrains, OnTime, EveryTrainWarned, Trains, SensorAt
  <2>7. CASE UNCHANGED vars
    BY <2>7 DEF OnTime, vars, Trains, EveryTrainWarned, SensorAt, ClearAt
  <2>. QED BY <2>1, <2>2, <2>3, <2>4, <2>5, <2>6, <2>7 DEF Next
<1>. QED BY <1>1, InitInv, ScheduleInvariant, PTL DEF Spec

(* TypeOK, and with it the end of the table: no entry is written past      *)
(* MAX_TIMETABLE_ENTRIES, and the task never reads behind the last.        *)
THEOREM ScheduleTypes == Spec => []TypeOK
<1>1. ScheduleInv => TypeOK
  BY DEF ScheduleInv
<1>. QED BY <1>1, ScheduleInvariant, PTL

(* At every time scale and from every moment of the week: a closure is     *)
(* over before the next train's can begin (TrainsApart).                   *)
THEOREM TrainsFarApart == Spec => []TrainsApart
<1>1. ScheduleInv => TrainsApart
  <2> SUFFICES ASSUME ScheduleInv, NEW k \in Trains \ {1}
               PROVE  /\ g_timetable[k].at_s - g_timetable[k - 1].at_s > CLOSURE_S
                      /\ ClearAt(k - 1) < SensorAt(k)
    BY DEF TrainsApart
  <2>1. k \in Trains /\ k > 1 /\ TypeOK /\ Apart
    BY SMT DEF ScheduleInv, Trains
  <2>2. k - 1 \in Trains /\ SensorAt(k) >= ClearAt(k - 1) + 45
    BY <2>1, NextSensor
  <2>3. SensorAt(k) \in Int /\ ClearAt(k - 1) \in Int
    BY <2>1, <2>2, TrainTimes
  <2>4. g_timetable[k].at_s - g_timetable[k - 1].at_s \in Int
    <3>1. g_timetable \in Seq(TrainEvent)
      BY <2>1 DEF TypeOK
    <3>2. g_timetable[k] \in TrainEvent /\ g_timetable[k - 1] \in TrainEvent
      BY <2>1, <2>2, <3>1, SMT DEF Trains
    <3>3. g_timetable[k].at_s \in Nat /\ g_timetable[k - 1].at_s \in Nat
      BY <3>2 DEF TrainEvent
    <3>. QED BY <3>3, SMT
  <2>5. g_timetable[k].at_s - g_timetable[k - 1].at_s >= GAP_S
    BY <2>1 DEF Apart
  <2>6. g_timetable[k].at_s - g_timetable[k - 1].at_s > CLOSURE_S
    BY <2>4, <2>5, SMT DEF GAP_S, CLOSURE_S
  <2>. QED BY <2>2, <2>3, <2>6, SMT
<1>. QED BY <1>1, ScheduleInvariant, PTL

(* A task that wakes up at most 45 simulated seconds late announces every  *)
(* train that was not already too close at the start (EveryTrainWarned).   *)
THEOREM NoTrainUnwarned ==
  ASSUME Late <= 45
  PROVE  Spec => []EveryTrainWarned
<1>1. OnTime => EveryTrainWarned
  BY DEF OnTime
<1>. QED BY <1>1, OnTimeInvariant, PTL

------------------------------------------------------------------------------
(* The day from 06:30 to 06:30, which begins with the hours by day. *)

LEMMA DayDivision ==
  ASSUME NEW m \in Nat
  PROVE  \E q, r \in Nat : /\ r < DAY_S /\ m = DAY_S * q + r
                           /\ m % DAY_S = r /\ m \div DAY_S = q
<1>1. /\ DAY_S * (m \div DAY_S) <= m /\ m - DAY_S * (m \div DAY_S) < DAY_S
      /\ m \div DAY_S \in Nat
  BY SMT DEF DAY_S
<1>2. PICK q \in Nat : q = m \div DAY_S
  BY <1>1
<1>3. m - DAY_S * q \in Nat /\ m - DAY_S * q < DAY_S
  BY <1>1, <1>2, SMT DEF DAY_S
<1>4. PICK r \in Nat : r = m - DAY_S * q
  BY <1>3
<1>5. r < DAY_S /\ m = DAY_S * q + r
  BY <1>3, <1>4, SMT DEF DAY_S
<1>6. m % DAY_S = r /\ m \div DAY_S = q
  BY <1>5, SMT DEF DAY_S
<1>. QED BY <1>5, <1>6

LEMMA HourValues == /\ DAY_S = 86400 /\ NIGHT_START_SOD = 79200
                    /\ NIGHT_END_SOD = 23400
BY SMT DEF DAY_S, NIGHT_START_SOD, NIGHT_END_SOD, SOD

LEMMA HalfPastSix ==
  \A e, x, q, r \in Nat :
    x < 86400 /\ r < 86400 /\ 86400 * q + r - 23400 + 86400 = 86400 * e + x
      => \/ x = r - 23400 /\ e = q + 1
         \/ x = r - 23400 + 86400 /\ r < 23400 /\ e = q
BY SMT

(* Seconds since the last 06:30, and the day it began. *)
MorningOf(s, e, x) ==
  /\ e \in Nat /\ x \in Nat /\ x < DAY_S
  /\ Moment(s) - NIGHT_END_SOD + DAY_S = DAY_S * e + x
  /\ ByDay(s) <=> x < NIGHT_START_SOD - NIGHT_END_SOD
  /\ Evening(s) = (g_start_wday + e - 1) % 7

LEMMA Moments ==
  ASSUME TableTypes, NEW s \in Nat
  PROVE  Moment(s) \in Nat /\ Moment(s) = g_start_sod + s /\ g_start_sod \in Nat
                           /\ g_start_sod < DAY_S
<1>1. g_start_sod \in 0..(DAY_S - 1)
  BY DEF TableTypes, SecondOfDay
<1>2. g_start_sod \in Nat /\ g_start_sod < DAY_S /\ g_start_sod + s \in Nat
  BY <1>1, SMT DEF DAY_S
<1>. QED BY <1>2 DEF Moment

LEMMA Morning ==
  ASSUME TableTypes, NEW s \in Nat
  PROVE  \E e, x \in Nat : MorningOf(s, e, x)
<1>1. Moment(s) \in Nat /\ Moment(s) - NIGHT_END_SOD + DAY_S \in Nat
  BY Moments, SMT DEF DAY_S, NIGHT_END_SOD, SOD
<1>2. PICK e, x \in Nat : /\ x < DAY_S /\ Moment(s) - NIGHT_END_SOD + DAY_S = DAY_S * e + x
                          /\ (Moment(s) - NIGHT_END_SOD + DAY_S) \div DAY_S = e
  BY <1>1, DayDivision
<1>3. PICK q, r \in Nat : r < DAY_S /\ Moment(s) = DAY_S * q + r /\ Moment(s) % DAY_S = r
  BY <1>1, DayDivision
<1>4. PICK m \in Nat : m = Moment(s)
  BY <1>1
<1>5. x = r - NIGHT_END_SOD \/ (x = r - NIGHT_END_SOD + DAY_S /\ r < NIGHT_END_SOD)
  <2>1. m - NIGHT_END_SOD + DAY_S = DAY_S * e + x /\ m = DAY_S * q + r
    BY <1>2, <1>3, <1>4
  <2>2. (DAY_S * q + r) - NIGHT_END_SOD + DAY_S = DAY_S * e + x
    BY <2>1, Zenon
  <2>3. 86400 * q + r - 23400 + 86400 = 86400 * e + x
    BY <2>2, HourValues, SMT
  <2>4. x < 86400 /\ r < 86400 /\ e \in Nat /\ x \in Nat /\ q \in Nat /\ r \in Nat
    <3>1. x < DAY_S /\ r < DAY_S /\ e \in Nat /\ x \in Nat /\ q \in Nat /\ r \in Nat
      BY <1>2, <1>3
    <3>. QED BY <3>1, HourValues, SMT
  <2>5. x = r - 23400 \/ (x = r - 23400 + 86400 /\ r < 23400)
    BY <2>3, <2>4, HalfPastSix, SMT
  <2>. QED BY <2>5, HourValues, SMT
<1>6. (NIGHT_END_SOD <= r /\ r <= NIGHT_START_SOD - 1) <=> x < NIGHT_START_SOD - NIGHT_END_SOD
  <2>1. CASE x = r - NIGHT_END_SOD
    BY <1>2, <1>3, <2>1, HourValues, SMT
  <2>2. CASE x = r - NIGHT_END_SOD + DAY_S /\ r < NIGHT_END_SOD
    BY <1>2, <1>3, <2>2, HourValues, SMT
  <2>. QED BY <1>5, <2>1, <2>2
<1>7. r \in NIGHT_END_SOD..(NIGHT_START_SOD - 1) <=> x < NIGHT_START_SOD - NIGHT_END_SOD
  <2>1. NIGHT_END_SOD \in Int /\ NIGHT_START_SOD - 1 \in Int /\ r \in Int
    BY HourValues, SMT
  <2>. QED BY <1>6, <2>1, SMT
<1>. QED BY <1>2, <1>3, <1>7 DEF MorningOf, ByDay, Evening

(* One time has one morning before it. *)
LEMMA SameMorning ==
  ASSUME NEW m \in Nat, NEW e \in Nat, NEW x \in Nat, NEW f \in Nat, NEW y \in Nat,
         x < DAY_S, y < DAY_S, DAY_S * e + x = DAY_S * f + y
  PROVE  e = f /\ x = y
BY SMT DEF DAY_S

LEMMA DayOfWeek ==
  ASSUME NEW w \in 0..6, NEW e \in Nat
  PROVE  /\ (w + (e + 1) - 1) % 7 = (w + e) % 7
         /\ (w + e - 1) % 7 \in {5, 6} <=> (w + e) % 7 \in {6, 0}
<1>1. (w + (e + 1) - 1) = w + e
  BY SMT
<1>2. (w + e - 1) % 7 \in {5, 6} <=> (w + e) % 7 \in {6, 0}
  BY SMT
<1>. QED BY <1>1, <1>2

(* A time with no service lies in a night whose evening has none, and what *)
(* train_schedule_build() skips is what is left of that night.             *)
LEMMA ServiceHours ==
  ASSUME TableTypes
  PROVE  /\ NoService <=> ~InService(t)
         /\ NoService => \A e, x \in Nat : MorningOf(t, e, x) => ToMorning = DAY_S - x /\ ToMorning > 0
<1>1. t \in Nat /\ g_start_wday \in 0..6 /\ Moment(t) \in Nat /\ Moment(t) = g_start_sod + t
  BY Moments DEF TableTypes
<1>2. PICK q, r \in Nat : r < DAY_S /\ Moment(t) = DAY_S * q + r /\ Sod = r
                          /\ Wday = (g_start_wday + q) % 7
  <2>1. PICK q, r \in Nat : /\ r < DAY_S /\ Moment(t) = DAY_S * q + r
                            /\ Moment(t) % DAY_S = r /\ Moment(t) \div DAY_S = q
    BY <1>1, DayDivision
  <2>. QED BY <1>1, <2>1 DEF Sod, Wday
<1>3. PICK e, x \in Nat : MorningOf(t, e, x)
  BY <1>1, Morning
<1>4. TrainPeriod(Sod) = "NIGHT" <=> Sod >= NIGHT_START_SOD \/ Sod < NIGHT_END_SOD
  BY DEF TrainPeriod
<1>5. \A f, y \in Nat : MorningOf(t, f, y) => y = x
  BY <1>1, <1>3, SameMorning, Zenon DEF MorningOf
<1>6. CASE r >= NIGHT_END_SOD
  <2>1. e = q + 1 /\ x = r - NIGHT_END_SOD
    BY <1>2, <1>3, <1>6, SMT DEF MorningOf, DAY_S, NIGHT_END_SOD, SOD
  <2>2. Evening(t) = Wday
    BY <1>1, <1>2, <1>3, <2>1, DayOfWeek DEF MorningOf
  <2>3. ByDay(t) <=> ~(r >= NIGHT_START_SOD)
    <3>1. x < NIGHT_START_SOD - NIGHT_END_SOD <=> ~(r >= NIGHT_START_SOD)
      BY <1>2, <2>1, SMT DEF NIGHT_END_SOD, NIGHT_START_SOD, SOD
    <3>. QED BY <1>3, <3>1 DEF MorningOf
  <2>4. r >= NIGHT_START_SOD => ToMorning = DAY_S - x /\ ToMorning > 0
    BY <1>2, <2>1, SMT DEF ToMorning, NIGHT_START_SOD, NIGHT_END_SOD, SOD, DAY_S
  <2>5. ~(r < NIGHT_END_SOD)
    BY <1>2, <1>6, SMT DEF NIGHT_END_SOD, SOD
  <2>. QED BY <1>2, <1>4, <1>5, <2>2, <2>3, <2>4, <2>5
           DEF NoService, InService, NightServiceRuns
<1>7. CASE ~(r >= NIGHT_END_SOD)
  <2>1. e = q /\ x = r + DAY_S - NIGHT_END_SOD
    BY <1>2, <1>3, <1>7, SMT DEF MorningOf, DAY_S, NIGHT_END_SOD, SOD
  <2>2. Evening(t) \in {5, 6} <=> Wday \in {6, 0}
    BY <1>1, <1>2, <1>3, <2>1, DayOfWeek DEF MorningOf
  <2>3. ~ByDay(t)
    <3>1. ~(x < NIGHT_START_SOD - NIGHT_END_SOD)
      BY <1>2, <2>1, SMT DEF NIGHT_END_SOD, NIGHT_START_SOD, DAY_S, SOD
    <3>. QED BY <1>3, <3>1 DEF MorningOf
  <2>4. ToMorning = DAY_S - x /\ ToMorning > 0
    BY <1>2, <1>7, <2>1, SMT DEF ToMorning, NIGHT_START_SOD, NIGHT_END_SOD, SOD, DAY_S
  <2>5. r < NIGHT_END_SOD /\ ~(r >= NIGHT_START_SOD)
    BY <1>2, <1>7, SMT DEF NIGHT_END_SOD, NIGHT_START_SOD, SOD
  <2>. QED BY <1>2, <1>4, <1>5, <2>2, <2>3, <2>4, <2>5
           DEF NoService, InService, NightServiceRuns
<1>. QED BY <1>6, <1>7

(* From a time with no service the next 06:30 follows, and trains run then. *)
LEMMA NightEnds ==
  ASSUME TableTypes, NEW s \in Nat, ~InService(s), NEW u,
         \E e, x \in Nat : MorningOf(s, e, x) /\ u = s + (DAY_S - x)
  PROVE  u \in Nat /\ FollowsAt(s, u) /\ ByDay(u)
<1>1. PICK e, x \in Nat : MorningOf(s, e, x) /\ u = s + (DAY_S - x)
  OBVIOUS
<1>2. /\ x < DAY_S /\ Moment(s) - NIGHT_END_SOD + DAY_S = DAY_S * e + x
      /\ ~(x < NIGHT_START_SOD - NIGHT_END_SOD)
      /\ Evening(s) = (g_start_wday + e - 1) % 7 /\ Evening(s) \notin {5, 6}
  BY <1>1 DEF MorningOf, InService
<1>3. u \in Nat /\ s < u /\ u - s < SOD(8, 30) + 1
  BY <1>1, <1>2, SMT DEF DAY_S, SOD, NIGHT_END_SOD, NIGHT_START_SOD
<1>4. Moment(s) = g_start_sod + s /\ Moment(u) = g_start_sod + u /\ Moment(u) \in Nat
      /\ g_start_sod \in Nat
  BY <1>3, Moments
<1>5. Moment(u) % DAY_S = NIGHT_END_SOD
  <2>1. PICK q, r \in Nat : r < DAY_S /\ Moment(u) = DAY_S * q + r /\ Moment(u) % DAY_S = r
    BY <1>4, DayDivision
  <2>2. Moment(u) = DAY_S * e + NIGHT_END_SOD
    BY <1>1, <1>2, <1>4, SMT DEF DAY_S, NIGHT_END_SOD, SOD
  <2>3. r = NIGHT_END_SOD
    BY <2>1, <2>2, SMT DEF DAY_S, NIGHT_END_SOD, SOD
  <2>. QED BY <2>1, <2>3
<1>6. ByDay(u)
  <2>1. NIGHT_END_SOD \in NIGHT_END_SOD..(NIGHT_START_SOD - 1)
    BY SMT DEF NIGHT_END_SOD, NIGHT_START_SOD, SOD
  <2>. QED BY <1>5, <2>1 DEF ByDay
<1>7. ASSUME NEW h \in 0..8, s + h * 3600 < u PROVE ~InService(s + h * 3600)
  <2>1. PICK d \in Nat : d = h * 3600 /\ s + d \in Nat /\ x + d < DAY_S
    <3>1. h * 3600 \in Nat /\ s + h * 3600 \in Nat /\ x + h * 3600 < DAY_S
      BY <1>1, <1>2, <1>3, <1>7, SMT DEF DAY_S
    <3>. QED BY <3>1, SMT
  <2>2. PICK f, y \in Nat : MorningOf(s + d, f, y)
    BY <2>1, Morning
  <2>3. /\ y < DAY_S /\ Moment(s + d) - NIGHT_END_SOD + DAY_S = DAY_S * f + y
        /\ ByDay(s + d) <=> y < NIGHT_START_SOD - NIGHT_END_SOD
        /\ Evening(s + d) = (g_start_wday + f - 1) % 7
    BY <2>2 DEF MorningOf
  <2>4. Moment(s + d) = Moment(s) + d /\ Moment(s) \in Nat
    BY <1>4, <2>1, SMT DEF Moment
  <2>5. DAY_S * e + (x + d) = DAY_S * f + y /\ x + d \in Nat
    BY <1>2, <2>1, <2>3, <2>4, SMT DEF DAY_S, NIGHT_END_SOD, SOD
  <2>6. f = e /\ y = x + d
    BY <2>1, <2>3, <2>5, SameMorning
  <2>7. ~(y < NIGHT_START_SOD - NIGHT_END_SOD)
    BY <1>2, <2>6, SMT DEF NIGHT_END_SOD, NIGHT_START_SOD, SOD
  <2>. QED BY <1>2, <2>1, <2>3, <2>6, <2>7 DEF InService
<1>8. FollowsAt(s, u)
  BY <1>3, <1>5, <1>7 DEF FollowsAt
<1>. QED BY <1>3, <1>6, <1>8


------------------------------------------------------------------------------
(* Room in the table.  Clip: how much of [a, b) lies before m.  Peaks: how *)
(* much of the peak hours of two days does, each taken 120 s too long, so  *)
(* that every train, which uses 240 s or 120 s in a peak hour, adds 240.   *)

Clip(m, a, b) == IF m < a THEN 0 ELSE IF m < b THEN m - a ELSE b - a
Peaks(m) == Clip(m, 23400, 32520) + Clip(m, 59400, 70320)
            + Clip(m, 109800, 118920) + Clip(m, 145800, 156720)

LEMMA PeaksGrow ==
  ASSUME NEW m \in Nat, NEW n \in Nat, m <= n
  PROVE  /\ Peaks(m) \in Nat /\ Peaks(n) \in Nat /\ Peaks(m) <= Peaks(n)
         /\ /\ m + 120 <= n
            /\ \/ 23400 <= m /\ m < 32400
               \/ 59400 <= m /\ m < 70200
               \/ 109800 <= m /\ m < 118800
               \/ 145800 <= m /\ m < 156600
            => Peaks(m) + 120 <= Peaks(n)
BY SMT DEF Peaks, Clip

LEMMA PeaksOfADay ==
  ASSUME NEW m \in Nat, m < 86400
  PROVE  Peaks(m + 86400) = Peaks(m) + 20040
BY SMT DEF Peaks, Clip

Weighted(s) == s + Peaks(g_start_sod + s) - Peaks(g_start_sod)

LEMMA WeightedGrows ==
  ASSUME TableTypes, NEW s \in Nat, NEW u \in Nat, s <= u
  PROVE  Weighted(s) \in Int /\ Weighted(u) \in Int /\ Weighted(s) <= Weighted(u)
<1>1. g_start_sod \in Nat
  BY Moments
<1>2. /\ g_start_sod + s \in Nat /\ g_start_sod + u \in Nat
      /\ g_start_sod + s <= g_start_sod + u
  BY <1>1, SMT
<1>3. /\ Peaks(g_start_sod + s) \in Nat /\ Peaks(g_start_sod + u) \in Nat
      /\ Peaks(g_start_sod + s) <= Peaks(g_start_sod + u) /\ Peaks(g_start_sod) \in Nat
  BY <1>1, <1>2, PeaksGrow, SMT
<1>. QED BY <1>3, SMT DEF Weighted

(* What a train adds to the table it adds to the weighted time too. *)
LEMMA TrainTakesRoom ==
  ASSUME TableTypes, t < SCHEDULE_HORIZON_S
  PROVE  /\ HeadwayFor[Entry.period] \in Nat
         /\ Weighted(t) \in Int /\ Weighted(t + HeadwayFor[Entry.period]) \in Int
         /\ Weighted(t) + 240 <= Weighted(t + HeadwayFor[Entry.period])
<1>1. /\ t \in Nat /\ t < 86400 /\ g_start_sod \in Nat /\ g_start_sod < 86400
      /\ Moment(t) = g_start_sod + t /\ Moment(t) \in Nat
  <2>1. t \in Nat /\ Moment(t) = g_start_sod + t /\ g_start_sod \in Nat /\ g_start_sod < DAY_S
        /\ Moment(t) \in Nat
    BY Moments DEF TableTypes
  <2>2. t < 86400
    BY SMT DEF SCHEDULE_HORIZON_S
  <2>. QED BY <2>1, <2>2, HourValues, SMT
<1>2. PICK m \in Nat : m = g_start_sod + t
  BY <1>1
<1>3. m < 172800 /\ (Sod = m \/ Sod = m - 86400) /\ Sod \in Nat /\ Sod < 86400
  <2>1. Sod = m % 86400
    BY <1>2, HourValues DEF Sod
  <2>. QED BY <1>1, <1>2, <2>1, SMT
<1>4. PICK h \in Nat : /\ h = HeadwayFor[Entry.period] /\ h >= 120
                       /\ h >= 240 \/ TrainPeriod(Sod) = "PEAK"
  <2>1. TIME_SCALE_FACTOR \in Nat \ {0}
    BY ScheduleAssumption
  <2>2. /\ TRAIN_HEADWAY_PEAK_S \in Nat /\ TRAIN_HEADWAY_PEAK_S >= 120
        /\ TRAIN_HEADWAY_OFFPEAK_S \in Nat /\ TRAIN_HEADWAY_OFFPEAK_S >= 240
        /\ TRAIN_HEADWAY_NIGHT_S \in Nat /\ TRAIN_HEADWAY_NIGHT_S >= 240
    BY <2>1, SMT DEF TRAIN_HEADWAY_PEAK_S, TRAIN_HEADWAY_OFFPEAK_S, TRAIN_HEADWAY_NIGHT_S
  <2>3. Entry.period = TrainPeriod(Sod)
    BY DEF Entry
  <2>4. TrainPeriod(Sod) \in {"NIGHT", "PEAK", "OFFPEAK"}
    BY DEF TrainPeriod
  <2>5. CASE TrainPeriod(Sod) = "NIGHT"
    BY <2>2, <2>3, <2>5, SMT DEF HeadwayFor
  <2>6. CASE TrainPeriod(Sod) = "PEAK"
    BY <2>2, <2>3, <2>6, SMT DEF HeadwayFor
  <2>7. CASE TrainPeriod(Sod) = "OFFPEAK"
    BY <2>2, <2>3, <2>7, SMT DEF HeadwayFor
  <2>. QED BY <2>4, <2>5, <2>6, <2>7
<1>5. TrainPeriod(Sod) = "PEAK" => \/ 23400 <= m /\ m < 32400
                                   \/ 59400 <= m /\ m < 70200
                                   \/ 109800 <= m /\ m < 118800
                                   \/ 145800 <= m /\ m < 156600
  <2>. SUFFICES ASSUME TrainPeriod(Sod) = "PEAK"
                PROVE  \/ 23400 <= m /\ m < 32400
                       \/ 59400 <= m /\ m < 70200
                       \/ 109800 <= m /\ m < 118800
                       \/ 145800 <= m /\ m < 156600
    OBVIOUS
  <2>1. \/ Sod >= PEAK_AM_START_SOD /\ Sod < PEAK_AM_END_SOD
        \/ Sod >= PEAK_PM_START_SOD /\ Sod < PEAK_PM_END_SOD
    BY Zenon DEF TrainPeriod
  <2>2. /\ PEAK_AM_START_SOD = 23400 /\ PEAK_AM_END_SOD = 32400
        /\ PEAK_PM_START_SOD = 59400 /\ PEAK_PM_END_SOD = 70200
    BY SMT DEF PEAK_AM_START_SOD, PEAK_AM_END_SOD, PEAK_PM_START_SOD, PEAK_PM_END_SOD, SOD
  <2>. QED BY <1>3, <2>1, <2>2, SMT
<1>6. Peaks(m) \in Nat /\ Peaks(m + h) \in Nat /\ Peaks(g_start_sod) \in Nat
  BY <1>1, PeaksGrow, SMT
<1>7. Peaks(m) + 240 <= Peaks(m + h) + h
  <2>1. m + h \in Nat /\ m <= m + h
    BY SMT
  <2>2. CASE h >= 240
    <3>1. Peaks(m) <= Peaks(m + h)
      BY <2>1, PeaksGrow
    <3>. QED BY <1>6, <2>2, <3>1, SMT
  <2>3. CASE TrainPeriod(Sod) = "PEAK"
    <3>1. m + 120 <= m + h
      BY <1>4, SMT
    <3>2. Peaks(m) + 120 <= Peaks(m + h)
      BY <1>5, <2>1, <2>3, <3>1, PeaksGrow, SMT
    <3>. QED BY <1>4, <1>6, <3>2, SMT
  <2>. QED BY <1>4, <2>2, <2>3
<1>8. g_start_sod + (t + h) = m + h
  BY <1>1, <1>2, SMT
<1>9. Weighted(t) = t + Peaks(m) - Peaks(g_start_sod)
      /\ Weighted(t + h) = t + h + Peaks(m + h) - Peaks(g_start_sod)
  BY <1>2, <1>8 DEF Weighted
<1>. QED BY <1>1, <1>4, <1>6, <1>7, <1>9, SMT

(* A day's weighted time is less than MAX_TIMETABLE_ENTRIES trains use. *)
LEMMA DayHasRoom ==
  ASSUME TableTypes, t < SCHEDULE_HORIZON_S
  PROVE  Weighted(t) \in Int /\ Weighted(t) < 240 * MAX_TIMETABLE_ENTRIES
<1>1. t \in Nat /\ t < 86400 /\ g_start_sod \in Nat /\ g_start_sod < 86400
  <2>1. t \in Nat /\ g_start_sod \in Nat /\ g_start_sod < DAY_S
    BY Moments DEF TableTypes
  <2>2. t < 86400
    BY SMT DEF SCHEDULE_HORIZON_S
  <2>. QED BY <2>1, <2>2, HourValues, SMT
<1>2. g_start_sod + t \in Nat /\ g_start_sod + 86400 \in Nat
      /\ g_start_sod + t <= g_start_sod + 86400
  BY <1>1, SMT
<1>3. /\ Peaks(g_start_sod + t) \in Nat /\ Peaks(g_start_sod + 86400) \in Nat
      /\ Peaks(g_start_sod + t) <= Peaks(g_start_sod + 86400)
  BY <1>2, PeaksGrow, SMT
<1>4. Peaks(g_start_sod + 86400) = Peaks(g_start_sod) + 20040 /\ Peaks(g_start_sod) \in Nat
  BY <1>1, PeaksOfADay, PeaksGrow, SMT
<1>. QED BY <1>1, <1>3, <1>4, SMT DEF Weighted, MAX_TIMETABLE_ENTRIES

------------------------------------------------------------------------------
(* What building keeps.  Chain: the trains so far follow each other, each  *)
(* in service.  Continues: the moment building has got to is when the      *)
(* headway of the last train is over, or the morning after that.  Room:    *)
(* no train has used less weighted time than 240 s.                        *)
Chain == \A k \in Trains : /\ FollowsAt(FollowUp(k - 1), g_timetable[k].at_s)
                           /\ InService(g_timetable[k].at_s)
Continues == \/ FollowUp(Len(g_timetable)) = t
             \/ FollowsAt(FollowUp(Len(g_timetable)), t) /\ InService(t)
Room == 240 * Len(g_timetable) <= Weighted(t)

TableInv ==
  /\ TableTypes /\ Chain /\ Continues /\ Room
  /\ TableHoldsDay

LEMMA TableInit == Init => TableInv
<1>. SUFFICES ASSUME Init PROVE TableInv
  OBVIOUS
<1>1. /\ g_start_sod \in SecondOfDay /\ g_start_wday \in 0..6 /\ t = 0
      /\ g_timetable = <<>> /\ at = "build"
  BY ScheduleAssumption DEF Init
<1>2. g_timetable \in Seq(TrainEvent) /\ Len(g_timetable) = 0 /\ Trains = {}
  BY <1>1, SMT DEF Trains
<1>3. TableTypes
  BY <1>1, <1>2, SMT DEF TableTypes
<1>4. Room
  <2>0. g_start_sod \in Nat
    BY <1>1, SecondsOfDay, Zenon
  <2>1. g_start_sod \in Nat /\ g_start_sod + 0 = g_start_sod
    BY <2>0, SMT
  <2>2. Peaks(g_start_sod) \in Nat
    BY <2>1, PeaksGrow, SMT
  <2>3. Weighted(0) = 0
    BY <2>1, <2>2, SMT DEF Weighted
  <2>. QED BY <1>1, <1>2, <2>3, SMT DEF Room
<1>5. Chain /\ Continues
  BY <1>1, <1>2 DEF Chain, Continues, FollowUp
<1>. QED BY <1>1, <1>3, <1>4, <1>5 DEF TableInv, TableHoldsDay

(* The clock's start does not change, and service is counted from it. *)
LEMMA SameService ==
  ASSUME UNCHANGED <<g_start_sod, g_start_wday>>
  PROVE  /\ \A s : InService(s)' <=> InService(s)
         /\ \A s, u : FollowsAt(s, u)' <=> FollowsAt(s, u)
         /\ \A s : Weighted(s)' = Weighted(s)
<1>1. \A s : Moment(s)' = Moment(s)
  BY DEF Moment
<1>2. \A s : InService(s)' <=> InService(s)
  BY <1>1 DEF InService, ByDay, Evening
<1>3. \A s, u : FollowsAt(s, u)' <=> FollowsAt(s, u)
  BY <1>1, <1>2 DEF FollowsAt
<1>. QED BY <1>2, <1>3 DEF Weighted

LEMMA TableStays ==
  ASSUME TableInv, SameTable, TableHoldsDay'
  PROVE  TableInv'
<1>. USE DEF SameTable
<1>1. /\ \A s : InService(s)' <=> InService(s)
      /\ \A s, u : FollowsAt(s, u)' <=> FollowsAt(s, u)
      /\ \A s : Weighted(s)' = Weighted(s)
  BY SameService
<1>2. Trains' = Trains /\ \A k : FollowUp(k)' = FollowUp(k)
  BY DEF Trains, FollowUp
<1>3. TableTypes'
  BY DEF TableInv, TableTypes
<1>4. Chain'
  BY <1>1, <1>2 DEF TableInv, Chain
<1>5. Continues'
  BY <1>1, <1>2 DEF TableInv, Continues
<1>6. Room'
  BY <1>1 DEF TableInv, Room
<1>. QED BY <1>3, <1>4, <1>5, <1>6 DEF TableInv

LEMMA TableSkip == TableInv /\ SkipNight => TableInv'
<1>. SUFFICES ASSUME TableInv, SkipNight PROVE TableInv'
  OBVIOUS
<1>1. /\ TableTypes /\ NoService /\ at = "build"
      /\ t' = t + (IF ToMorning > 0 THEN ToMorning ELSE 60)
      /\ UNCHANGED <<g_start_sod, g_start_wday, at, g_timetable>>
  BY DEF TableInv, SkipNight, Building
<1>2. ~InService(t) /\ t \in Nat
  BY <1>1, ServiceHours DEF TableTypes
<1>3. PICK e, x \in Nat : MorningOf(t, e, x)
  BY <1>1, <1>2, Morning
<1>4. t' = t + (DAY_S - x)
  BY <1>1, <1>3, ServiceHours
<1>5. t' \in Nat /\ FollowsAt(t, t') /\ ByDay(t')
  BY <1>1, <1>2, <1>3, <1>4, NightEnds
<1>6. /\ \A s : InService(s)' <=> InService(s)
      /\ \A s, u : FollowsAt(s, u)' <=> FollowsAt(s, u)
      /\ \A s : Weighted(s)' = Weighted(s)
  BY <1>1, SameService
<1>7. Trains' = Trains /\ \A k : FollowUp(k)' = FollowUp(k)
  BY <1>1 DEF Trains, FollowUp
<1>8. FollowUp(Len(g_timetable)) = t
  BY <1>2 DEF TableInv, Continues
<1>9. Continues'
  <2>1. FollowUp(Len(g_timetable))' = t
    BY <1>1, <1>7, <1>8
  <2>2. FollowsAt(t, t') /\ InService(t')
    BY <1>5 DEF InService
  <2>3. FollowsAt(FollowUp(Len(g_timetable)), t)' /\ InService(t)'
    BY <1>1, <2>1, <2>2 DEF FollowsAt, InService, ByDay, Evening, Moment
  <2>. QED BY <2>3 DEF Continues
<1>10. TableTypes' /\ Chain'
  BY <1>1, <1>5, <1>6, <1>7 DEF TableInv, TableTypes, Chain
<1>11. Room'
  <2>1. t <= t' /\ t' \in Nat
    <3>1. x \in Nat /\ x < DAY_S
      BY <1>3 DEF MorningOf
    <3>. QED BY <1>2, <1>4, <1>5, <3>1, SMT DEF DAY_S
  <2>2. Weighted(t) \in Int /\ Weighted(t') \in Int /\ Weighted(t) <= Weighted(t')
    BY <1>1, <1>2, <2>1, WeightedGrows
  <2>3. Len(g_timetable) \in Nat
    BY <1>1, SMT DEF TableTypes
  <2>4. Room' <=> 240 * Len(g_timetable) <= Weighted(t')
    BY <1>1 DEF Room, Weighted
  <2>. QED BY <2>2, <2>3, <2>4, SMT DEF TableInv, Room
<1>. QED BY <1>1, <1>9, <1>10, <1>11 DEF TableInv, TableHoldsDay

LEMMA TableAdd == TableInv /\ AddTrain => TableInv'
<1>. SUFFICES ASSUME TableInv, AddTrain PROVE TableInv'
  OBVIOUS
<1> DEFINE h == HeadwayFor[Entry.period]
<1>0. PICK n \in Nat : n = Len(g_timetable)
  BY SMT DEF TableInv, TableTypes
<1>1. /\ TableTypes /\ ~NoService /\ at = "build" /\ t < SCHEDULE_HORIZON_S
      /\ g_timetable' = Append(g_timetable, Entry) /\ t' = t + h
      /\ UNCHANGED <<g_start_sod, g_start_wday, at>>
  BY DEF TableInv, AddTrain, Building
<1>2. Entry \in TrainEvent /\ Entry.at_s = t
  BY <1>1, EntryTypes
<1>3. g_timetable \in Seq(TrainEvent) /\ n \in Nat /\ t \in Nat
  BY <1>0, <1>1, SMT DEF TableTypes
<1>4. /\ g_timetable' \in Seq(TrainEvent) /\ Len(g_timetable') = n + 1
      /\ g_timetable'[n + 1] = Entry
      /\ \A k \in 1..n : g_timetable'[k] = g_timetable[k]
  BY <1>0, <1>1, <1>2, <1>3, SMT
<1>5. /\ h \in Nat /\ Weighted(t) \in Int /\ Weighted(t + h) \in Int
      /\ Weighted(t) + 240 <= Weighted(t + h)
  BY <1>1, TrainTakesRoom
<1>6. InService(t)
  BY <1>1, ServiceHours
<1>7. FollowsAt(FollowUp(n), t)
  BY <1>0, <1>6 DEF TableInv, Continues, FollowsAt
<1>8. /\ \A s : InService(s)' <=> InService(s)
      /\ \A s, u : FollowsAt(s, u)' <=> FollowsAt(s, u)
      /\ \A s : Weighted(s)' = Weighted(s)
  BY <1>1, SameService
<1>9. TableTypes'
  BY <1>1, <1>3, <1>4, <1>5, SMT DEF TableTypes
<1>10. Trains' = 1..(n + 1) /\ Trains = 1..n
  BY <1>0, <1>4 DEF Trains
<1>11. \A k \in 0..n : FollowUp(k)' = FollowUp(k)
  <2>. SUFFICES ASSUME NEW k \in 0..n PROVE FollowUp(k)' = FollowUp(k)
    OBVIOUS
  <2>1. k = 0 \/ k \in 1..n
    BY <1>3, SMT
  <2>. QED BY <2>1, <1>4 DEF FollowUp
<1>12. Chain'
  <2>1. ASSUME NEW k \in 1..(n + 1)
        PROVE  FollowsAt(FollowUp(k - 1)', g_timetable'[k].at_s) /\ InService(g_timetable'[k].at_s)
    <3>1. CASE k = n + 1
      <4>1. k - 1 = n /\ n \in 0..n
        BY <3>1, <1>3, SMT
      <4>. QED BY <3>1, <4>1, <1>2, <1>4, <1>6, <1>7, <1>11
    <3>2. CASE k \in 1..n
      <4>1. k - 1 \in 0..n
        BY <3>2, <1>3, SMT
      <4>. QED BY <3>2, <4>1, <1>4, <1>10, <1>11 DEF TableInv, Chain
    <3>. QED BY <1>3, <3>1, <3>2, SMT
  <2>. QED BY <2>1, <1>8, <1>10 DEF Chain
<1>13. Continues'
  <2>1. FollowUp(n + 1)' = t'
    <3>1. n + 1 # 0
      BY <1>3, SMT
    <3>. QED BY <3>1, <1>1, <1>2, <1>4 DEF FollowUp, HeadwayFor
  <2>2. FollowUp(Len(g_timetable))' = FollowUp(n + 1)'
    BY <1>4 DEF FollowUp
  <2>. QED BY <2>1, <2>2 DEF Continues
<1>14. Room'
  <2>1. Room' <=> 240 * (n + 1) <= Weighted(t + h)
    BY <1>1, <1>4 DEF Room, Weighted
  <2>2. 240 * n <= Weighted(t)
    BY <1>0 DEF TableInv, Room
  <2>. QED BY <1>3, <1>5, <2>1, <2>2, SMT
<1>. QED BY <1>1, <1>9, <1>12, <1>13, <1>14 DEF TableInv, TableHoldsDay

LEMMA TableStart == TableInv /\ Start => TableInv'
<1>. SUFFICES ASSUME TableInv, Start PROVE TableInv'
  OBVIOUS
<1>1. SameTable /\ at = "build" /\ ~Building
  BY DEF Start, SameTable
<1>2. t >= SCHEDULE_HORIZON_S
  <2>. SUFFICES ASSUME t < SCHEDULE_HORIZON_S, ~(Len(g_timetable) < MAX_TIMETABLE_ENTRIES)
                PROVE  FALSE
    <3>1. t \in Nat /\ SCHEDULE_HORIZON_S \in Nat
      BY SMT DEF TableInv, TableTypes, SCHEDULE_HORIZON_S
    <3>2. ~(t < SCHEDULE_HORIZON_S) => t >= SCHEDULE_HORIZON_S
      BY <3>1, SMT
    <3>. QED BY <1>1, <3>2 DEF Building
  <2>1. Weighted(t) \in Int /\ Weighted(t) < 240 * MAX_TIMETABLE_ENTRIES
    BY DayHasRoom DEF TableInv
  <2>2. Len(g_timetable) \in Nat /\ 240 * Len(g_timetable) <= Weighted(t)
    BY SMT DEF TableInv, TableTypes, Room
  <2>. QED BY <2>1, <2>2, SMT DEF MAX_TIMETABLE_ENTRIES
<1>3. TableHoldsDay'
  BY <1>1, <1>2 DEF SameTable, TableHoldsDay
<1>. QED BY <1>1, <1>3, TableStays

THEOREM TableInvariant == Spec => []TableInv
<1>1. TableInv /\ [Next]_vars => TableInv'
  <2>. SUFFICES ASSUME TableInv, [Next]_vars PROVE TableInv'
    OBVIOUS
  <2>1. CASE SkipNight
    BY <2>1, TableSkip
  <2>2. CASE AddTrain
    BY <2>2, TableAdd
  <2>3. CASE Start
    BY <2>3, TableStart
  <2>4. CASE TooLate \/ Approach \/ Cleared \/ NoMoreTrains
    <3>1. SameTable /\ at # "build"
      BY <2>4 DEF TooLate, Approach, Cleared, NoMoreTrains, AtTrain, SameTable
    <3>2. TableHoldsDay'
      BY <3>1 DEF TableInv, TableHoldsDay, SameTable
    <3>. QED BY <3>1, <3>2, TableStays
  <2>5. CASE UNCHANGED vars
    <3>1. SameTable /\ TableHoldsDay'
      BY <2>5 DEF vars, SameTable, TableInv, TableHoldsDay
    <3>. QED BY <3>1, TableStays
  <2>. QED BY <2>1, <2>2, <2>3, <2>4, <2>5 DEF Next
<1>. QED BY <1>1, TableInit, PTL DEF Spec

(* The table has no hole, from every moment of the week and at every time  *)
(* scale: after each train the next one follows at its headway, or at the  *)
(* 06:30 that ends the night (NoTrainMissing).                             *)
THEOREM NoHoleInTheTable == Spec => []NoTrainMissing
<1>1. TableInv => NoTrainMissing
  <2>. SUFFICES ASSUME TableInv PROVE NoTrainMissing
    OBVIOUS
  <2>1. at # "build" => \/ FollowUp(Len(g_timetable)) >= SCHEDULE_HORIZON_S
                        \/ FollowsAt(FollowUp(Len(g_timetable)), t)
    BY DEF TableInv, Continues, TableHoldsDay
  <2>. QED BY <2>1 DEF TableInv, Chain, NoTrainMissing
<1>. QED BY <1>1, TableInvariant, PTL

(* Building ends at the horizon: 512 entries are enough for every day, at  *)
(* every time scale (TableHoldsDay).                                       *)
THEOREM TableLargeEnough == Spec => []TableHoldsDay
<1>1. TableInv => TableHoldsDay
  BY DEF TableInv
<1>. QED BY <1>1, TableInvariant, PTL

(* Every train in the table runs in service, however often midnight and    *)
(* the week's end are passed (TrainsInService).                            *)
THEOREM NoTrainOutOfService == Spec => []TrainsInService
<1>1. TableInv => TrainsInService
  BY DEF TableInv, Chain, TrainsInService, Trains
<1>. QED BY <1>1, TableInvariant, PTL
================================================================================
