---------------------------- MODULE MCTrainSchedule ----------------------------
(* Starts around every change of period, and within a lead of the first train. *)
EXTENDS TrainScheduleProps

MCStartSods == {0, 1, SOD(3, 0), NIGHT_END_SOD - 60, NIGHT_END_SOD - 30, NIGHT_END_SOD,
                SOD(8, 59), SOD(12, 0), PEAK_PM_START_SOD - 1, SOD(19, 31), NIGHT_START_SOD - 1,
                NIGHT_START_SOD, 86399}
MCFewSods == {NIGHT_END_SOD - 30, NIGHT_END_SOD, SOD(12, 0), 86399}
================================================================================
