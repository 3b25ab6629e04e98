----------------------------- MODULE MCEpgFile -----------------------------
(* Two services for TLC: A sends two tables and more that are not parsed,  *)
(* and then a single day, B two days                                       *)
EXTENDS EpgFile
MCServices == <<"A", "B">>
MCSchedules ==
    [A |-> << {<<0, 1, 1, 1>>, <<0, 1, 2, 1>>, <<0, 2, 1, 2>>, <<1, 1, 1, 3>>, <<2, 1, 1, 4>>},
              {<<0, 1, 1, 2>>, <<0, 1, 2, 2>>} >>,
     B |-> << {<<0, 1, 1, 1>>, <<0, 1, 2, 2>>} >>]

\* The schedules of the instance are such as the theorems assume.
ASSUME MCSchedulesAssumption == SchedulesFit
=============================================================================
