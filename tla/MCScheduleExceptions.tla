------------------------ MODULE MCScheduleExceptions ------------------------
(***************************************************************************)
(* Instances of ScheduleExceptions: lunch in the first half of a short day *)
(* and dinner in the second.                                               *)
(***************************************************************************)
EXTENDS ScheduleExceptions, TLC

LunchAndDinner == {[period |-> "LUNCH", opens |-> 0, closes |-> 1],
                   [period |-> "DINNER", opens |-> 1, closes |-> 2]}

AdminRowSymmetry == Permutations(Admin) \cup Permutations(Row)
=============================================================================
