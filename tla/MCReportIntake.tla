--------------------------- MODULE MCReportIntake ---------------------------
(***************************************************************************)
(* Instances of ReportIntake: when the meal periods are.                   *)
(***************************************************************************)
EXTENDS ReportIntake, TLC

LunchDinnerClosed ==
  [t \in Time |-> IF t <= 1 THEN "LUNCH" ELSE IF t <= 3 THEN "DINNER" ELSE Closed]

RequestSymmetry == Permutations(Request)
=============================================================================
