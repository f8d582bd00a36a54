------------------------- MODULE MCSnapshotPipeline -------------------------
(***************************************************************************)
(* Instances of SnapshotPipeline.  The thresholds are scaled down so that  *)
(* two or three reports and a clock of a few ticks reach every branch of   *)
(* the status algorithm; MCSnapshotStatus checks it with the real ones.    *)
(***************************************************************************)
EXTENDS SnapshotPipeline, TLC

\* what users report
QueueOrFoodEnded == {[status |-> "LARGE", conf |-> 100], [status |-> "FOOD_ENDED", conf |-> 55]}

\* meal periods over the clock
AlwaysLunch == [t \in Time |-> "LUNCH"]
LunchThenDinner ==
  [t \in Time |-> IF t = 0 THEN "LUNCH" ELSE IF t < MaxTime THEN "DINNER" ELSE Closed]
LunchThenClosed == [t \in Time |-> IF t < MaxTime THEN "LUNCH" ELSE Closed]

RequestSymmetry == Permutations(Request)
RequestWorkerSymmetry == Permutations(Request) \cup Permutations(Worker)
=============================================================================
