-------------------------- MODULE ConfidenceScore --------------------------
(***************************************************************************)
(* How much a report is trusted, in hundredths                             *)
(* (ConfidenceScoreService.calculate_confidence_score): what its location  *)
(* looks like, and how far it is from the average of the row that is on    *)
(* display when it comes in.  The score weighs the report in the next      *)
(* calculation of that row.                                                *)
(***************************************************************************)
EXTENDS SnapshotStatus

CONSTANT Metres     \* accuracies a client may send, in metres

ASSUME MetresAssumption == Metres \subseteq Nat /\ 0 \in Metres

\* PENALTIES and MIN_CONFIDENCE_SCORE
Penalty == [mock |-> 80, noAccuracy |-> 30, coarse |-> 15, round |-> 25,
            severe |-> 25, moderate |-> 15]
MinConfidence == 5

\* what a request says of its location: isMock, accuracy_m, and whether latitude or
\* longitude ends in three zeros of six
Evidence == [mock : BOOLEAN, accuracy : Metres \cup {Null}, round : BOOLEAN]

AccuracyPenalty(accuracy) ==
  IF accuracy \in {Null, 0} THEN Penalty.noAccuracy
  ELSE IF 20 <= accuracy /\ accuracy <= 50 THEN Penalty.coarse ELSE 0

Apart(m, n) == IF m <= n THEN n - m ELSE m - n

\* avg is the average of the row, or Null; FOOD_ENDED has no value to compare
DissentPenalty(status, avg) ==
  IF avg = Null \/ status \notin Scored THEN 0
  ELSE LET distance == Apart(100 * StatusValue[status], avg)
       IN  IF distance >= 200 THEN Penalty.severe
           ELSE IF distance >= 150 THEN Penalty.moderate ELSE 0

\* Faulty variant: a mocked location costs as much as a round coordinate.
Remaining_CheapMock(e, status, avg) ==
  100 - (IF e.mock THEN Penalty.round ELSE 0) - AccuracyPenalty(e.accuracy)
      - (IF e.round THEN Penalty.round ELSE 0) - DissentPenalty(status, avg)

Remaining(e, status, avg) ==
  100 - (IF e.mock THEN Penalty.mock ELSE 0) - AccuracyPenalty(e.accuracy)
      - (IF e.round THEN Penalty.round ELSE 0) - DissentPenalty(status, avg)

\* Faulty variant: the lower bound is zero.
ConfidenceScore_DownToZero(e, status, avg) ==
  IF Remaining(e, status, avg) >= 0 THEN Remaining(e, status, avg) ELSE 0

ConfidenceScore(e, status, avg) ==
  IF Remaining(e, status, avg) >= MinConfidence THEN Remaining(e, status, avg)
  ELSE MinConfidence
=============================================================================
