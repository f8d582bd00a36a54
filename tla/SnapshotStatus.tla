--------------------------- MODULE SnapshotStatus ---------------------------
(***************************************************************************)
(* The status algorithm of SnapshotStatusService (_compute_status and its  *)
(* helpers, src/app/services/snapshot_status_service.py), with the weights *)
(* and thresholds of the source as constants.                              *)
(*                                                                         *)
(* Time is counted in minutes.  A report carries its status, the time it   *)
(* was created and its confidence in hundredths (5..100).  Float and       *)
(* Decimal results are stored with two decimals, so they are hundredths    *)
(* here; a result is the SET of outcomes that the float arithmetic may     *)
(* produce, which has two members only where the exact quotient is a tie.  *)
(***************************************************************************)
EXTENDS Integers, FiniteSets, FiniteSetsExt, Functions

CONSTANTS
  FoodEndedQuorum,     \* _FOOD_ENDED_QUORUM
  FoodEndedWindow,     \* _FOOD_ENDED_WINDOW_SECONDS
  ReportWindow,        \* _REPORT_WINDOW_MINUTES
  ShortWindow,         \* the "5 * 60" of the adaptive window and the weights
  MediumWindow,        \* the "10 * 60" of the adaptive window and the weights
  FreshAge,            \* the "60" seconds of the weights
  ShortMinCount,       \* _ADAPTIVE_5MIN_MIN_COUNT
  MediumMinCount,      \* _ADAPTIVE_10MIN_MIN_COUNT
  Null                 \* SQL NULL, Python None

ASSUME NullAssumption == Null \notin Int

ASSUME WindowsAssumption ==
  /\ FoodEndedQuorum \in Nat \ {0} /\ ShortMinCount \in Nat /\ MediumMinCount \in Nat
  /\ {FoodEndedWindow, ReportWindow, ShortWindow, MediumWindow, FreshAge} \subseteq Nat
  /\ FreshAge <= ShortWindow /\ ShortWindow <= MediumWindow /\ MediumWindow <= ReportWindow
  /\ FoodEndedWindow <= ReportWindow

Scored == {"NO_QUEUE", "SMALL", "MEDIUM", "LARGE"}
ReportStatus == Scored \cup {"FOOD_ENDED"}
SnapshotStatusEnum == ReportStatus \cup {"NO_DATA"}

\* Faulty variant: two ranks swapped.
StatusValue_Swapped ==
  [s \in Scored |-> CASE s = "NO_QUEUE" -> 0 [] s = "SMALL" -> 1
                      [] s = "MEDIUM" -> 3 [] s = "LARGE" -> 2]

StatusValue ==
  [s \in Scored |-> CASE s = "NO_QUEUE" -> 0 [] s = "SMALL" -> 1
                      [] s = "MEDIUM" -> 2 [] s = "LARGE" -> 3]

Confidence == 0..100
Average == 0..300

Outcome == [status : SnapshotStatusEnum, avg : Average \cup {Null}, conf : Confidence]

NoData == [status |-> "NO_DATA", avg |-> Null, conf |-> 100]

-----------------------------------------------------------------------------
(* Selection of the reports that count. *)

Within(R, t, window) == {r \in R : t - r.at <= window}

AdaptiveWindow(R, t) ==
  IF Cardinality(Within(R, t, ShortWindow)) >= ShortMinCount THEN ShortWindow
  ELSE IF Cardinality(Within(R, t, MediumWindow)) >= MediumMinCount THEN MediumWindow
  ELSE ReportWindow

FoodEndedReports(R, t) ==
  {r \in Within(R, t, FoodEndedWindow) : r.status = "FOOD_ENDED"}

ScorableReports(R, t) ==
  {r \in Within(R, t, AdaptiveWindow(R, t)) : r.status \in Scored}

-----------------------------------------------------------------------------
(* The weighted mean. *)

\* Faulty variant: the first two weights swapped.
TemporalWeight_Swapped(age) ==
  CASE age <= FreshAge -> 70
    [] age > FreshAge /\ age <= ShortWindow -> 95
    [] age > ShortWindow /\ age <= MediumWindow -> 40
    [] OTHER -> 15

TemporalWeight(age) ==
  CASE age <= FreshAge -> 95
    [] age > FreshAge /\ age <= ShortWindow -> 70
    [] age > ShortWindow /\ age <= MediumWindow -> 40
    [] OTHER -> 15

\* q is a nearest integer to n / d
IsNearest(q, n, d) == -d <= 2 * (q * d - n) /\ 2 * (q * d - n) <= d

\* the members of 0..hi that are nearest to n / d: two of them at a tie, where
\* the last bit of a float sum decides
Nearest(hi, n, d) ==
  {q \in {n \div d, (n \div d) + 1} \cap 0..hi : IsNearest(q, n, d)}

\* Decimal.quantize is exact: ROUND_HALF_EVEN decides a tie
HalfEven(hi, n, d) ==
  {q \in Nearest(hi, n, d) : 2 * (q * d - n) \in {-d, d} => q % 2 = 0}

\* Faulty variant: the mean is truncated, not rounded.
Means_Truncated(value, total, temporal) ==
  {[status |-> s, avg |-> a, conf |-> c] :
     s \in {x \in Scored : StatusValue[x] = value \div total},
     a \in Nearest(300, 100 * value, total), c \in Nearest(100, total, temporal)}

\* the outcomes of the three sums of the loop
Means(value, total, temporal) ==
  IF total = 0 THEN {NoData}
  ELSE {[status |-> s, avg |-> a, conf |-> c] :
          s \in {x \in Scored : IsNearest(StatusValue[x], value, total)},
          a \in Nearest(300, 100 * value, total), c \in Nearest(100, total, temporal)}

WeightedOutcomes(S, t) ==
  LET weight == [r \in S |-> TemporalWeight(t - r.at)]
      score == [r \in S |-> weight[r] * r.conf]
      value == [r \in S |-> StatusValue[r.status] * score[r]]
  IN  Means(SumFunction(value), SumFunction(score), SumFunction(weight))

QuorumOutcomes(S) ==
  {[status |-> "FOOD_ENDED", avg |-> Null, conf |-> c] :
     c \in HalfEven(100, SumFunction([r \in S |-> r.conf]), Cardinality(S))}

\* Faulty variant: more than the quorum is needed.
ComputeStatus_AboveQuorum(R, t) ==
  IF Cardinality(FoodEndedReports(R, t)) > FoodEndedQuorum
  THEN QuorumOutcomes(FoodEndedReports(R, t))
  ELSE IF ScorableReports(R, t) = {} THEN {NoData}
  ELSE WeightedOutcomes(ScorableReports(R, t), t)

\* _compute_status: R are the reports of the last 15 minutes, t is "now"
ComputeStatus(R, t) ==
  IF R = {} THEN {NoData}
  ELSE IF Cardinality(FoodEndedReports(R, t)) >= FoodEndedQuorum
       THEN QuorumOutcomes(FoodEndedReports(R, t))
  ELSE IF ScorableReports(R, t) = {} THEN {NoData}
  ELSE WeightedOutcomes(ScorableReports(R, t), t)
=============================================================================
