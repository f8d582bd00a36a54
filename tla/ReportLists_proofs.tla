------------------------- MODULE ReportLists_proofs -------------------------
(***************************************************************************)
(* Proofs about the confidence score, and that the properties of           *)
(* ReportLists hold of every list of reports: of any length, made of any   *)
(* reports, for every value of the thresholds.                             *)
(***************************************************************************)
EXTENDS ReportLists, SnapshotStatus_proofs

-----------------------------------------------------------------------------
(* The confidence score. *)

\* What the evidence and the dissent can cost.
LEMMA PenaltyBounds ==
  ASSUME NEW e \in Evidence, NEW status, NEW avg
  PROVE  /\ AccuracyPenalty(e.accuracy) \in {0, 15, 30}
         /\ DissentPenalty(status, avg) \in {0, 15, 25}
  BY DEF AccuracyPenalty, DissentPenalty, Penalty

\* The score is a confidence that the column accepts, and never zero, which would divide
\* the weighted mean of a lone report by nothing.
THEOREM ScoreIsPositive ==
  ASSUME NEW e \in Evidence, NEW status, NEW avg
  PROVE  /\ ConfidenceScore(e, status, avg) \in Confidence
         /\ ConfidenceScore(e, status, avg) > 0
  BY PenaltyBounds DEF ConfidenceScore, Remaining, Penalty, MinConfidence, Confidence, Evidence

\* However bad a genuine report looks and whatever it contradicts, it never scores below
\* one with a mocked location: the penalties that add up to 80 for the first are one
\* penalty of 80 for the second.
THEOREM MockNeverOutranksGenuine ==
  ASSUME NEW e1 \in Evidence, NEW e2 \in Evidence, ~ e1.mock, e2.mock,
         NEW s1, NEW s2, NEW avg1, NEW avg2
  PROVE  ConfidenceScore(e1, s1, avg1) >= ConfidenceScore(e2, s2, avg2)
<1>1. Remaining(e1, s1, avg1) >= 20
  BY PenaltyBounds DEF Remaining, Penalty
<1>2. Remaining(e2, s2, avg2) <= 20
  BY PenaltyBounds DEF Remaining, Penalty
<1>3. Remaining(e1, s1, avg1) \in Int /\ Remaining(e2, s2, avg2) \in Int
  BY PenaltyBounds DEF Remaining, Penalty
<1> QED
  BY <1>1, <1>2, <1>3 DEF ConfidenceScore, MinConfidence

-----------------------------------------------------------------------------
(* The lists. *)

ListInv == list \in Seq(DOMAIN Samples)

\* A list is a sequence of positions in the samples.
LEMMA ListTyped == Spec => []ListInv
<1>1. Init => ListInv
  BY DEF Init, ListInv
<1>2. ListInv /\ [Next]_list => ListInv'
  BY DEF ListInv, Next, AddReport
<1> QED
  BY <1>1, <1>2, PTL DEF Spec

\* The reports of a list are as the table holds them, with scores that are not zero, and
\* told apart by their id, which is not zero either.
LEMMA ReportsListed ==
  ASSUME ListInv
  PROVE  /\ Listing(Reports)
         /\ \A r \in Reports : r \in [id : Nat \ {0}, at : Nat, status : ReportStatus, conf : Confidence]
         /\ \A r \in Reports : r.conf > 0
         /\ \A r, q \in Reports : r.id = q.id => r = q
<1> DEFINE Item(i) == [id |-> i, at |-> Samples[list[i]].at, status |-> Samples[list[i]].status,
                       conf |-> Samples[list[i]].conf]
<1>1. Reports = {Item(i) : i \in DOMAIN list}
  BY DEF Reports
<1>2. DOMAIN list = 1..Len(list) /\ Len(list) \in Nat
  BY DEF ListInv
<1>3. IsFiniteSet(Reports)
  <2>1. IsFiniteSet(DOMAIN list)
    BY <1>2, FS_Interval
  <2> DEFINE f == [i \in DOMAIN list |-> Item(i)]
  <2>2. f \in Surjection(DOMAIN list, Reports)
    BY <1>1 DEF Surjection
  <2> QED
    BY <2>1, <2>2, FS_Surjection
<1>4. \A i \in DOMAIN list :
        /\ Item(i) \in [id : Nat \ {0}, at : Nat, status : ReportStatus, conf : Confidence]
        /\ Item(i).conf > 0
  <2> SUFFICES ASSUME NEW i \in DOMAIN list
               PROVE  /\ Item(i) \in [id : Nat \ {0}, at : Nat, status : ReportStatus, conf : Confidence]
                      /\ Item(i).conf > 0
    OBVIOUS
  <2>1. list[i] \in DOMAIN Samples
    BY DEF ListInv
  <2>2. Samples[list[i]] \in [at : 0..Now, status : ReportStatus, conf : MinConfidence..100]
    <3> DEFINE X == [at : 0..Now, status : ReportStatus, conf : MinConfidence..100]
    <3>1. Samples \in Seq(X)
      BY ListsAssumption
    <3> HIDE DEF X
    <3>2. Samples[list[i]] \in X
      BY <2>1, <3>1
    <3> QED
      BY <3>2 DEF X
  <2>3. /\ Now \in Nat /\ 0..Now \subseteq Nat /\ MinConfidence..100 \subseteq Confidence
        /\ \A c \in MinConfidence..100 : c > 0
    BY ListsAssumption DEF MinConfidence, Confidence
  <2>4. i \in Nat \ {0}
    BY <1>2
  <2> QED
    BY <2>2, <2>3, <2>4
<1>5. \A r \in Reports : /\ r \in [id : Nat \ {0}, at : Nat, status : ReportStatus, conf : Confidence]
                         /\ r.conf > 0
  <2> HIDE DEF Item
  <2> QED
    BY <1>1, <1>4
<1>6. \A r, q \in Reports : r.id = q.id => r = q
  <2> SUFFICES ASSUME NEW i \in DOMAIN list, NEW j \in DOMAIN list, Item(i).id = Item(j).id
               PROVE  Item(i) = Item(j)
    BY <1>1
  <2> QED
    OBVIOUS
<1>7. \A r \in Reports : r.at \in Int /\ r.status \in ReportStatus /\ r.conf \in Confidence
  BY <1>5
<1> QED
  BY <1>3, <1>5, <1>6, <1>7 DEF Listing

\* The order of the statuses is the one of their values.
LEMMA LevelsAreValues == \A s \in Scored : Levels[s] = StatusValue[s] /\ Levels[s] \in 0..3
<1> DEFINE order == <<"NO_QUEUE", "SMALL", "MEDIUM", "LARGE">>
<1>1. \A i \in 0..3 : /\ order[i + 1] = "NO_QUEUE" <=> i = 0
                      /\ order[i + 1] = "SMALL" <=> i = 1
                      /\ order[i + 1] = "MEDIUM" <=> i = 2
                      /\ order[i + 1] = "LARGE" <=> i = 3
  <2>1. \A i \in 0..3 : i = 0 \/ i = 1 \/ i = 2 \/ i = 3
    OBVIOUS
  <2> QED
    BY <2>1
<1>2. \A s \in Scored : Levels[s] = CHOOSE i \in 0..3 : order[i + 1] = s
  BY Zenon DEF Levels
<1> HIDE DEF order
<1>3. ASSUME NEW s \in Scored PROVE Levels[s] = StatusValue[s] /\ Levels[s] \in 0..3
  <2>1. StatusValue[s] \in 0..3 /\ order[StatusValue[s] + 1] = s
    BY <1>1 DEF StatusValue, Scored
  <2>2. \A i \in 0..3 : order[i + 1] = s => i = StatusValue[s]
    BY <1>1 DEF StatusValue, Scored
  <2>3. (CHOOSE i \in 0..3 : order[i + 1] = s) = StatusValue[s]
    BY <2>1, <2>2
  <2> QED
    BY <1>2, <2>1, <2>3
<1> QED
  BY <1>3

\* There is one result, whose parts fit each other.
THEOREM OutcomesAreCoherent == Spec => []CoherentOutcome
<1>1. ListInv => CoherentOutcome
  <2> SUFFICES ASSUME ListInv PROVE CoherentOutcome
    OBVIOUS
  <2>1. /\ Result # {}
        /\ \A o \in Result : o \in Outcome /\ Described(o)
        /\ \A o1, o2 \in Result : Alike(o1, o2)
    BY ReportsListed, ListsAssumption, OutcomesDescribed DEF Result
  <2>2. \A o \in Result : o.avg # Null => o.status \in Scored
    BY <2>1 DEF Described, Outcome, SnapshotStatusEnum, ReportStatus
  <2>3. \A o \in Result : o.avg # Null => 100 * Levels[o.status] - o.avg \in -50..50
    BY <2>1, <2>2, LevelsAreValues DEF Described
  <2> QED
    BY <2>1, <2>3 DEF CoherentOutcome, Described, Alike
<1> QED
  BY <1>1, ListTyped, PTL

\* Raising what a user reported never lowers the average.
THEOREM AverageIsMonotone == Spec => []Monotone
<1>1. ListInv => Monotone
  <2> SUFFICES ASSUME ListInv, NEW r \in Reports, NEW s \in Scored,
                      r.status \in Scored, Levels[r.status] < Levels[s], NEW o1 \in Result
               PROVE  \E o2 \in ComputeStatus((Reports \ {r}) \cup {[r EXCEPT !.status = s]}, Now) :
                        o1.avg # Null => o2.avg >= o1.avg
    BY DEF Monotone
  <2> DEFINE q == [r EXCEPT !.status = s]
  <2>1. q.at = r.at /\ q.conf = r.conf /\ q.status = s /\ q.id = r.id
    <3>1. r \in [id : Nat \ {0}, at : Nat, status : ReportStatus, conf : Confidence]
      BY ReportsListed
    <3> QED
      BY <3>1
  <2>2. q \notin Reports \ {r}
    BY <2>1, ReportsListed
  <2> HIDE DEF q
  <2>3. Twin(Reports, r, q) /\ StatusValue[r.status] <= StatusValue[q.status]
    BY <2>1, <2>2, LevelsAreValues DEF Twin
  <2>4. Now \in Int /\ Listing(Reports) /\ o1 \in ComputeStatus(Reports, Now)
    BY ReportsListed, ListsAssumption DEF Result
  <2>5. \E o2 \in ComputeStatus(Replaced(Reports, r, q), Now) : o1.avg # Null => o2.avg >= o1.avg
    BY <2>3, <2>4, RaisingRaises
  <2> QED
    BY <2>5 DEF Replaced, q
<1> QED
  BY <1>1, ListTyped, PTL

\* When two equally trusted reports disagree, the more recent one weighs more.
THEOREM RecentReportsWeighMore == Spec => []RecentWeighsMore
<1>1. ListInv => RecentWeighsMore
  <2> SUFFICES ASSUME ListInv,
                      NEW a \in ScorableReports(Reports, Now), NEW b \in ScorableReports(Reports, Now),
                      a.conf = b.conf, a.at > b.at, Levels[a.status] < Levels[b.status],
                      NEW o1 \in Result
               PROVE  \E o2 \in ComputeStatus((Reports \ {a, b}) \cup
                                 {[a EXCEPT !.status = b.status], [b EXCEPT !.status = a.status]}, Now) :
                        o1.avg # Null => o2.avg >= o1.avg
    BY DEF RecentWeighsMore
  <2> DEFINE a2 == [a EXCEPT !.status = b.status]
             b2 == [b EXCEPT !.status = a.status]
             R1 == Replaced(Reports, a, a2)
  <2>1. /\ Now \in Int /\ Listing(Reports) /\ o1 \in ComputeStatus(Reports, Now)
        /\ a \in Reports /\ b \in Reports /\ a.status \in Scored /\ b.status \in Scored
    <3>1. Now \in Int /\ Listing(Reports)
      BY ReportsListed, ListsAssumption
    <3> QED
      BY <3>1, SelectedLists DEF Result, Scorable
  <2>2. /\ a \in [id : Nat \ {0}, at : Nat, status : ReportStatus, conf : Confidence]
        /\ b \in [id : Nat \ {0}, at : Nat, status : ReportStatus, conf : Confidence]
    BY <2>1, ReportsListed
  <2>3. StatusValue[a.status] <= StatusValue[b.status] /\ a # b
    BY <2>1, <2>2, LevelsAreValues
  <2>4. a.id # b.id
    BY <2>1, <2>3, ReportsListed
  <2>5. /\ a2.at = a.at /\ a2.conf = a.conf /\ a2.status = b.status /\ a2.id = a.id
        /\ b2.at = b.at /\ b2.conf = b.conf /\ b2.status = a.status /\ b2.id = b.id
    BY <2>2
  <2> HIDE DEF a2, b2
  <2>6. a2 \notin Reports \ {a} /\ b2 \notin Reports \ {b} /\ b # a2 /\ b2 # a2
    BY <2>1, <2>4, <2>5, ReportsListed
  <2>7. Twin(Reports, a, a2)
    BY <2>1, <2>5, <2>6 DEF Twin
  <2>8. Twin(R1, b, b2)
    BY <2>1, <2>3, <2>5, <2>6 DEF Twin, Replaced
  <2>9. Replaced(R1, b, b2) = (Reports \ {a, b}) \cup {a2, b2}
    BY <2>6 DEF Replaced
  <2>10. \E o2 \in ComputeStatus(Replaced(R1, b, b2), Now) : o1.avg # Null => o2.avg >= o1.avg
    BY <2>1, <2>3, <2>5, <2>6, <2>7, <2>8, RecencyCounts
  <2> QED
    BY <2>9, <2>10 DEF a2, b2
<1> QED
  BY <1>1, ListTyped, PTL

\* A quorum decides alone, and fewer of its reports enter no mean.
THEOREM QuorumsDecide == Spec => []QuorumDecides
<1>1. ListInv => QuorumDecides
  <2> SUFFICES ASSUME ListInv PROVE QuorumDecides
    OBVIOUS
  <2> DEFINE R == Reports
             E == RecentFoodEnded(Reports)
             rest == Reports \ FoodEndedOf(Reports)
  <2>1. FoodEndedReports(R, Now) = E /\ FoodEndedReports(E, Now) = E /\ FoodEndedReports(rest, Now) = {}
    BY DEF FoodEndedReports, Within, RecentFoodEnded, FoodEndedOf
  <2>2. Listing(R) /\ Now \in Int
    BY ReportsListed, ListsAssumption
  <2>3. CASE Cardinality(E) >= FoodEndedQuorum
    <3>1. E # {} /\ R # {} /\ Listing(E)
      <4> HIDE DEF R, E
      <4> QED
        BY <2>1, <2>2, <2>3, QuorumIsSome, SelectedLists
    <3>2. Result = QuorumOutcomes(E) /\ ComputeStatus(E, Now) = QuorumOutcomes(E)
      BY <2>1, <2>3, <3>1 DEF ComputeStatus, Result
    <3>3. \A o \in QuorumOutcomes(E) : o.status = "FOOD_ENDED"
      <4> HIDE DEF E
      <4> QED
        BY <3>1, QuorumDescribed DEF Listing
    <3> QED
      BY <2>3, <3>2, <3>3 DEF QuorumDecides
  <2>4. CASE ~ (Cardinality(E) >= FoodEndedQuorum)
    <3> SUFFICES ASSUME AdaptiveWindow(R, Now) = AdaptiveWindow(rest, Now)
                 PROVE  Result = ComputeStatus(rest, Now)
      BY <2>4 DEF QuorumDecides
    <3>1. ScorableReports(rest, Now) = ScorableReports(R, Now)
      <4>1. \A r \in R : r.status \in Scored => r \in rest
        BY DEF FoodEndedOf, Scored
      <4>2. rest \subseteq R
        OBVIOUS
      <4> HIDE DEF R, rest
      <4> QED
        BY <4>1, <4>2 DEF ScorableReports, Within
    <3>2. ~ (Cardinality(FoodEndedReports(rest, Now)) >= FoodEndedQuorum)
      BY <2>1, FS_EmptySet, WindowsAssumption
    <3>3. rest = {} => ScorableReports(rest, Now) = {}
      BY DEF ScorableReports, Within
    <3>4. R = {} => ScorableReports(R, Now) = {}
      BY DEF ScorableReports, Within
    <3> HIDE DEF R, rest, E
    <3>5. ComputeStatus(rest, Now) = ComputeStatus(R, Now)
      BY <2>1, <2>4, <3>1, <3>2, <3>3, <3>4 DEF ComputeStatus
    <3> QED
      BY <3>5 DEF Result, R
  <2> QED
    BY <2>3, <2>4
<1> QED
  BY <1>1, ListTyped, PTL

\* A new report moves no average away from what it says, nor past it, and is not silent
\* where nothing else is known.
THEOREM EveryVoiceIsHeard == Spec => []EveryVoiceCounts
<1>1. ListInv => EveryVoiceCounts
  <2> SUFFICES ASSUME ListInv, NEW e \in Evidence, NEW status \in Scored, NEW avg \in Shown,
                      NEW r, r = NewReport(0, e, status, avg),
                      AdaptiveWindow(Reports \cup {r}, Now) = AdaptiveWindow(Reports, Now),
                      NEW o1 \in Result
               PROVE  /\ o1.avg # Null => \E o2 \in ComputeStatus(Reports \cup {r}, Now) :
                           Between(o2.avg, o1.avg, 100 * Levels[r.status])
                      /\ o1 = NoData => \A o2 \in ComputeStatus(Reports \cup {r}, Now) :
                           o2.status = r.status
    BY DEF EveryVoiceCounts, IsHeard
  <2>1. Listing(Reports) /\ Now \in Int /\ o1 \in ComputeStatus(Reports, Now)
    BY ReportsListed, ListsAssumption DEF Result
  <2>2. r \notin Reports
    <3>1. \A x \in Reports : x.id # 0
      BY ReportsListed
    <3> QED
      BY <3>1 DEF NewReport
  <2>3. r.at = Now /\ r.status = status /\ r.conf \in Confidence /\ r.conf > 0
    BY ScoreIsPositive DEF NewReport
  <2>4. \E o2 \in ComputeStatus(Reports \cup {r}, Now) :
          o1.avg # Null => InBetween(o2.avg, o1.avg, 100 * StatusValue[r.status])
    BY <2>1, <2>2, <2>3, VoiceCounts
  <2>5. Levels[r.status] = StatusValue[r.status]
    BY <2>3, LevelsAreValues
  <2>6. \A x \in Reports : x.conf > 0
    BY ReportsListed
  <2>7. o1 = NoData => \A o2 \in ComputeStatus(Reports \cup {r}, Now) : o2.status = r.status
    BY <2>1, <2>2, <2>3, <2>6, FirstVoiceShows
  <2> QED
    BY <2>4, <2>5, <2>7 DEF Between, InBetween
<1> QED
  BY <1>1, ListTyped, PTL

\* The mean of a genuine and a mocked report is never nearer to the mocked one.
THEOREM GenuineReportsWin == Spec => []GenuineOutweighsMock
<1>1. GenuineOutweighsMock
  <2> SUFFICES ASSUME NEW e1 \in Evidence, NEW e2 \in Evidence, ~ e1.mock, e2.mock,
                      NEW s1 \in Scored, NEW s2 \in Scored, NEW avg \in Shown,
                      NEW o \in ComputeStatus({NewReport(1, e1, s1, avg), NewReport(2, e2, s2, avg)}, Now)
               PROVE  Apart(o.avg, 100 * Levels[s1]) <= Apart(o.avg, 100 * Levels[s2])
    BY DEF GenuineOutweighsMock
  <2> DEFINE r == NewReport(1, e1, s1, avg)
             q == NewReport(2, e2, s2, avg)
             x == 100 * StatusValue[r.status]
             y == 100 * StatusValue[q.status]
  <2>1. r.id = 1 /\ q.id = 2 /\ r.at = Now /\ q.at = Now /\ r.status = s1 /\ q.status = s2
        /\ r.conf = ConfidenceScore(e1, s1, avg) /\ q.conf = ConfidenceScore(e2, s2, avg)
    BY DEF NewReport
  <2>2. r.conf \in Confidence /\ q.conf \in Confidence /\ q.conf > 0 /\ q.conf <= r.conf
    <3>1. /\ ConfidenceScore(e1, s1, avg) \in Confidence /\ ConfidenceScore(e2, s2, avg) \in Confidence
          /\ ConfidenceScore(e2, s2, avg) > 0
      BY ScoreIsPositive
    <3>2. ConfidenceScore(e1, s1, avg) >= ConfidenceScore(e2, s2, avg)
      BY MockNeverOutranksGenuine
    <3> QED
      BY <2>1, <3>1, <3>2 DEF Confidence
  <2>3. Now \in Int /\ r # q
    BY <2>1, ListsAssumption
  <2> HIDE DEF r, q
  <2>4. /\ o.avg \in Int /\ x \in Int /\ y \in Int
        /\ x <= y => o.avg + o.avg <= x + y
        /\ y <= x => x + y <= o.avg + o.avg
    <3>1. o \in ComputeStatus({r, q}, Now)
      BY DEF r, q
    <3> QED
      BY <2>1, <2>2, <2>3, <3>1, TrustedVoiceWins
  <2>5. x = 100 * Levels[s1] /\ y = 100 * Levels[s2]
    BY <2>1, LevelsAreValues
  <2> HIDE DEF x, y
  <2>6. Apart(o.avg, x) <= Apart(o.avg, y)
    BY <2>4 DEF Apart
  <2> QED
    BY <2>5, <2>6
<1> QED
  BY <1>1, PTL
=============================================================================
