---------------------------- MODULE ReportLists ----------------------------
(***************************************************************************)
(* Every list of at most MaxReports sample reports is built one report at  *)
(* a time, and the status algorithm is evaluated on it at the minute Now.  *)
(* The list is also the one a new report meets: it is scored against the   *)
(* average the row then shows, and enters the next calculation with that   *)
(* score.                                                                  *)
(***************************************************************************)
EXTENDS ConfidenceScore, Sequences

CONSTANTS
  MaxReports,  \* longest list (bound)
  Now,         \* the minute of the calculation
  Samples,     \* the reports a list is made of: a sequence of records [at, status, conf]
  Shown        \* averages a row may show when a report comes in

ASSUME ListsAssumption ==
  /\ {MaxReports, Now} \subseteq Nat
  /\ Samples \in Seq([at : 0..Now, status : ReportStatus, conf : MinConfidence..100])
  /\ Shown \subseteq Average \cup {Null}

VARIABLE list      \* positions in Samples of the reports, never decreasing

\* a report of the list, told from its twins by its place
Reports ==
  {[id |-> i, at |-> Samples[list[i]].at, status |-> Samples[list[i]].status,
    conf |-> Samples[list[i]].conf] : i \in DOMAIN list}

Init == list = <<>>

AddReport ==
  /\ Len(list) < MaxReports
  /\ \E i \in DOMAIN Samples :
       /\ list # <<>> => list[Len(list)] <= i
       /\ list' = Append(list, i)

Next == AddReport

Spec == Init /\ [][Next]_list

-----------------------------------------------------------------------------
Result == ComputeStatus(Reports, Now)

Levels == [s \in Scored |-> CHOOSE i \in 0..3 :
             <<"NO_QUEUE", "SMALL", "MEDIUM", "LARGE">>[i + 1] = s]

FoodEndedOf(R) == {r \in R : r.status = "FOOD_ENDED"}
RecentFoodEnded(R) == {r \in FoodEndedOf(R) : Now - r.at <= FoodEndedWindow}

\* The algorithm always has a result, which float ties move by one unit at most, and
\* avg_status_value is null exactly when the status is NO_DATA or FOOD_ENDED (the column's
\* comment); otherwise the status is its rounding, although both are rounded apart.
CoherentOutcome ==
  /\ Result # {} /\ Result \subseteq Outcome
  /\ \A o \in Result :
       /\ o.avg = Null <=> o.status \in {"NO_DATA", "FOOD_ENDED"}
       /\ o.avg # Null => 100 * Levels[o.status] - o.avg \in -50..50
  /\ \A o1, o2 \in Result :
       /\ (o1.avg = Null) = (o2.avg = Null)
       /\ o1.avg # Null => o1.avg - o2.avg \in -1..1
       /\ o1.conf - o2.conf \in -1..1

\* Raising what one user reported never lowers the average of the row.
Monotone ==
  \A r \in Reports : \A s \in Scored :
    (r.status \in Scored /\ Levels[r.status] < Levels[s]) =>
      \A o1 \in Result : \E o2 \in ComputeStatus((Reports \ {r}) \cup {[r EXCEPT !.status = s]}, Now) :
        o1.avg # Null => o2.avg >= o1.avg

\* "more recent reports have more influence": when two equally trusted reports
\* disagree, giving the higher value to the more recent one never lowers the mean.
RecentWeighsMore ==
  \A a, b \in ScorableReports(Reports, Now) :
    (a.conf = b.conf /\ a.at > b.at /\ Levels[a.status] < Levels[b.status]) =>
      LET swapped == (Reports \ {a, b}) \cup
                       {[a EXCEPT !.status = b.status], [b EXCEPT !.status = a.status]}
      IN \A o1 \in Result : \E o2 \in ComputeStatus(swapped, Now) :
           o1.avg # Null => o2.avg >= o1.avg

\* A quorum of FOOD_ENDED reports of their window overrides any calculation: the
\* outcome is theirs whatever else was reported.  Fewer enter no mean: without them the
\* result is the same unless they narrowed the adaptive window.
QuorumDecides ==
  LET rest == Reports \ FoodEndedOf(Reports)
  IN  IF Cardinality(RecentFoodEnded(Reports)) >= FoodEndedQuorum
      THEN /\ \A o \in Result : o.status = "FOOD_ENDED"
           /\ Result = ComputeStatus(RecentFoodEnded(Reports), Now)
      ELSE AdaptiveWindow(Reports, Now) = AdaptiveWindow(rest, Now) =>
             Result = ComputeStatus(rest, Now)

-----------------------------------------------------------------------------
(* The loop from the row back to the weight of the next report. *)

NewReport(n, e, status, avg) ==
  [id |-> n, at |-> Now, status |-> status, conf |-> ConfidenceScore(e, status, avg)]

Between(x, m, n) == (m <= x /\ x <= n) \/ (n <= x /\ x <= m)

\* r moves no average away from what it says, nor past it, and where nothing is known
\* the row shows what r says
IsHeard(r) ==
  LET after == ComputeStatus(Reports \cup {r}, Now)
  IN  \A o1 \in Result :
        /\ o1.avg # Null => \E o2 \in after : Between(o2.avg, o1.avg, 100 * Levels[r.status])
        /\ o1 = NoData => \A o2 \in after : o2.status = r.status

\* Every voice counts: however suspicious a report is and however far from the row, it is
\* not silenced, and it never moves the mean away from what it says, nor past it, unless it
\* narrows the adaptive window.
EveryVoiceCounts ==
  Len(list) < MaxReports =>
    \A r \in {NewReport(0, e, status, avg) : e \in Evidence, status \in Scored, avg \in Shown} :
      AdaptiveWindow(Reports \cup {r}, Now) = AdaptiveWindow(Reports, Now) => IsHeard(r)

\* The first two reports of a meal meet the row of the day before.  When one of them has
\* a mocked location and they disagree, the mean is never nearer to the mocked one,
\* however bad the other's accuracy and coordinates look and whomever that row contradicts.
GenuineOutweighsMock ==
  list = <<>> =>
    \A e1, e2 \in Evidence : \A s1, s2 \in Scored : \A avg \in Shown :
      (~ e1.mock /\ e2.mock) =>
        \A o \in ComputeStatus({NewReport(1, e1, s1, avg), NewReport(2, e2, s2, avg)}, Now) :
          Apart(o.avg, 100 * Levels[s1]) <= Apart(o.avg, 100 * Levels[s2])
=============================================================================
