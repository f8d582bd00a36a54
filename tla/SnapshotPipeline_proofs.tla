----------------------- MODULE SnapshotPipeline_proofs -----------------------
(***************************************************************************)
(* Proofs about SnapshotPipeline for every set of requests and workers and *)
(* every value of the thresholds.                                          *)
(***************************************************************************)
EXTENDS SnapshotPipeline, SnapshotStatus_proofs

USE DEF history

-----------------------------------------------------------------------------
(* Lemmas about the operators of the model. *)

\* A finite set of times that is not empty has a largest element, and Max is it.
LEMMA MaxOfTimes ==
  ASSUME NEW S \in SUBSET Nat, IsFiniteSet(S), S # {}
  PROVE  Max(S) \in S /\ \A y \in S : Max(S) >= y
<1> DEFINE Above(x) == {y \in S : y > x}
           T == {Above(x) : x \in S}
<1>1. T \subseteq FiniteSubsetsOf(S) /\ T # {}
  <2>1. \A x \in S : Above(x) \in SUBSET S
    OBVIOUS
  <2>2. \A x \in S : IsFiniteSet(Above(x))
    BY <2>1, FS_Subset
  <2> QED
    BY <2>1, <2>2, Zenon DEF FiniteSubsetsOf
<1>2. PICK A \in T : \A B \in T : ~ (<<B, A>> \in StrictSubsetOrdering(S))
  BY <1>1, FS_StrictSubsetOrderingWellFounded, WFMin, Zenon
<1>3. PICK x \in S : A = Above(x)
  OBVIOUS
<1>4. ASSUME NEW y \in S, y > x
      PROVE  FALSE
  <2>1. Above(y) \subseteq Above(x) /\ y \in Above(x) /\ y \notin Above(y)
    <3>1. \A z \in S : z \in Nat
      OBVIOUS
    <3>2. \A z \in S : z > y => z > x
      BY <3>1, <1>4
    <3>3. ~ (y > y)
      BY <3>1, <1>4
    <3> QED
      BY <3>2, <3>3, <1>4, Zenon
  <2>2. <<Above(y), A>> \in StrictSubsetOrdering(S)
    BY <2>1, <1>3 DEF StrictSubsetOrdering
  <2> QED
    BY <2>2, <1>2
<1>5. x \in S /\ \A y \in S : x >= y
  BY <1>4
<1> QED
  BY <1>5 DEF Max

\* The last report of a list is one of its newest.
LEMMA LastReportIs ==
  ASSUME NEW R \in SUBSET Report, IsFiniteSet(R)
  PROVE  IF R = {} THEN LastReportAt(R) = Null
         ELSE /\ \E r \in R : LastReportAt(R) = r.at
              /\ LastReportAt(R) \in Time /\ LastReportAt(R) # Null
              /\ \A r \in R : LastReportAt(R) >= r.at
<1>1. CASE R = {}
  BY <1>1 DEF LastReportAt
<1>2. CASE R # {}
  <2> DEFINE times == {r.at : r \in R}
  <2>1. times \subseteq Time /\ times # {}
    BY <1>2 DEF Report
  <2>2. LastReportAt(R) = Max(times)
    BY <1>2 DEF LastReportAt
  <2>3. \A r \in R : r.at \in times
    OBVIOUS
  <2>4. \A x \in times : \E r \in R : x = r.at
    OBVIOUS
  <2> HIDE DEF times
  <2>5. IsFiniteSet(Time) /\ Time \subseteq Nat
    BY FS_Interval, PipelineAssumption DEF Time
  <2>6. Max(times) \in times /\ \A y \in times : Max(times) >= y
    <3>1. IsFiniteSet(times)
      BY <2>1, <2>5, FS_Subset
    <3>2. times \in SUBSET Nat
      BY <2>1, <2>5, Zenon
    <3> QED
      BY <2>1, <3>1, <3>2, MaxOfTimes
  <2>7. Max(times) \in Time
    BY <2>1, <2>6
  <2>8. Max(times) # Null
    BY <2>7, NullAssumption, PipelineAssumption DEF Time
  <2> QED
    BY <1>2, <2>1, <2>2, <2>3, <2>4, <2>6, <2>8
<1> QED
  BY <1>1, <1>2

-----------------------------------------------------------------------------
(* Types.  That count and last_report_at have their type needs more: a      *)
(* worker's list is finite, because it holds committed reports only.        *)

ReadIsCommitted ==
  /\ IsFiniteSet(reports)
  /\ \A w \in Worker : local[w].read \subseteq reports

TypeInv == TypeOK /\ ReadIsCommitted

\* The row computed from a finite list of reports is a row.
LEMMA RowTyped ==
  ASSUME NEW R \in SUBSET Report, IsFiniteSet(R), NEW o \in Outcome
  PROVE  RowFor(R, o) \in Row
<1>1. Cardinality(R) \in Nat
  BY FS_CardinalityType
<1>2. LastReportAt(R) \in Time \cup {Null}
  BY LastReportIs
<1> QED
  BY <1>1, <1>2 DEF RowFor, Row, Outcome

LEMMA InitTypeInv == Init => TypeInv
<1> SUFFICES ASSUME Init PROVE TypeInv
  OBVIOUS
<1>1. NewRow \in Row
  BY DEF NewRow, Row, SnapshotStatusEnum, Confidence
<1>2. NoLocal \in Local
  BY <1>1 DEF NoLocal, Local, Period
<1>3. IsFiniteSet({})
  BY FS_EmptySet
<1> QED
  BY <1>1, <1>2, <1>3, PipelineAssumption
     DEF Init, TypeInv, TypeOK, ReadIsCommitted, Time, IntakeState, TaskState, WorkerStep, NoLocal

\* Every step keeps the types.
LEMMA NextTypeInv == TypeInv /\ [Next]_vars => TypeInv'
<1> SUFFICES ASSUME TypeInv, [Next]_vars PROVE TypeInv'
  OBVIOUS
<1> USE DEF TypeInv, TypeOK
<1>1. CASE Tick
  BY <1>1, PipelineAssumption DEF Tick, ReadIsCommitted, Time
<1>2. ASSUME NEW q \in Request, CommitReport(q) PROVE TypeInv'
  <2>1. PICK at \in Time, geo \in Time, c \in Content :
          /\ PeriodAt[geo] \in Period
          /\ reports' = reports \cup {[id |-> q, at |-> at, period |-> PeriodAt[geo],
                                       status |-> c.status, conf |-> c.conf]}
    BY <1>2 DEF CommitReport
  <2>2. [id |-> q, at |-> at, period |-> PeriodAt[geo], status |-> c.status,
         conf |-> c.conf] \in Report
    BY <2>1, PipelineAssumption DEF Report
  <2>3. reports' \subseteq Report /\ IsFiniteSet(reports') /\ reports \subseteq reports'
    <3> DEFINE new == [id |-> q, at |-> at, period |-> PeriodAt[geo],
                       status |-> c.status, conf |-> c.conf]
    <3>1. new \in Report /\ reports' = reports \cup {new}
      BY <2>1, <2>2
    <3> HIDE DEF new
    <3>2. IsFiniteSet(reports \cup {new})
      BY FS_AddElement DEF ReadIsCommitted
    <3> QED BY <3>1, <3>2
  <2> QED
    BY <1>2, <2>3 DEF CommitReport, ReadIsCommitted, IntakeState
<1>3. ASSUME NEW q \in Request, HandleRequest(q) PROVE TypeInv'
  BY <1>3, PipelineAssumption
     DEF HandleRequest, Enqueue, EnqueueFails, ReadIsCommitted, IntakeState, TaskState
<1>4. ASSUME NEW w \in Worker, NEW q \in Request, Take(w, q) PROVE TypeInv'
  BY <1>4 DEF Take, ReadIsCommitted, TaskState, WorkerStep
<1>5. ASSUME NEW w \in Worker, Resolve(w) PROVE TypeInv'
  <2>1. local' = [local EXCEPT ![w].period = PeriodAt[clock]] /\ PeriodAt[clock] \in Period
    BY <1>5 DEF Resolve
  <2>2. local' \in [Worker -> Local] /\ \A v \in Worker : local'[v].read = local[v].read
    BY <2>1 DEF Local
  <2> QED
    BY <1>5, <2>2 DEF Resolve, ReadIsCommitted, WorkerStep
<1>6. ASSUME NEW w \in Worker, ListReports(w) PROVE TypeInv'
  <2>1. RecentReports(local[w].period) \subseteq reports
    BY DEF RecentReports
  <2>2. local' \in [Worker -> Local] /\ \A v \in Worker : local'[v].read \subseteq reports
    BY <1>6, <2>1 DEF ListReports, Local, ReadIsCommitted
  <2> QED
    BY <1>6, <2>2 DEF ListReports, ReadIsCommitted, WorkerStep
<1>7. ASSUME NEW w \in Worker, ComputeAndLoad(w) PROVE TypeInv'
  <2>1. PICK o \in ComputeStatus(local[w].read, clock) :
          local' = [local EXCEPT ![w].computed = RowFor(local[w].read, o),
                                 ![w].loaded = row[local[w].period]]
    BY <1>7 DEF ComputeAndLoad
  <2>2. o \in Outcome
    BY OutcomesTyped, Zenon
  <2>3. local[w].read \in SUBSET Report /\ IsFiniteSet(local[w].read)
    BY FS_Subset DEF ReadIsCommitted
  <2>4. RowFor(local[w].read, o) \in Row /\ row[local[w].period] \in Row
    BY <2>2, <2>3, RowTyped DEF Local
  <2>5. local' \in [Worker -> Local] /\ \A v \in Worker : local'[v].read = local[v].read
    BY <2>1, <2>4, ZenonT(40) DEF Local
  <2> QED
    BY <1>7, <2>5 DEF ComputeAndLoad, ReadIsCommitted, WorkerStep
<1>8. ASSUME NEW w \in Worker, Commit(w) PROVE TypeInv'
  <2>1. \A a, b, c \in Row : Updated(a, b, c) \in Row
    BY DEF Updated, Row
  <2>2. row' \in [Period -> Row]
    BY <1>8, <2>1 DEF Commit, Local
  <2>3. overtaken' \subseteq Worker /\ raced' \subseteq Period
    BY <1>8 DEF Commit, At, Marked, Local
  <2> QED
    BY <1>8, <2>2, <2>3 DEF Commit, ReadIsCommitted, WorkerStep
<1>9. ASSUME NEW w \in Worker, Publish(w) PROVE TypeInv'
  <2>1. EventOf(local[w].computed) \in Event
    BY DEF EventOf, Event, Local, Row
  <2>2. event' \in [Period -> Event \cup {Null}]
    BY <1>9, <2>1 DEF Publish
  <2>3. overtaken' \subseteq Worker /\ misled' \subseteq Period
    BY <1>9 DEF Publish, Marked, Local
  <2> QED
    BY <1>9, <2>2, <2>3 DEF Publish, ReadIsCommitted, WorkerStep
<1>10. ASSUME NEW w \in Worker, NEW s \in {"ready", "done", "dropped"}, Release(w, s)
       PROVE  /\ task' \in [Request -> TaskState] /\ pc' \in [Worker -> WorkerStep]
              /\ job' \in [Worker -> Request \cup {Null}] /\ local' \in [Worker -> Local]
              /\ \A v \in Worker : local'[v].read \subseteq reports
              /\ overtaken' \subseteq Worker
              /\ UNCHANGED <<clock, reports, intake, row, event, raced, misled>>
  <2>1. NoLocal \in Local /\ NoLocal.read = {}
    BY DEF NoLocal, NewRow, Local, Row, Period, SnapshotStatusEnum, Confidence
  <2> QED
    BY <1>10, <2>1 DEF Release, TaskState, WorkerStep, ReadIsCommitted
<1>11. ASSUME NEW w \in Worker, Ack(w) PROVE TypeInv'
  BY <1>11, <1>10 DEF Ack, ReadIsCommitted
<1>12. ASSUME NEW w \in Worker, RetryOrDrop(w), failures' \in 0..MaxFailures
       PROVE  TypeInv'
  <2>1. tries' \in [Request -> 0..MaxRetries]
    BY <1>12, PipelineAssumption DEF RetryOrDrop
  <2> QED
    BY <1>12, <1>10, <2>1 DEF RetryOrDrop, ReadIsCommitted
<1>13. ASSUME NEW w \in Worker, ResolveClosed(w) PROVE TypeInv'
  BY <1>13, <1>12 DEF ResolveClosed
<1>14. ASSUME NEW w \in Worker, Fault(w) PROVE TypeInv'
  BY <1>14, <1>12, PipelineAssumption DEF Fault
<1>15. ASSUME NEW w \in Worker, Crash(w) PROVE TypeInv'
  BY <1>15, <1>10, PipelineAssumption DEF Crash, ReadIsCommitted
<1>16. CASE UNCHANGED vars
  BY <1>16 DEF vars, ReadIsCommitted
<1> QED
  BY <1>1, <1>2, <1>3, <1>4, <1>5, <1>6, <1>7, <1>8, <1>9, <1>11, <1>13, <1>14, <1>15, <1>16
     DEF Next, RunTask

\* Every variable always holds a value of its type.
THEOREM TypeCorrect == Spec => []TypeOK
<1>1. TypeInv => TypeOK
  BY DEF TypeInv
<1> QED
  BY InitTypeInv, NextTypeInv, <1>1, PTL DEF Spec

-----------------------------------------------------------------------------
(* Tasks and reports. *)

\* The broker's books: a worker at work holds a task that no other holds, and a task is
\* known to the broker from its enqueueing on.
TaskHeldOnce ==
  /\ \A w \in Worker : pc[w] # "idle" <=> job[w] # Null
  /\ \A w \in Worker : job[w] # Null => task[job[w]] = "running"
  /\ \A q \in Request : task[q] = "running" => \E w \in Worker : job[w] = q
  /\ \A w1, w2 \in Worker : job[w1] = job[w2] /\ job[w1] # Null => w1 = w2
  /\ \A q \in Request : intake[q] = "accepted" <=> task[q] # "none"

LEMMA NextTaskHeldOnce == TypeInv /\ TaskHeldOnce /\ [Next]_vars => TaskHeldOnce'
<1> SUFFICES ASSUME TypeInv, TaskHeldOnce, [Next]_vars PROVE TaskHeldOnce'
  OBVIOUS
<1> USE PipelineAssumption DEF TypeInv, TypeOK, TaskHeldOnce
<1>1. CASE Tick
  BY <1>1 DEF Tick
<1>2. ASSUME NEW q \in Request, CommitReport(q) PROVE TaskHeldOnce'
  BY <1>2 DEF CommitReport
<1>3. ASSUME NEW q \in Request, HandleRequest(q) PROVE TaskHeldOnce'
  BY <1>3 DEF HandleRequest, Enqueue, EnqueueFails
<1>4. ASSUME NEW w \in Worker, NEW q \in Request, Take(w, q) PROVE TaskHeldOnce'
  BY <1>4 DEF Take
<1>5. ASSUME NEW w \in Worker,
             Resolve(w) \/ ListReports(w) \/ ComputeAndLoad(w) \/ Commit(w) \/ Publish(w)
      PROVE  TaskHeldOnce'
  BY <1>5 DEF Resolve, ListReports, ComputeAndLoad, Commit, Publish
<1>6. ASSUME NEW w \in Worker, NEW s \in {"ready", "done", "dropped"}, pc[w] # "idle",
             Release(w, s)
      PROVE  TaskHeldOnce'
  <2>1. job[w] \in Request /\ task[job[w]] = "running"
    BY <1>6
  <2> QED
    BY <1>6, <2>1 DEF Release
<1>7. ASSUME NEW w \in Worker, Ack(w) PROVE TaskHeldOnce'
  BY <1>7, <1>6 DEF Ack
<1>8. ASSUME NEW w \in Worker, ResolveClosed(w) \/ Fault(w) PROVE TaskHeldOnce'
  BY <1>8, <1>6 DEF ResolveClosed, Fault, RetryOrDrop
<1>9. ASSUME NEW w \in Worker, Crash(w) PROVE TaskHeldOnce'
  BY <1>9, <1>6 DEF Crash
<1>10. CASE UNCHANGED vars
  BY <1>10 DEF vars
<1> QED
  BY <1>1, <1>2, <1>3, <1>4, <1>5, <1>7, <1>8, <1>9, <1>10 DEF Next, RunTask

\* A request past its commit has a report in the table, and a worker past its query
\* has that report in hand if it is of its period and not too old.
ReportInHand(w) ==
  pc[w] \in {"load", "commit", "publish", "ack"} =>
    \E r \in reports :
      /\ r.id = job[w]
      /\ (r.period = local[w].period /\ r.at >= clock - ReportWindow) => r \in local[w].read

StoredInv == \A q \in Request : intake[q] # "open" => \E r \in reports : r.id = q

SeenInv == StoredInv /\ \A w \in Worker : ReportInHand(w)

LEMMA NextSeenInv == TypeInv /\ TaskHeldOnce /\ SeenInv /\ [Next]_vars => SeenInv'
<1> SUFFICES ASSUME TypeInv, TaskHeldOnce, SeenInv, [Next]_vars PROVE SeenInv'
  OBVIOUS
<1> USE PipelineAssumption DEF TypeInv, TypeOK, SeenInv, StoredInv, ReportInHand
<1>1. CASE Tick
  <2>1. clock' = clock + 1 /\ UNCHANGED <<reports, intake, pc, job, local>>
    BY <1>1 DEF Tick
  <2>2. \A r \in reports : r.at >= clock' - ReportWindow => r.at >= clock - ReportWindow
    BY <2>1, WindowsAssumption, SMTT(30) DEF Report, Time
  <2> QED
    BY <2>1, <2>2
<1>2. ASSUME NEW q \in Request, CommitReport(q) PROVE SeenInv'
  <2>1. \E new : reports' = reports \cup {new} /\ new.id = q
    <3>1. PICK at \in Time, geo \in Time, c \in Content :
            reports' = reports \cup {[id |-> q, at |-> at, period |-> PeriodAt[geo],
                                      status |-> c.status, conf |-> c.conf]}
      BY <1>2 DEF CommitReport
    <3> WITNESS [id |-> q, at |-> at, period |-> PeriodAt[geo], status |-> c.status,
                 conf |-> c.conf]
    <3> QED
      BY <3>1
  <2>2. intake' = [intake EXCEPT ![q] = "committed"] /\ UNCHANGED <<clock, pc, job, local>>
    BY <1>2 DEF CommitReport
  <2> PICK new : reports' = reports \cup {new} /\ new.id = q
    BY <2>1
  <2>3. StoredInv'
    BY <2>2
  <2>4. \A w \in Worker : ReportInHand(w)'
    BY <2>2
  <2> QED
    BY <2>3, <2>4
<1>3. ASSUME NEW q \in Request, HandleRequest(q) PROVE SeenInv'
  BY <1>3 DEF HandleRequest, Enqueue, EnqueueFails
<1>4. ASSUME NEW w \in Worker, NEW q \in Request, Take(w, q) PROVE SeenInv'
  BY <1>4 DEF Take
<1>5. ASSUME NEW w \in Worker, Resolve(w) PROVE SeenInv'
  BY <1>5 DEF Resolve
<1>6. ASSUME NEW w \in Worker, ListReports(w) PROVE SeenInv'
  <2>1. job[w] \in Request /\ intake[job[w]] # "open"
    <3>1. job[w] # Null /\ job[w] \in Request
      BY <1>6 DEF ListReports, TaskHeldOnce
    <3>2. task[job[w]] = "running"
      BY <3>1 DEF TaskHeldOnce
    <3> QED
      BY <3>1, <3>2 DEF TaskHeldOnce
  <2>2. PICK r \in reports : r.id = job[w]
    BY <2>1
  <2>3. /\ local' = [local EXCEPT ![w].read = RecentReports(local[w].period)]
        /\ pc' = [pc EXCEPT ![w] = "load"] /\ UNCHANGED <<clock, reports, intake, job>>
    BY <1>6 DEF ListReports
  <2>4. ReportInHand(w)'
    BY <2>2, <2>3 DEF RecentReports
  <2>5. \A v \in Worker \ {w} : ReportInHand(v)'
    BY <2>3
  <2> QED
    BY <2>3, <2>4, <2>5
<1>7. ASSUME NEW w \in Worker, ComputeAndLoad(w) PROVE SeenInv'
  <2>1. /\ \A v \in Worker : local'[v].read = local[v].read /\ local'[v].period = local[v].period
        /\ pc' = [pc EXCEPT ![w] = "commit"] /\ pc[w] = "load"
        /\ UNCHANGED <<clock, reports, intake, job>>
    BY <1>7 DEF ComputeAndLoad, Local
  <2> QED
    BY <2>1
<1>8. ASSUME NEW w \in Worker, Commit(w) \/ Publish(w) PROVE SeenInv'
  BY <1>8 DEF Commit, Publish
<1>9. ASSUME NEW w \in Worker, NEW s, Release(w, s) PROVE SeenInv'
  <2>1. /\ pc' = [pc EXCEPT ![w] = "idle"] /\ UNCHANGED <<clock, reports, intake>>
        /\ \A v \in Worker \ {w} : job'[v] = job[v] /\ local'[v] = local[v]
    BY <1>9 DEF Release
  <2> QED
    BY <2>1
<1>10. ASSUME NEW w \in Worker, Ack(w) \/ ResolveClosed(w) \/ Fault(w) \/ Crash(w)
       PROVE  SeenInv'
  BY <1>9, <1>10 DEF Ack, ResolveClosed, Fault, RetryOrDrop, Crash
<1>11. CASE UNCHANGED vars
  BY <1>11 DEF vars
<1> QED
  BY <1>1, <1>2, <1>3, <1>4, <1>5, <1>6, <1>7, <1>8, <1>10, <1>11 DEF Next, RunTask

\* The task of a report reads that report.
THEOREM TasksSeeTheirReports == Spec => []TaskSeesItsReport
<1>1. Init => SeenInv
  BY DEF Init, SeenInv, StoredInv, ReportInHand
<1>2. SeenInv => TaskSeesItsReport
  BY DEF SeenInv, ReportInHand, TaskSeesItsReport
<1>3. Init => TaskHeldOnce
  BY PipelineAssumption DEF Init, TaskHeldOnce
<1> QED
  BY <1>1, <1>2, <1>3, InitTypeInv, NextTypeInv, NextTaskHeldOnce, NextSeenInv, PTL DEF Spec

-----------------------------------------------------------------------------
(* Periods do not contaminate each other.  What is in flight towards a row  *)
(* must be bounded by the reports of its period already in the worker.      *)

Own(p) == {r \in reports : r.period = p}

Bounded(x, p) ==
  /\ x.last # Null => x.last \in {r.at : r \in Own(p)}
  /\ x.count <= Cardinality(Own(p))

OwnInv ==
  /\ \A p \in Period : Bounded(row[p], p)
  /\ \A w \in Worker :
       /\ pc[w] \in {"load", "commit", "publish"} => local[w].read \subseteq Own(local[w].period)
       /\ pc[w] \in {"commit", "publish"} => Bounded(local[w].computed, local[w].period)

\* More reports never break a bound.
LEMMA BoundedGrows ==
  ASSUME TypeInv, TypeInv', reports \subseteq reports', NEW p \in Period, NEW x \in Row,
         Bounded(x, p)
  PROVE  Bounded(x, p)'
<1>1. Own(p) \subseteq Own(p)' /\ Own(p)' \subseteq reports'
  BY DEF Own
<1>2. IsFiniteSet(Own(p)') /\ IsFiniteSet(Own(p))
  BY <1>1, FS_Subset DEF TypeInv, ReadIsCommitted
<1>3. /\ Cardinality(Own(p)) <= Cardinality(Own(p)')
      /\ Cardinality(Own(p)) \in Nat /\ Cardinality(Own(p)') \in Nat
  BY <1>1, <1>2, FS_Subset, FS_CardinalityType
<1>4. x.count \in Nat
  BY DEF Row
<1> QED
  BY <1>1, <1>3, <1>4 DEF Bounded

\* The row computed from some reports of a period is bounded by all of them.
LEMMA RowForBounded ==
  ASSUME TypeInv, NEW p \in Period, NEW R \in SUBSET Own(p), NEW o
  PROVE  Bounded(RowFor(R, o), p)
<1>1. R \subseteq Report /\ IsFiniteSet(Own(p)) /\ IsFiniteSet(R)
  BY FS_Subset DEF TypeInv, TypeOK, ReadIsCommitted, Own
<1>2. Cardinality(R) <= Cardinality(Own(p))
  BY <1>1, FS_Subset
<1>3. LastReportAt(R) # Null => LastReportAt(R) \in {r.at : r \in Own(p)}
  BY <1>1, LastReportIs
<1> QED
  BY <1>2, <1>3 DEF Bounded, RowFor

LEMMA InitOwnInv == Init => OwnInv
<1> SUFFICES ASSUME Init PROVE OwnInv
  OBVIOUS
<1>1. \A p : Own(p) = {} /\ Cardinality(Own(p)) = 0
  BY FS_EmptySet DEF Init, Own
<1> QED
  BY <1>1 DEF Init, OwnInv, Bounded, NewRow

LEMMA NextOwnInv == TypeInv /\ TypeInv' /\ OwnInv /\ [Next]_vars => OwnInv'
<1> SUFFICES ASSUME TypeInv, TypeInv', OwnInv, [Next]_vars PROVE OwnInv'
  OBVIOUS
<1>1. reports \subseteq reports'
  BY DEF Next, Tick, CommitReport, HandleRequest, Enqueue, EnqueueFails, RunTask, Take,
         Resolve, ListReports, ComputeAndLoad, Commit, Publish, Ack, ResolveClosed, Fault,
         Crash, RetryOrDrop, Release, vars
<1>2. \A p : Own(p) \subseteq Own(p)'
  BY <1>1 DEF Own
<1>3. \A p \in Period : \A x \in Row : Bounded(x, p) => Bounded(x, p)'
  BY <1>1, BoundedGrows
<1>4. ASSUME UNCHANGED <<pc, local, row>> PROVE OwnInv'
  BY <1>2, <1>3, <1>4 DEF OwnInv, TypeInv, TypeOK, Local
<1>5. ASSUME NEW w \in Worker, UNCHANGED <<row, reports>>,
             \A v \in Worker \ {w} : pc'[v] = pc[v] /\ local'[v] = local[v],
             pc'[w] \in {"load", "commit", "publish"} =>
               local'[w].read \subseteq Own(local'[w].period),
             pc'[w] \in {"commit", "publish"} => Bounded(local'[w].computed, local'[w].period)
      PROVE  OwnInv'
  <2>1. \A p : Own(p)' = Own(p)
    BY <1>5 DEF Own
  <2>2. \A p, x : Bounded(x, p) => Bounded(x, p)'
    BY <2>1 DEF Bounded
  <2>3. \A p \in Period : Bounded(row[p], p)'
    BY <1>5, <2>2 DEF OwnInv
  <2>4. \A v \in Worker \ {w} :
          /\ pc'[v] \in {"load", "commit", "publish"} =>
               local'[v].read \subseteq Own(local[v].period)'
          /\ pc'[v] \in {"commit", "publish"} => Bounded(local[v].computed, local[v].period)'
    <3> SUFFICES ASSUME NEW v \in Worker \ {w}
                 PROVE  /\ pc'[v] \in {"load", "commit", "publish"} =>
                             local'[v].read \subseteq Own(local[v].period)'
                        /\ pc'[v] \in {"commit", "publish"} =>
                             Bounded(local[v].computed, local[v].period)'
      OBVIOUS
    <3>1. pc'[v] = pc[v] /\ local'[v] = local[v]
      BY <1>5
    <3> QED
      BY <3>1, <2>1 DEF OwnInv, Bounded
  <2>5. /\ pc'[w] \in {"load", "commit", "publish"} =>
             local'[w].read \subseteq Own(local[w].period)'
        /\ pc'[w] \in {"commit", "publish"} => Bounded(local[w].computed, local[w].period)'
    BY <1>5, <2>1 DEF Bounded
  <2> QED
    BY <2>3, <2>4, <2>5 DEF OwnInv
<1>6. CASE Tick
  BY <1>4, <1>6 DEF Tick
<1>7. ASSUME NEW q \in Request, CommitReport(q) \/ HandleRequest(q) PROVE OwnInv'
  BY <1>4, <1>7 DEF CommitReport, HandleRequest, Enqueue, EnqueueFails
<1>8. ASSUME NEW w \in Worker, NEW q \in Request, Take(w, q) PROVE OwnInv'
  BY <1>5, <1>8 DEF Take, TypeInv, TypeOK
<1>9. ASSUME NEW w \in Worker, Resolve(w) PROVE OwnInv'
  BY <1>5, <1>9 DEF Resolve, TypeInv, TypeOK
<1>10. ASSUME NEW w \in Worker, ListReports(w) PROVE OwnInv'
  <2>1. \A p : RecentReports(p) \subseteq Own(p)
    BY DEF RecentReports, Own
  <2>2. local'[w].read \subseteq Own(local'[w].period)
    BY <1>10, <2>1 DEF ListReports, TypeInv, TypeOK, Local
  <2> QED
    BY <1>5, <1>10, <2>2 DEF ListReports, TypeInv, TypeOK
<1>11. ASSUME NEW w \in Worker, ComputeAndLoad(w) PROVE OwnInv'
  <2>1. PICK o : local' = [local EXCEPT ![w].computed = RowFor(local[w].read, o),
                                        ![w].loaded = row[local[w].period]]
    BY <1>11 DEF ComputeAndLoad
  <2>2. local[w].read \subseteq Own(local[w].period) /\ local[w].period \in Period
    BY <1>11 DEF ComputeAndLoad, OwnInv, TypeInv, TypeOK, Local
  <2>3. Bounded(RowFor(local[w].read, o), local[w].period)
    BY <2>2, RowForBounded
  <2>4. /\ local'[w].read = local[w].read /\ local'[w].period = local[w].period
        /\ local'[w].computed = RowFor(local[w].read, o)
        /\ \A v \in Worker \ {w} : local'[v] = local[v]
    BY <2>1 DEF TypeInv, TypeOK, Local
  <2>5. UNCHANGED <<row, reports>> /\ \A v \in Worker \ {w} : pc'[v] = pc[v]
    BY <1>11 DEF ComputeAndLoad, TypeInv, TypeOK
  <2> QED
    BY <1>5, <2>2, <2>3, <2>4, <2>5
<1>12. ASSUME NEW w \in Worker, Commit(w) PROVE OwnInv'
  <2> DEFINE p == local[w].period
             new == Updated(row[p], local[w].loaded, local[w].computed)
  <2>1. p \in Period /\ Bounded(local[w].computed, p) /\ Bounded(row[p], p)
    BY <1>12 DEF Commit, OwnInv, TypeInv, TypeOK, Local
  <2>2. /\ new.last \in {row[p].last, local[w].computed.last}
        /\ new.count \in {row[p].count, local[w].computed.count}
    BY DEF Updated
  <2>3. Bounded(new, p)
    <3> HIDE DEF new
    <3> QED
      BY <2>1, <2>2 DEF Bounded
  <2>4. row' = [row EXCEPT ![p] = new] /\ UNCHANGED <<reports, local>>
        /\ pc' = [pc EXCEPT ![w] = "publish"] /\ pc[w] = "commit"
    BY <1>12 DEF Commit
  <2> HIDE DEF new, p
  <2>5. \A x, y : Bounded(x, y)' <=> Bounded(x, y)
    BY <2>4 DEF Bounded, Own
  <2>6. \A y \in Period : Bounded(row'[y], y)
    BY <2>1, <2>3, <2>4 DEF OwnInv, TypeInv, TypeOK
  <2>7. \A y \in Period : Bounded(row[y], y)'
    BY <2>6, <2>4 DEF Bounded, Own
  <2>8. \A v \in Worker :
          /\ pc'[v] \in {"load", "commit", "publish"} =>
               local[v].read \subseteq Own(local[v].period)
          /\ pc'[v] \in {"commit", "publish"} => Bounded(local[v].computed, local[v].period)
    BY <2>4 DEF OwnInv, TypeInv, TypeOK
  <2>9. \A v \in Worker :
          /\ pc'[v] \in {"load", "commit", "publish"} =>
               local'[v].read \subseteq Own(local[v].period)'
          /\ pc'[v] \in {"commit", "publish"} => Bounded(local[v].computed, local[v].period)'
    BY <2>4, <2>8 DEF Bounded, Own
  <2> QED
    BY <2>7, <2>9 DEF OwnInv
<1>13. ASSUME NEW w \in Worker, Publish(w) PROVE OwnInv'
  BY <1>5, <1>13 DEF Publish, OwnInv, TypeInv, TypeOK
<1>14. ASSUME NEW w \in Worker, NEW s, Release(w, s) PROVE OwnInv'
  BY <1>5, <1>14 DEF Release, TypeInv, TypeOK
<1>15. ASSUME NEW w \in Worker, Ack(w) \/ ResolveClosed(w) \/ Fault(w) \/ Crash(w)
       PROVE  OwnInv'
  BY <1>14, <1>15 DEF Ack, ResolveClosed, Fault, RetryOrDrop, Crash
<1>16. CASE UNCHANGED vars
  BY <1>4, <1>16 DEF vars
<1> QED
  BY <1>6, <1>7, <1>8, <1>9, <1>10, <1>11, <1>12, <1>13, <1>15, <1>16 DEF Next, RunTask

\* No row ever counts or dates a report of another period or one that was not
\* committed, however many workers race.
THEOREM PeriodsStayApart == Spec => []NoContamination
<1>1. OwnInv => NoContamination
  BY DEF OwnInv, Bounded, Own, NoContamination
<1> QED
  BY <1>1, InitTypeInv, InitOwnInv, NextTypeInv, NextOwnInv, PTL DEF Spec

-----------------------------------------------------------------------------
(* Coherence.  A row computed from a list of reports is coherent, and what  *)
(* is published is what was computed, however many workers race.            *)

\* What each step is; the ways in which a worker gives a task back unfinished are
\* one case.
LEMMA Steps ==
  ASSUME [Next]_vars
  PROVE  \/ UNCHANGED vars
         \/ Tick
         \/ \E q \in Request : CommitReport(q) \/ HandleRequest(q)
         \/ \E w \in Worker : \E q \in Request : Take(w, q)
         \/ \E w \in Worker :
              \/ Resolve(w) \/ ListReports(w) \/ ComputeAndLoad(w)
              \/ Commit(w) \/ Publish(w) \/ Ack(w)
              \/ pc[w] # "idle" /\ \E s \in {"ready", "dropped"} : Release(w, s)
  BY DEF Next, RunTask, ResolveClosed, Fault, Crash, RetryOrDrop

LEMMA RowForCoherent ==
  ASSUME NEW R \in SUBSET Report, IsFiniteSet(R), NEW t \in Time,
         NEW o \in ComputeStatus(R, t)
  PROVE  Coherent(RowFor(R, o))
<1>1. Listing(R) /\ t \in Int
  BY PipelineAssumption DEF Listing, Report, Time
<1>2. /\ o \in Outcome /\ Described(o)
      /\ o.status = "NO_DATA" => o.conf = 100
      /\ o.status = "FOOD_ENDED" => Cardinality(R) >= FoodEndedQuorum
      /\ R = {} => o.status = "NO_DATA"
  BY <1>1, OutcomesDescribed
<1>3. Cardinality(R) = 0 <=> R = {}
  BY FS_EmptySet
<1>4. LastReportAt(R) = Null <=> R = {}
  BY LastReportIs
<1> DEFINE x == RowFor(R, o)
<1>5. /\ x.status = o.status /\ x.avg = o.avg /\ x.conf = o.conf
      /\ x.count = Cardinality(R) /\ x.last = LastReportAt(R)
  BY DEF RowFor
<1> HIDE DEF x
<1>6. Coherent(x)
  BY <1>2, <1>3, <1>4, <1>5 DEF Coherent, Described
<1> QED
  BY <1>6 DEF x

\* x is a whole calculation over one list of the reports of S in period p, made by time t.
Computed(x, p, S, t) ==
  \E R \in SUBSET {r \in S : r.period = p}, u \in Time : u <= t /\ x \in RowsOf(R, u)

ComputedInv ==
  \A w \in Worker : pc[w] \in {"commit", "publish"} =>
    Computed(local[w].computed, local[w].period, reports, clock)

LEMMA ComputedGrows ==
  ASSUME NEW S, NEW T, S \subseteq T, NEW t \in Time, NEW u \in Time, t <= u,
         NEW x, NEW p, Computed(x, p, S, t)
  PROVE  Computed(x, p, T, u)
<1>1. PICK R \in SUBSET {r \in S : r.period = p}, v \in Time : v <= t /\ x \in RowsOf(R, v)
  BY DEF Computed
<1>2. R \in SUBSET {r \in T : r.period = p}
  OBVIOUS
<1>3. v <= u
  BY <1>1, PipelineAssumption DEF Time
<1> QED
  BY <1>1, <1>2, <1>3 DEF Computed

LEMMA ComputedIsCoherent ==
  ASSUME TypeInv, NEW p, NEW x, Computed(x, p, reports, clock)
  PROVE  Coherent(x)
<1>1. PICK R \in SUBSET {r \in reports : r.period = p}, u \in Time : x \in RowsOf(R, u)
  BY DEF Computed
<1>2. R \in SUBSET Report /\ IsFiniteSet(R)
  BY FS_Subset DEF TypeInv, TypeOK, ReadIsCommitted
<1>3. PICK o \in ComputeStatus(R, u) : x = RowFor(R, o)
  BY <1>1 DEF RowsOf
<1> QED
  BY <1>2, <1>3, RowForCoherent

LEMMA NextComputedInv ==
  TypeInv /\ TypeInv' /\ OwnInv /\ ComputedInv /\ [Next]_vars => ComputedInv'
<1> SUFFICES ASSUME TypeInv, TypeInv', OwnInv, ComputedInv, [Next]_vars PROVE ComputedInv'
  OBVIOUS
<1> USE DEF TypeInv, TypeOK
<1>1. /\ reports \subseteq reports' /\ clock \in Time /\ clock' \in Time /\ clock <= clock'
      /\ clock' # clock => UNCHANGED <<pc, local>>
  <2>1. clock \in Int
    BY PipelineAssumption DEF Time
  <2>2. CASE UNCHANGED vars
    BY <2>1, <2>2 DEF vars
  <2>3. CASE Tick
    BY <2>1, <2>3 DEF Tick
  <2>4. ASSUME NEW q \in Request, CommitReport(q) \/ HandleRequest(q)
        PROVE  reports \subseteq reports' /\ clock' = clock
    BY <2>4 DEF CommitReport, HandleRequest, Enqueue, EnqueueFails
  <2>5. ASSUME NEW w \in Worker,
               \/ \E q \in Request : Take(w, q)
               \/ Resolve(w) \/ ListReports(w) \/ ComputeAndLoad(w)
               \/ Commit(w) \/ Publish(w) \/ \E s : Release(w, s)
        PROVE  reports' = reports /\ clock' = clock
    BY <2>5 DEF Take, Resolve, ListReports, ComputeAndLoad, Commit, Publish, Release
  <2> QED
    BY <2>1, <2>2, <2>3, <2>4, <2>5, Steps DEF Tick, Ack
<1>2. \A x, p : Computed(x, p, reports, clock) => Computed(x, p, reports', clock')
  BY <1>1, ComputedGrows
<1> HIDE DEF TypeInv
<1>3. ASSUME UNCHANGED <<pc, local>> PROVE ComputedInv'
  BY <1>2, <1>3 DEF ComputedInv
<1>4. CASE UNCHANGED vars \/ Tick
  BY <1>3, <1>4 DEF vars, Tick
<1>5. ASSUME NEW q \in Request, CommitReport(q) \/ HandleRequest(q) PROVE ComputedInv'
  BY <1>3, <1>5 DEF CommitReport, HandleRequest, Enqueue, EnqueueFails
<1>6. ASSUME NEW w \in Worker,
             pc'[w] \in {"commit", "publish"} =>
               Computed(local'[w].computed, local'[w].period, reports', clock'),
             \A v \in Worker \ {w} : pc'[v] = pc[v] /\ local'[v] = local[v]
      PROVE  ComputedInv'
  BY <1>2, <1>6 DEF ComputedInv
<1> USE DEF TypeInv
<1>7. ASSUME NEW w \in Worker, NEW q \in Request, Take(w, q) PROVE ComputedInv'
  BY <1>6, <1>7 DEF Take
<1>8. ASSUME NEW w \in Worker, Resolve(w) \/ ListReports(w) PROVE ComputedInv'
  BY <1>6, <1>8 DEF Resolve, ListReports
<1>9. ASSUME NEW w \in Worker, NEW s, Release(w, s) PROVE ComputedInv'
  BY <1>6, <1>9 DEF Release
<1>10. ASSUME NEW w \in Worker, ComputeAndLoad(w) PROVE ComputedInv'
  <2>1. PICK o \in ComputeStatus(local[w].read, clock) :
          local' = [local EXCEPT ![w].computed = RowFor(local[w].read, o),
                                 ![w].loaded = row[local[w].period]]
    BY <1>10 DEF ComputeAndLoad
  <2>2. local[w].read \subseteq {r \in reports : r.period = local[w].period}
    BY <1>10 DEF OwnInv, Own, ComputeAndLoad
  <2>3. /\ local'[w].computed = RowFor(local[w].read, o) /\ local'[w].period = local[w].period
        /\ \A v \in Worker \ {w} : local'[v] = local[v] /\ pc'[v] = pc[v]
        /\ UNCHANGED <<reports, clock>>
    BY <1>10, <2>1 DEF ComputeAndLoad, Local
  <2>4. local'[w].computed \in RowsOf(local[w].read, clock)
    BY <2>3 DEF RowsOf
  <2>5. clock \in Time /\ clock <= clock
    BY <1>1, PipelineAssumption DEF Time
  <2>6. Computed(local'[w].computed, local'[w].period, reports', clock')
    BY <2>2, <2>3, <2>4, <2>5 DEF Computed
  <2> QED
    BY <1>6, <2>3, <2>6
<1>11. ASSUME NEW w \in Worker, Commit(w) PROVE ComputedInv'
  <2>1. Computed(local[w].computed, local[w].period, reports', clock')
    BY <1>2, <1>11 DEF Commit, ComputedInv
  <2> QED
    BY <1>6, <1>11, <2>1 DEF Commit
<1>12. ASSUME NEW w \in Worker, Publish(w) PROVE ComputedInv'
  BY <1>6, <1>12 DEF Publish
<1> QED
  BY <1>4, <1>5, <1>7, <1>8, <1>9, <1>10, <1>11, <1>12, Steps DEF Ack

LEMMA InitComputedInv == Init => ComputedInv
  BY DEF Init, ComputedInv

-----------------------------------------------------------------------------
(* Races.  The UPDATE of a row touches only the columns that differ from    *)
(* the row the worker loaded.  So what matters is whether another worker    *)
(* has committed the row since this one listed its reports: the history     *)
(* variable overtaken says so, and a worker that is not overtaken still     *)
(* finds the row it started from.                                           *)

Carrying == {"load", "commit", "publish"}

\* a value of last_report_at that does not go back behind another
NotOlder(new, old) == Board!NotOlder(new, old)

\* what a worker carries towards the row
Carried(w) ==
  LET p == local[w].period
  IN  /\ pc[w] = "load" => NotOlder(LastReportAt(local[w].read), row[p].last)
      /\ pc[w] = "commit" => /\ local[w].loaded = row[p]
                             /\ NotOlder(local[w].computed.last, row[p].last)
      /\ pc[w] = "publish" => local[w].computed = row[p]

RaceInv ==
  /\ \A w \in overtaken : pc[w] \in Carrying
  /\ RowCoherent
  /\ \A w \in Worker \ overtaken : Carried(w)

\* What is committed against the row it was loaded from replaces it.
LEMMA WholeUpdate == \A x, y \in Row : Updated(x, x, y) = y
  BY DEF Updated, Row

\* A commit writes one row, whole if nobody overtook the worker, and overtakes everybody
\* else who carries something towards it.
LEMMA CommitWrites ==
  ASSUME TypeInv, RaceInv, NEW w \in Worker, Commit(w)
  PROVE  LET p == local[w].period
             new == Updated(row[p], local[w].loaded, local[w].computed)
         IN  /\ p \in Period /\ row' = [row EXCEPT ![p] = new]
             /\ w \notin overtaken => new = local[w].computed
             /\ raced' = IF w \in overtaken THEN raced \cup {p} ELSE raced \ {p}
             /\ local' = local /\ pc' = [pc EXCEPT ![w] = "publish"] /\ pc[w] = "commit"
             /\ overtaken' = overtaken \cup (At(p, Carrying) \ {w})
             /\ UNCHANGED <<clock, reports, intake, task, job, event, misled>>
<1>1. /\ local[w].period \in Period /\ local[w].computed \in Row
      /\ row[local[w].period] \in Row
  BY DEF TypeInv, TypeOK, Local
<1>2. w \notin overtaken => local[w].loaded = row[local[w].period]
  BY DEF RaceInv, Carried, Commit
<1>3. w \notin overtaken =>
        Updated(row[local[w].period], local[w].loaded, local[w].computed) = local[w].computed
  BY <1>1, <1>2, WholeUpdate
<1> QED
  BY <1>1, <1>3 DEF Commit, Marked, Carrying

\* The recent reports of a period are not older than what its row shows.
LEMMA ListNotOlder ==
  ASSUME TypeInv, OwnInv, NEW p \in Period
  PROVE  NotOlder(LastReportAt(RecentReports(p)), row[p].last)
<1> DEFINE R == RecentReports(p)
           last == LastReportAt(R)
<1> SUFFICES ASSUME last # Null, row[p].last # Null PROVE last >= row[p].last
  BY DEF NotOlder, Board!NotOlder
<1>1. R \in SUBSET Report /\ IsFiniteSet(R)
  BY FS_Subset DEF RecentReports, TypeInv, TypeOK, ReadIsCommitted
<1>2. R # {} /\ (\E r \in R : last = r.at) /\ \A r \in R : last >= r.at
  BY <1>1, LastReportIs
<1>3. PICK r \in reports : r.period = p /\ row[p].last = r.at
  BY DEF OwnInv, Bounded, Own
<1>4. r \in R <=> r.at >= clock - ReportWindow
  BY <1>3 DEF RecentReports
<1>5. PICK q \in R : last = q.at
  BY <1>2
<1>6. q \in Report /\ q.at >= clock - ReportWindow
  BY <1>1 DEF RecentReports
<1>7. r.at \in Int /\ q.at \in Int /\ clock - ReportWindow \in Int
  BY <1>6, PipelineAssumption, WindowsAssumption, SMTT(30) DEF TypeInv, TypeOK, Report, Time
<1>8. CASE r \in R
  BY <1>2, <1>3, <1>8
<1>9. CASE r \notin R
  BY <1>3, <1>4, <1>5, <1>6, <1>7, <1>9
<1> QED
  BY <1>8, <1>9

LEMMA NextRaceInv ==
  TypeInv /\ OwnInv /\ ComputedInv /\ RaceInv /\ [Next]_vars => RaceInv'
<1> SUFFICES ASSUME TypeInv, OwnInv, ComputedInv, RaceInv, [Next]_vars PROVE RaceInv'
  OBVIOUS
<1>1. ASSUME UNCHANGED <<pc, local, row, overtaken, raced>> PROVE RaceInv'
  BY <1>1 DEF RaceInv, RowCoherent, Carried
<1>2. CASE UNCHANGED vars \/ Tick
  BY <1>1, <1>2 DEF vars, Tick
<1>3. ASSUME NEW q \in Request, CommitReport(q) \/ HandleRequest(q) PROVE RaceInv'
  BY <1>1, <1>3 DEF CommitReport, HandleRequest, Enqueue, EnqueueFails
<1>4. ASSUME NEW w \in Worker, UNCHANGED <<row, raced>>,
             \A v \in Worker \ {w} : /\ pc'[v] = pc[v] /\ local'[v] = local[v]
                                     /\ v \in overtaken' <=> v \in overtaken,
             overtaken' \subseteq Worker, w \in overtaken' => pc'[w] \in Carrying,
             w \notin overtaken' => Carried(w)'
      PROVE  RaceInv'
  <2>1. \A v \in Worker \ overtaken' : Carried(v)'
    BY <1>4 DEF RaceInv, Carried
  <2>2. \A v \in overtaken' : pc'[v] \in Carrying
    BY <1>4 DEF RaceInv
  <2> QED
    BY <1>4, <2>1, <2>2 DEF RaceInv, RowCoherent
<1> USE DEF TypeInv, TypeOK
<1>5. ASSUME NEW w \in Worker, NEW q \in Request, Take(w, q) PROVE RaceInv'
  BY <1>4, <1>5 DEF Take, Carried, RaceInv, Carrying
<1>6. ASSUME NEW w \in Worker, Resolve(w) PROVE RaceInv'
  BY <1>4, <1>6 DEF Resolve, Carried, RaceInv, Carrying
<1>7. ASSUME NEW w \in Worker, Publish(w) PROVE RaceInv'
  BY <1>4, <1>7 DEF Publish, Carried
<1>8. ASSUME NEW w \in Worker, NEW s, Release(w, s) PROVE RaceInv'
  BY <1>4, <1>8 DEF Release, Carried
<1>9. ASSUME NEW w \in Worker, ListReports(w) PROVE RaceInv'
  <2>1. /\ local'[w].period = local[w].period /\ local[w].period \in Period
        /\ local'[w].read = RecentReports(local[w].period)
        /\ pc'[w] = "load" /\ UNCHANGED <<row, raced, overtaken>>
        /\ \A v \in Worker \ {w} : pc'[v] = pc[v] /\ local'[v] = local[v]
    BY <1>9 DEF ListReports, Local
  <2>2. NotOlder(LastReportAt(local'[w].read), row'[local'[w].period].last)
    BY <2>1, ListNotOlder
  <2> QED
    BY <1>4, <2>1, <2>2 DEF Carried, Carrying
<1>10. ASSUME NEW w \in Worker, ComputeAndLoad(w) PROVE RaceInv'
  <2>1. PICK o : local' = [local EXCEPT ![w].computed = RowFor(local[w].read, o),
                                        ![w].loaded = row[local[w].period]]
    BY <1>10 DEF ComputeAndLoad
  <2>2. /\ local'[w].period = local[w].period /\ local'[w].loaded = row[local[w].period]
        /\ local'[w].computed = RowFor(local[w].read, o)
        /\ pc'[w] = "commit" /\ UNCHANGED <<row, raced, overtaken>>
        /\ \A v \in Worker \ {w} : pc'[v] = pc[v] /\ local'[v] = local[v]
    BY <1>10, <2>1 DEF ComputeAndLoad, Local
  <2>3. local'[w].computed.last = LastReportAt(local[w].read)
    BY <2>2 DEF RowFor
  <2>4. w \notin overtaken =>
          NotOlder(LastReportAt(local[w].read), row[local[w].period].last)
    BY <1>10 DEF ComputeAndLoad, RaceInv, Carried
  <2>5. w \notin overtaken => Carried(w)'
    BY <2>2, <2>3, <2>4 DEF Carried
  <2> QED
    BY <1>4, <2>2, <2>5 DEF Carrying
<1>11. ASSUME NEW w \in Worker, Commit(w) PROVE RaceInv'
  <2> DEFINE p == local[w].period
             new == Updated(row[p], local[w].loaded, local[w].computed)
  <2>1. /\ p \in Period /\ row' = [row EXCEPT ![p] = new]
        /\ w \notin overtaken => new = local[w].computed
        /\ raced' = IF w \in overtaken THEN raced \cup {p} ELSE raced \ {p}
        /\ local' = local /\ pc' = [pc EXCEPT ![w] = "publish"] /\ pc[w] = "commit"
        /\ overtaken' = overtaken \cup (At(p, Carrying) \ {w})
    BY <1>11, CommitWrites
  <2> HIDE DEF new
  <2>2. Coherent(local[w].computed)
    BY <1>11, ComputedIsCoherent DEF ComputedInv, Commit
  <2>3. \A o \in Period \ raced' : Coherent(row'[o])
    BY <2>1, <2>2 DEF RaceInv, RowCoherent
  <2>4. \A v \in overtaken' : pc'[v] \in Carrying
    BY <2>1 DEF RaceInv, At, Carrying
  <2>5. w \notin overtaken' => Carried(w)'
    BY <2>1 DEF Carried
  <2>6. ASSUME NEW v \in Worker \ {w}, v \notin overtaken' PROVE Carried(v)'
    <3>1. Carried(v) /\ pc'[v] = pc[v] /\ local'[v] = local[v]
      BY <2>1, <2>6 DEF RaceInv
    <3>2. pc[v] \notin Carrying \/ local[v].period # p
      BY <2>1, <2>6 DEF At
    <3>3. CASE pc[v] \notin Carrying
      BY <3>1, <3>3 DEF Carried, Carrying
    <3>4. CASE local[v].period # p
      <4>1. row'[local[v].period] = row[local[v].period]
        BY <2>1, <3>4 DEF Local
      <4> QED
        BY <3>1, <4>1 DEF Carried
    <3> QED
      BY <3>2, <3>3, <3>4
  <2>7. RowCoherent'
    BY <2>3 DEF RowCoherent
  <2> QED
    BY <2>4, <2>5, <2>6, <2>7 DEF RaceInv
<1> QED
  BY <1>2, <1>3, <1>5, <1>6, <1>7, <1>8, <1>9, <1>10, <1>11, Steps DEF Ack

\* Everything about tasks and rows that the theorems below build on.
SafeInv == TypeInv /\ TaskHeldOnce /\ OwnInv /\ ComputedInv /\ RaceInv

LEMMA SafeInductive == Spec => []SafeInv
<1>1. Init => TaskHeldOnce
  BY PipelineAssumption DEF Init, TaskHeldOnce
<1>2. Init => RaceInv
  <2>1. Coherent(NewRow)
    BY DEF Coherent, NewRow
  <2> QED
    BY <2>1 DEF Init, RaceInv, RowCoherent, Carried
<1>3. SafeInv /\ [Next]_vars => SafeInv'
  BY NextTypeInv, NextTaskHeldOnce, NextOwnInv, NextComputedInv, NextRaceInv DEF SafeInv
<1>4. Init => SafeInv
  BY <1>1, <1>2, InitTypeInv, InitOwnInv, InitComputedInv DEF SafeInv
<1> QED
  BY <1>3, <1>4, PTL DEF Spec

\* For any number of workers the columns of a row belong together, unless an overtaken
\* worker was the last to write it; one commit that nobody overtakes makes it whole.
THEOREM RowsAreCoherent == Spec => []RowCoherent
<1>1. SafeInv => RowCoherent
  BY DEF SafeInv, RaceInv
<1> QED
  BY <1>1, SafeInductive, PTL

-----------------------------------------------------------------------------
(* The tasks implement the status board, whatever races, crashes and is     *)
(* retried.                                                                 *)

\* What the column-wise UPDATE leaves is a mixture of the row and the calculation: the
\* columns in which the calculation differs from what was loaded come from it.
Differ(old, new) == {c \in DOMAIN new : new[c] # old[c]}

Mixed(cur, new, C) == [c \in DOMAIN new |-> IF c \in C THEN new[c] ELSE cur[c]]

LEMMA UpdatedMixes ==
  \A cur, old, new \in Row : Updated(cur, old, new) = Mixed(cur, new, Differ(old, new))
<1> SUFFICES ASSUME NEW cur \in Row, NEW old \in Row, NEW new \in Row
             PROVE  Updated(cur, old, new) = Mixed(cur, new, Differ(old, new))
  OBVIOUS
<1>1. DOMAIN new = {"status", "avg", "conf", "count", "last"}
  BY DEF Row
<1> QED
  BY <1>1 DEF Updated, Mixed, Differ, Row

\* What a worker has computed is a calculation the board allows.
LEMMA CalculationsAre ==
  ASSUME TypeInv, NEW p, NEW x, Computed(x, p, reports, clock)
  PROVE  x \in Board!Calculations(p)
<1>1. PICK R \in SUBSET {r \in reports : r.period = p}, u \in Time :
        u <= clock /\ x \in RowsOf(R, u)
  BY DEF Computed
<1>2. u \in 0..clock
  BY <1>1, PipelineAssumption DEF TypeInv, TypeOK, Time
<1> QED
  BY <1>1, <1>2 DEF Board!Calculations

LEMMA CommitImplements ==
  ASSUME SafeInv, NEW w \in Worker, Commit(w)
  PROVE  Board!BoardNext
<1> DEFINE p == local[w].period
           x == local[w].computed
           new == Updated(row[p], local[w].loaded, x)
<1>1. /\ p \in Period /\ row' = [row EXCEPT ![p] = new]
      /\ w \notin overtaken => new = x
      /\ local' = local /\ pc' = [pc EXCEPT ![w] = "publish"] /\ pc[w] = "commit"
      /\ overtaken' = overtaken \cup (At(p, Carrying) \ {w})
      /\ UNCHANGED <<clock, reports, event>>
  BY CommitWrites DEF SafeInv
<1>2. x \in Board!Calculations(p)
  BY CalculationsAre DEF SafeInv, ComputedInv, Commit
<1>3. x \in Row /\ local[w].loaded \in Row /\ row[p] \in Row /\ row \in [Period -> Row]
  BY <1>1 DEF SafeInv, TypeInv, TypeOK, Local
<1>4. w \notin overtaken => NotOlder(x.last, row[p].last)
  BY DEF SafeInv, RaceInv, Carried, Commit
<1> DEFINE C == Differ(local[w].loaded, x)
<1>5. new = Mixed(row[p], x, C) /\ C \in SUBSET DOMAIN x
  BY <1>3, UpdatedMixes DEF Differ
<1>6. Board!Write(w, p)
  <2>1. \A o \in Period : /\ begun[o] = At(o, {"load", "commit"})
                          /\ written[o] = At(o, {"publish"})
    BY DEF begun, written
  <2>2. w \in begun[p] /\ begun[p] \cup written[p] = At(p, Carrying)
    BY <1>1, <2>1 DEF At, Carrying
  <2>3. pc \in [Worker -> WorkerStep]
    BY DEF SafeInv, TypeInv, TypeOK
  <2>4. \A o \in Period : /\ At(o, {"load", "commit"})' = IF o = p THEN begun[o] \ {w} ELSE begun[o]
                          /\ At(o, {"publish"})' = IF o = p THEN written[o] \cup {w} ELSE written[o]
    BY <1>1, <2>1, <2>3 DEF At
  <2>5. begun' = [begun EXCEPT ![p] = @ \ {w}]
    BY <2>4 DEF begun
  <2>6. written' = [written EXCEPT ![p] = @ \cup {w}]
    BY <2>4 DEF written
  <2> QED
    BY <1>1, <2>2, <2>5, <2>6 DEF Board!Write
<1> HIDE DEF p, x, new, C
<1>7. CASE w \notin overtaken
  <2>1. Board!Refresh(w, p)
    BY <1>1, <1>2, <1>4, <1>6, <1>7 DEF Board!Refresh, NotOlder
  <2> QED
    BY <1>1, <2>1 DEF Board!BoardNext
<1>8. CASE w \in overtaken
  <2>1. row' = [row EXCEPT ![p] = [c \in DOMAIN x |-> IF c \in C THEN x[c] ELSE @[c]]]
    BY <1>1, <1>5 DEF Mixed
  <2>2. Board!Merge(w, p)
    BY <1>2, <1>5, <1>6, <1>8, <2>1 DEF Board!Merge
  <2> QED
    BY <1>1, <2>2 DEF Board!BoardNext
<1> QED
  BY <1>7, <1>8

\* A worker that is no more at the row it carried something to has left the board.
LEMMA LeavesBoard ==
  ASSUME SafeInv, NEW w \in Worker, pc[w] \in Carrying, pc'[w] \notin Carrying,
         \A v \in Worker \ {w} : pc'[v] = pc[v] /\ local'[v] = local[v],
         overtaken' = overtaken \ {w}, UNCHANGED <<clock, reports, row>>
  PROVE  local[w].period \in Period /\ Board!Leave(w, local[w].period)
<1> DEFINE p == local[w].period
<1>1. p \in Period
  BY DEF SafeInv, TypeInv, TypeOK, Local
<1>2. w \in begun[p] \cup written[p]
  BY <1>1 DEF begun, written, At, Carrying
<1>3. \A o \in Period : /\ At(o, {"load", "commit"})' = IF o = p THEN begun[o] \ {w} ELSE begun[o]
                        /\ At(o, {"publish"})' = IF o = p THEN written[o] \ {w} ELSE written[o]
  BY DEF At, begun, written, Carrying
<1>4. begun' = [begun EXCEPT ![p] = @ \ {w}]
  BY <1>3 DEF begun
<1>5. written' = [written EXCEPT ![p] = @ \ {w}]
  BY <1>3 DEF written
<1> QED
  BY <1>1, <1>2, <1>4, <1>5 DEF Board!Leave

\* Every step is a step of the board or invisible to it.
LEMMA StepImplements == SafeInv /\ [Next]_vars => [Board!BoardNext]_(Board!boardVars)
<1> SUFFICES ASSUME SafeInv, [Next]_vars PROVE [Board!BoardNext]_(Board!boardVars)
  OBVIOUS
<1> USE DEF SafeInv
<1>1. ASSUME UNCHANGED <<pc, local>> PROVE UNCHANGED <<begun, written>>
  BY <1>1 DEF begun, written, At
<1>2. ASSUME NEW w \in Worker, UNCHANGED <<clock, reports, row, event, overtaken>>,
             \A v \in Worker \ {w} : pc'[v] = pc[v] /\ local'[v] = local[v],
             \/ pc[w] \notin Carrying /\ pc'[w] \notin Carrying
             \/ pc[w] = "load" /\ pc'[w] = "commit" /\ local'[w].period = local[w].period
      PROVE  UNCHANGED Board!boardVars
  <2>1. \A p : /\ At(p, {"load", "commit"})' = At(p, {"load", "commit"})
               /\ At(p, {"publish"})' = At(p, {"publish"})
    BY <1>2 DEF At, Carrying
  <2> QED
    BY <1>2, <2>1 DEF Board!boardVars, begun, written
<1>3. CASE UNCHANGED vars
  BY <1>1, <1>3 DEF vars, Board!boardVars
<1>4. CASE Tick
  BY <1>1, <1>4 DEF Tick, Board!BoardNext, Board!TimePasses
<1>5. ASSUME NEW q \in Request, CommitReport(q) PROVE Board!Post
  <2>1. PICK at \in Time, geo \in Time, c \in Content :
          reports' = reports \cup {[id |-> q, at |-> at, period |-> PeriodAt[geo],
                                    status |-> c.status, conf |-> c.conf]}
    BY <1>5 DEF CommitReport
  <2> DEFINE new == [id |-> q, at |-> at, period |-> PeriodAt[geo],
                     status |-> c.status, conf |-> c.conf]
  <2>2. reports' = reports \cup {new}
    BY <2>1
  <2> HIDE DEF new
  <2>3. reports' \subseteq Report
    BY NextTypeInv DEF TypeInv, TypeOK
  <2> QED
    BY <1>1, <1>5, <2>2, <2>3 DEF CommitReport, Board!Post
<1>6. ASSUME NEW q \in Request, HandleRequest(q) PROVE UNCHANGED Board!boardVars
  BY <1>1, <1>6 DEF HandleRequest, Enqueue, EnqueueFails, Board!boardVars
<1>7. ASSUME NEW w \in Worker, NEW q \in Request, Take(w, q) PROVE UNCHANGED Board!boardVars
  BY <1>2, <1>7 DEF Take, Carrying, TypeInv, TypeOK
<1>8. ASSUME NEW w \in Worker, Resolve(w) PROVE UNCHANGED Board!boardVars
  BY <1>2, <1>8 DEF Resolve, Carrying, TypeInv, TypeOK
<1>9. ASSUME NEW w \in Worker, ListReports(w) PROVE Board!BoardNext
  <2> DEFINE p == local[w].period
  <2>1. /\ p \in Period /\ pc[w] = "list" /\ pc'[w] = "load" /\ local'[w].period = p
        /\ \A v \in Worker \ {w} : pc'[v] = pc[v] /\ local'[v] = local[v]
        /\ UNCHANGED <<clock, reports, row, event, overtaken>>
    BY <1>9 DEF ListReports, TypeInv, TypeOK, Local
  <2>2. \A o \in Period : w \notin begun[o] \cup written[o]
    BY <2>1 DEF begun, written, At
  <2>3. \A o \in Period :
          /\ At(o, {"load", "commit"})' = IF o = p THEN begun[o] \cup {w} ELSE begun[o]
          /\ At(o, {"publish"})' = written[o]
    BY <2>1 DEF begun, written, At
  <2>4. begun' = [begun EXCEPT ![p] = @ \cup {w}] /\ written' = written
    BY <2>3 DEF begun, written
  <2> QED
    BY <2>1, <2>2, <2>4 DEF Board!BoardNext, Board!Begin
<1>10. ASSUME NEW w \in Worker, ComputeAndLoad(w) PROVE UNCHANGED Board!boardVars
  BY <1>2, <1>10 DEF ComputeAndLoad, TypeInv, TypeOK, Local
<1>11. ASSUME NEW w \in Worker, Publish(w) PROVE Board!BoardNext
  <2> DEFINE p == local[w].period
             x == local[w].computed
  <2>1. /\ p \in Period /\ pc[w] = "publish" /\ event' = [event EXCEPT ![p] = EventOf(x)]
        /\ Board!Leave(w, p)
    BY <1>11, LeavesBoard DEF Publish, Carrying, TypeInv, TypeOK
  <2>2. w \in written[p]
    BY <2>1 DEF written, At
  <2>3. w \in overtaken => x \in Board!Calculations(p)
    BY <2>1, CalculationsAre DEF ComputedInv
  <2>4. w \notin overtaken => x = row[p]
    BY <2>1 DEF RaceInv, Carried
  <2> HIDE DEF x
  <2>5. Board!Tell(w, p)
    BY <2>1, <2>2, <2>3, <2>4 DEF Board!Tell
  <2> QED
    BY <2>1, <2>5 DEF Board!BoardNext
<1>12. ASSUME NEW w \in Worker, NEW s, Release(w, s), pc[w] # "idle"
       PROVE  [Board!BoardNext]_(Board!boardVars)
  <2>1. /\ pc'[w] = "idle" /\ overtaken' = overtaken \ {w}
        /\ \A v \in Worker \ {w} : pc'[v] = pc[v] /\ local'[v] = local[v]
        /\ UNCHANGED <<clock, reports, row, event>>
    BY <1>12 DEF Release, TypeInv, TypeOK
  <2>2. CASE pc[w] \in Carrying
    <3>1. local[w].period \in Period /\ Board!Leave(w, local[w].period)
      BY <2>1, <2>2, LeavesBoard DEF Carrying
    <3> QED
      BY <2>1, <3>1 DEF Board!BoardNext, Board!GiveUp
  <2>3. CASE pc[w] \notin Carrying
    <3>1. overtaken' = overtaken
      BY <2>1, <2>3 DEF RaceInv
    <3> QED
      BY <1>2, <2>1, <2>3, <3>1 DEF Carrying
  <2> QED
    BY <2>2, <2>3
<1>13. ASSUME NEW w \in Worker, Ack(w) PROVE [Board!BoardNext]_(Board!boardVars)
  BY <1>12, <1>13 DEF Ack
<1> QED
  BY <1>3, <1>4, <1>5, <1>6, <1>7, <1>8, <1>9, <1>10, <1>11, <1>12, <1>13, CommitImplements,
     Steps DEF Board!BoardNext

\* For any number of workers the rows and the events are a status board, whatever races,
\* crashes and is retried.
THEOREM TasksImplementStatusBoard == Spec => ImplementsStatusBoard
<1>1. Init => Board!BoardInit
  BY DEF Init, Board!BoardInit, begun, written, At
<1> QED
  BY <1>1, StepImplements, SafeInductive, PTL
     DEF Spec, ImplementsStatusBoard, Board!BoardSpec

-----------------------------------------------------------------------------
(* The row is current once all work is done.  A task recomputes the period  *)
(* that is open when it runs: the one of its report as long as no other     *)
(* meal opens.  A worker that nobody overtakes has listed every report      *)
(* whose own task has committed, for that commit would have overtaken it.   *)

UpTo(last, r) == last # Null /\ last >= r.at

\* the reports that a row has to show
Owed(r) == MealSince(r) /\ clock - r.at <= ReportWindow

Shown(r) == Owed(r) /\ r.period \notin raced => UpTo(row[r.period].last, r)

\* the task of a report has written the row
Served(r) ==
  \/ task[r.id] = "done"
  \/ \E v \in Worker : job[v] = r.id /\ pc[v] \in {"publish", "ack"}

InHand(w, r) ==
  LET p == local[w].period
  IN  /\ pc[w] \in {"list", "load", "commit", "publish", "ack"} /\ r.id = job[w] /\ MealSince(r)
           => r.period = p
      /\ w \notin overtaken /\ Owed(r) /\ r.period = p /\ (r.id = job[w] \/ Served(r)) =>
           /\ pc[w] = "load" => r \in local[w].read
           /\ pc[w] = "commit" => UpTo(local[w].computed.last, r)

\* A report has been committed by its request, and in the past.
DatedInv == \A r \in reports : intake[r.id] # "open" /\ r.at <= clock

CurrentInv ==
  /\ DatedInv
  /\ \A r \in reports : Served(r) => Shown(r)
  /\ \A w \in Worker : \A r \in reports : InHand(w, r)

\* Time only takes reports off the list of those that a row has to show.
LEMMA TickOwed ==
  ASSUME TypeInv, TypeInv', clock' = clock + 1, NEW r \in reports
  PROVE  (MealSince(r)' => MealSince(r)) /\ (Owed(r)' => Owed(r))
<1>1. r.at \in Int /\ clock \in Int /\ ReportWindow \in Int
  BY PipelineAssumption, WindowsAssumption DEF TypeInv, TypeOK, Report, Time
<1>2. \A t \in r.at..clock : t \in r.at..clock'
  BY <1>1
<1> QED
  BY <1>1, <1>2 DEF MealSince, Owed

\* A meal period that is open now is the one of every report since which no other meal has
\* opened.
LEMMA OpenMeal ==
  ASSUME TypeInv, DatedInv, PeriodAt[clock] \in Period, NEW r \in reports, MealSince(r)
  PROVE  r.period = PeriodAt[clock]
<1>1. r.at \in Int /\ clock \in Int /\ r.at <= clock
  BY PipelineAssumption DEF TypeInv, TypeOK, Report, Time, DatedInv
<1>2. clock \in r.at..clock
  BY <1>1
<1>3. PeriodAt[clock] \in {r.period, Closed}
  BY <1>2 DEF MealSince
<1> QED
  BY <1>3 DEF Closed, Period

LEMMA TickCurrent == ASSUME SafeInv, TypeInv', CurrentInv, Tick PROVE CurrentInv'
<1>1. /\ clock' = clock + 1
      /\ UNCHANGED <<reports, intake, task, pc, job, local, row, overtaken, raced>>
  BY DEF Tick
<1>2. \A r \in reports : (MealSince(r)' => MealSince(r)) /\ (Owed(r)' => Owed(r))
  BY <1>1, TickOwed DEF SafeInv
<1>3. DatedInv'
  <2>1. \A r \in reports : r.at \in Int /\ clock \in Int
    BY PipelineAssumption DEF SafeInv, TypeInv, TypeOK, Report, Time
  <2> QED
    BY <1>1, <2>1 DEF CurrentInv, DatedInv
<1>4. \A r \in reports : Served(r)' => Shown(r)'
  BY <1>1, <1>2 DEF CurrentInv, Served, Shown, UpTo
<1>5. \A w \in Worker : \A r \in reports : InHand(w, r)'
  <2> SUFFICES ASSUME NEW w \in Worker, NEW r \in reports PROVE InHand(w, r)'
    OBVIOUS
  <2>1. InHand(w, r)
    BY DEF CurrentInv
  <2> QED
    BY <1>1, <1>2, <2>1 DEF InHand, Served, UpTo
<1> QED
  BY <1>1, <1>3, <1>4, <1>5 DEF CurrentInv

\* A report that is committed belongs to no task yet.
LEMMA CommitReportCurrent ==
  ASSUME SafeInv, CurrentInv, NEW q \in Request, CommitReport(q)
  PROVE  CurrentInv'
<1>1. PICK at \in Time, geo \in Time, c \in Content :
        /\ at <= clock
        /\ reports' = reports \cup
             {[id |-> q, at |-> at, period |-> PeriodAt[geo],
               status |-> c.status, conf |-> c.conf]}
  BY DEF CommitReport
<1> DEFINE new == [id |-> q, at |-> at, period |-> PeriodAt[geo],
                   status |-> c.status, conf |-> c.conf]
<1>2. new.id = q /\ new.at <= clock /\ reports' = reports \cup {new}
  BY <1>1
<1> HIDE DEF new
<1>3. /\ intake' = [intake EXCEPT ![q] = "committed"] /\ intake[q] = "open"
      /\ UNCHANGED <<clock, task, pc, job, local, row, overtaken, raced>>
  BY DEF CommitReport
<1>4. /\ intake \in [Request -> IntakeState]
      /\ task[q] = "none" /\ \A w \in Worker : job[w] # q
  BY <1>3, PipelineAssumption DEF SafeInv, TypeInv, TypeOK, TaskHeldOnce
<1>5. DatedInv'
  BY <1>2, <1>3, <1>4 DEF CurrentInv, DatedInv
<1>6. \A r : /\ Owed(r)' <=> Owed(r)
             /\ MealSince(r)' <=> MealSince(r)
             /\ Shown(r)' <=> Shown(r)
             /\ Served(r)' <=> Served(r)
  BY <1>3 DEF Owed, MealSince, Shown, UpTo, Served
<1>7. ~ Served(new) /\ \A w \in Worker : new.id # job[w]
  BY <1>2, <1>4 DEF Served
<1>8. \A r \in reports' : Served(r)' => Shown(r)'
  BY <1>2, <1>6, <1>7 DEF CurrentInv
<1>9. \A w \in Worker : \A r \in reports' : InHand(w, r)'
  <2> SUFFICES ASSUME NEW w \in Worker, NEW r \in reports' PROVE InHand(w, r)'
    OBVIOUS
  <2>1. CASE r \in reports
    <3>1. InHand(w, r)
      BY <2>1 DEF CurrentInv
    <3> QED
      BY <1>3, <1>6, <3>1 DEF InHand, UpTo
  <2>2. CASE r = new
    BY <1>3, <1>6, <1>7, <2>2 DEF InHand
  <2> QED
    BY <1>2, <2>1, <2>2
<1> QED
  BY <1>5, <1>8, <1>9 DEF CurrentInv

\* A step that writes no row and serves no report; what its worker has in hand is left.
LEMMA QuietCurrent ==
  ASSUME SafeInv, CurrentInv, NEW w \in Worker,
         UNCHANGED <<clock, reports, row, raced>>,
         \A r \in reports : intake'[r.id] # "open" /\ (Served(r)' => Served(r)),
         \A v \in Worker \ {w} : /\ pc'[v] = pc[v] /\ local'[v] = local[v] /\ job'[v] = job[v]
                                 /\ v \in overtaken' <=> v \in overtaken,
         \A r \in reports : InHand(w, r)'
  PROVE  CurrentInv'
<1>1. \A r : (Owed(r)' <=> Owed(r)) /\ (MealSince(r)' <=> MealSince(r)) /\ (Shown(r)' <=> Shown(r))
  BY DEF Owed, MealSince, Shown, UpTo
<1>2. DatedInv'
  BY DEF CurrentInv, DatedInv
<1>3. \A r \in reports' : Served(r)' => Shown(r)'
  BY <1>1 DEF CurrentInv
<1>4. ASSUME NEW v \in Worker \ {w}, NEW r \in reports PROVE InHand(v, r)'
  <2>1. InHand(v, r)
    BY DEF CurrentInv
  <2> QED
    BY <1>1, <2>1 DEF InHand, UpTo
<1> QED
  BY <1>2, <1>3, <1>4 DEF CurrentInv

LEMMA ReleaseCurrent ==
  ASSUME SafeInv, CurrentInv, NEW w \in Worker, pc[w] # "idle",
         NEW s \in {"ready", "dropped", "done"}, Release(w, s),
         s = "done" => pc[w] = "ack"
  PROVE  CurrentInv'
<1>1. /\ pc'[w] = "idle" /\ UNCHANGED <<clock, reports, intake, row, raced>>
      /\ task' = [task EXCEPT ![job[w]] = s]
      /\ overtaken' = overtaken \ {w}
      /\ \A v \in Worker \ {w} : pc'[v] = pc[v] /\ local'[v] = local[v] /\ job'[v] = job[v]
  BY DEF Release, SafeInv, TypeInv, TypeOK
<1>2. ASSUME NEW r \in reports, Served(r)' PROVE Served(r)
  <2>1. r.id \in Request /\ task \in [Request -> TaskState]
    BY DEF SafeInv, TypeInv, TypeOK, Report
  <2>2. CASE task'[r.id] = "done"
    BY <1>1, <2>1, <2>2 DEF Served
  <2>3. CASE \E v \in Worker : job'[v] = r.id /\ pc'[v] \in {"publish", "ack"}
    BY <1>1, <2>3 DEF Served
  <2> QED
    BY <1>2, <2>2, <2>3 DEF Served
<1>3. \A r \in reports : InHand(w, r)'
  BY <1>1 DEF InHand
<1>4. \A r \in reports : intake'[r.id] # "open"
  BY <1>1 DEF CurrentInv, DatedInv
<1> QED
  BY <1>1, <1>2, <1>3, <1>4, QuietCurrent

LEMMA ResolveCurrent ==
  ASSUME SafeInv, CurrentInv, NEW w \in Worker, Resolve(w)
  PROVE  CurrentInv'
<1>1. /\ local'[w].period = PeriodAt[clock] /\ PeriodAt[clock] \in Period
      /\ pc'[w] = "list" /\ UNCHANGED <<clock, reports, intake, task, job, row, overtaken, raced>>
      /\ \A v \in Worker \ {w} : pc'[v] = pc[v] /\ local'[v] = local[v]
  BY DEF Resolve, SafeInv, TypeInv, TypeOK, Local
<1>2. \A r \in reports : MealSince(r) => r.period = PeriodAt[clock]
  BY <1>1, OpenMeal DEF SafeInv, CurrentInv
<1>3. \A r \in reports : InHand(w, r)'
  BY <1>1, <1>2 DEF InHand, MealSince
<1>4. \A r \in reports : intake'[r.id] # "open" /\ (Served(r)' => Served(r))
  BY <1>1 DEF CurrentInv, DatedInv, Served
<1> QED
  BY <1>1, <1>3, <1>4, QuietCurrent

\* The list holds every report that the row must show.
LEMMA ListCurrent ==
  ASSUME SafeInv, CurrentInv, NEW w \in Worker, ListReports(w)
  PROVE  CurrentInv'
<1>1. /\ local'[w].period = local[w].period
      /\ local'[w].read = RecentReports(local[w].period)
      /\ pc'[w] = "load" /\ pc[w] = "list"
      /\ UNCHANGED <<clock, reports, intake, task, job, row, overtaken, raced>>
      /\ \A v \in Worker \ {w} : pc'[v] = pc[v] /\ local'[v] = local[v]
  BY DEF ListReports, SafeInv, TypeInv, TypeOK, Local
<1>2. \A r \in reports : r.period = local[w].period /\ Owed(r) => r \in local'[w].read
  <2>1. \A r \in reports : r.at \in Int /\ clock \in Int /\ ReportWindow \in Int
    BY PipelineAssumption, WindowsAssumption DEF SafeInv, TypeInv, TypeOK, Report, Time
  <2> QED
    BY <1>1, <2>1 DEF RecentReports, Owed
<1>3. \A r : (Owed(r)' <=> Owed(r)) /\ (MealSince(r)' <=> MealSince(r))
  BY <1>1 DEF Owed, MealSince
<1>4. \A r \in reports : InHand(w, r)'
  BY <1>1, <1>2, <1>3 DEF InHand, CurrentInv
<1>5. \A r \in reports : intake'[r.id] # "open" /\ (Served(r)' => Served(r))
  BY <1>1 DEF CurrentInv, DatedInv, Served
<1> QED
  BY <1>1, <1>4, <1>5, QuietCurrent

LEMMA ComputeCurrent ==
  ASSUME SafeInv, CurrentInv, NEW w \in Worker, ComputeAndLoad(w)
  PROVE  CurrentInv'
<1>1. PICK o : local' = [local EXCEPT ![w].computed = RowFor(local[w].read, o),
                                      ![w].loaded = row[local[w].period]]
  BY DEF ComputeAndLoad
<1>2. /\ local'[w].period = local[w].period
      /\ local'[w].computed = RowFor(local[w].read, o)
      /\ pc'[w] = "commit" /\ pc[w] = "load"
      /\ UNCHANGED <<clock, reports, intake, task, job, row, overtaken, raced>>
      /\ \A v \in Worker \ {w} : pc'[v] = pc[v] /\ local'[v] = local[v]
  BY <1>1 DEF ComputeAndLoad, SafeInv, TypeInv, TypeOK, Local
<1>3. local'[w].computed.last = LastReportAt(local[w].read)
  BY <1>2 DEF RowFor
<1>4. local[w].read \in SUBSET Report /\ IsFiniteSet(local[w].read)
  BY FS_Subset DEF SafeInv, TypeInv, TypeOK, ReadIsCommitted
<1>5. \A r \in local[w].read : UpTo(local'[w].computed.last, r)
  BY <1>3, <1>4, LastReportIs DEF UpTo
<1>6. \A r : (Owed(r)' <=> Owed(r)) /\ (MealSince(r)' <=> MealSince(r))
  BY <1>2 DEF Owed, MealSince
<1>7. \A r \in reports : intake'[r.id] # "open" /\ (Served(r)' => Served(r))
  <2>1. \A v \in Worker : pc'[v] \in {"publish", "ack"} => pc[v] \in {"publish", "ack"}
    BY <1>2
  <2> QED
    BY <1>2, <2>1 DEF CurrentInv, DatedInv, Served
<1>8. \A r \in reports : InHand(w, r)'
  <2> SUFFICES ASSUME NEW r \in reports PROVE InHand(w, r)'
    OBVIOUS
  <2>1. InHand(w, r)
    BY DEF CurrentInv
  <2> QED
    BY <1>2, <1>5, <1>6, <1>7, <2>1 DEF InHand, UpTo
<1> QED
  BY <1>2, <1>7, <1>8, QuietCurrent

\* A commit that nobody overtook shows what was served, its own report included.
LEMMA CommitCurrent ==
  ASSUME SafeInv, CurrentInv, NEW w \in Worker, Commit(w)
  PROVE  CurrentInv'
<1> DEFINE p == local[w].period
           new == Updated(row[p], local[w].loaded, local[w].computed)
<1>1. /\ p \in Period /\ row' = [row EXCEPT ![p] = new]
      /\ w \notin overtaken => new = local[w].computed
      /\ raced' = IF w \in overtaken THEN raced \cup {p} ELSE raced \ {p}
      /\ local' = local /\ pc' = [pc EXCEPT ![w] = "publish"] /\ pc[w] = "commit"
      /\ overtaken' = overtaken \cup (At(p, Carrying) \ {w})
      /\ UNCHANGED <<clock, reports, intake, task, job>>
  BY CommitWrites DEF SafeInv
<1>2. row \in [Period -> Row] /\ pc \in [Worker -> WorkerStep]
  BY DEF SafeInv, TypeInv, TypeOK
<1> HIDE DEF new
<1>3. \A r : (Owed(r)' <=> Owed(r)) /\ (MealSince(r)' <=> MealSince(r))
  BY <1>1 DEF Owed, MealSince
<1>4. \A r \in reports : Served(r)' => Served(r) \/ r.id = job[w]
  BY <1>1, <1>2 DEF Served
<1>5. \A r \in reports : r.id = job[w] /\ MealSince(r) => r.period = p
  BY <1>1 DEF CurrentInv, InHand
<1>6. ASSUME NEW r \in reports, Served(r)' PROVE Shown(r)'
  <2> SUFFICES ASSUME Owed(r), r.period \notin raced' PROVE UpTo(row'[r.period].last, r)
    BY <1>1, <1>3 DEF Shown, UpTo
  <2>1. MealSince(r) /\ r.period \in Period
    BY DEF Owed, SafeInv, TypeInv, TypeOK, Report
  <2>2. CASE r.period = p
    <3>1. w \notin overtaken
      BY <1>1, <2>2
    <3>2. r.id = job[w] \/ Served(r)
      BY <1>4, <1>6
    <3>3. InHand(w, r)
      BY DEF CurrentInv
    <3>4. UpTo(local[w].computed.last, r)
      BY <1>1, <2>2, <3>1, <3>2, <3>3 DEF InHand
    <3> QED
      BY <1>1, <1>2, <2>2, <3>1, <3>4
  <2>3. CASE r.period # p
    <3>1. Served(r)
      BY <1>4, <1>5, <1>6, <2>1, <2>3
    <3>2. r.period \notin raced /\ row'[r.period] = row[r.period]
      BY <1>1, <1>2, <2>1, <2>3
    <3> QED
      BY <3>1, <3>2 DEF CurrentInv, Shown
  <2> QED
    BY <2>2, <2>3
<1>7. ASSUME NEW v \in Worker, NEW r \in reports PROVE InHand(v, r)'
  <2>1. InHand(v, r)
    BY DEF CurrentInv
  <2>2. CASE v = w
    BY <1>1, <1>2, <1>3, <2>1, <2>2 DEF InHand
  <2>3. CASE v # w
    <3>1. pc'[v] = pc[v] /\ local'[v] = local[v] /\ job'[v] = job[v]
      BY <1>1, <1>2, <2>3
    <3>2. ASSUME v \notin overtaken', pc[v] \in {"load", "commit"} PROVE local[v].period # p
      BY <1>1, <2>3, <3>2 DEF At, Carrying
    <3>3. ASSUME v \notin overtaken', pc[v] \in {"load", "commit"}, Owed(r),
                 r.period = local[v].period, Served(r)'
          PROVE  Served(r)
      BY <1>4, <1>5, <3>2, <3>3 DEF Owed
    <3>4. v \notin overtaken' => v \notin overtaken
      BY <1>1
    <3> QED
      BY <1>3, <2>1, <3>1, <3>3, <3>4 DEF InHand, UpTo
  <2> QED
    BY <2>2, <2>3
<1>8. DatedInv'
  BY <1>1 DEF CurrentInv, DatedInv
<1> QED
  BY <1>1, <1>6, <1>7, <1>8 DEF CurrentInv

LEMMA NextCurrentInv == SafeInv /\ TypeInv' /\ CurrentInv /\ [Next]_vars => CurrentInv'
<1> SUFFICES ASSUME SafeInv, TypeInv', CurrentInv, [Next]_vars PROVE CurrentInv'
  OBVIOUS
<1>1. ASSUME UNCHANGED <<clock, reports, pc, job, local, row, overtaken, raced>>,
             \A r \in reports : /\ intake'[r.id] # "open"
                                /\ task'[r.id] = "done" => task[r.id] = "done"
      PROVE  CurrentInv'
  <2>1. \A r : /\ Owed(r)' <=> Owed(r)
               /\ MealSince(r)' <=> MealSince(r)
               /\ Shown(r)' <=> Shown(r)
    BY <1>1 DEF Owed, MealSince, Shown, UpTo
  <2>2. \A r \in reports : Served(r)' => Served(r)
    BY <1>1 DEF Served
  <2>3. DatedInv'
    BY <1>1 DEF CurrentInv, DatedInv
  <2>4. \A w \in Worker : \A r \in reports : InHand(w, r)'
    <3> SUFFICES ASSUME NEW w \in Worker, NEW r \in reports PROVE InHand(w, r)'
      OBVIOUS
    <3>1. InHand(w, r)
      BY DEF CurrentInv
    <3> QED
      BY <1>1, <2>1, <2>2, <3>1 DEF InHand, UpTo
  <2> QED
    BY <1>1, <2>1, <2>2, <2>3, <2>4 DEF CurrentInv
<1>2. CASE UNCHANGED vars
  BY <1>1, <1>2 DEF vars, CurrentInv, DatedInv
<1>3. ASSUME NEW q \in Request, HandleRequest(q) PROVE CurrentInv'
  <2>1. /\ intake \in [Request -> IntakeState] /\ task \in [Request -> TaskState]
        /\ \A r \in reports : r.id \in Request
    BY DEF SafeInv, TypeInv, TypeOK, Report
  <2>2. UNCHANGED <<clock, reports, pc, job, local, row, overtaken, raced>>
    BY <1>3 DEF HandleRequest, Enqueue, EnqueueFails
  <2>3. \A r \in reports : intake'[r.id] # "open"
    BY <1>3, <2>1 DEF HandleRequest, Enqueue, EnqueueFails, CurrentInv, DatedInv
  <2>4. \A r \in reports : task'[r.id] = "done" => task[r.id] = "done"
    BY <1>3, <2>1 DEF HandleRequest, Enqueue, EnqueueFails
  <2> QED
    BY <1>1, <2>2, <2>3, <2>4
<1>4. ASSUME NEW w \in Worker, NEW q \in Request, Take(w, q) PROVE CurrentInv'
  <2>1. /\ pc'[w] = "resolve" /\ UNCHANGED <<clock, reports, intake, row, overtaken, raced>>
        /\ task' = [task EXCEPT ![q] = "running"]
        /\ \A v \in Worker \ {w} : pc'[v] = pc[v] /\ local'[v] = local[v] /\ job'[v] = job[v]
    BY <1>4 DEF Take, SafeInv, TypeInv, TypeOK
  <2>2. \A r \in reports : InHand(w, r)'
    BY <2>1 DEF InHand
  <2>3. \A r \in reports : task'[r.id] = "done" => task[r.id] = "done"
    BY <2>1 DEF SafeInv, TypeInv, TypeOK, Report
  <2>4. \A r \in reports : intake'[r.id] # "open" /\ (Served(r)' => Served(r))
    BY <2>1, <2>3 DEF Served, CurrentInv, DatedInv
  <2> QED
    BY <2>1, <2>2, <2>4, QuietCurrent
<1>5. ASSUME NEW w \in Worker, Publish(w) PROVE CurrentInv'
  <2>1. /\ pc[w] = "publish" /\ pc'[w] = "ack" /\ local' = local
        /\ UNCHANGED <<clock, reports, intake, task, job, row, raced>>
        /\ overtaken' = overtaken \ {w}
        /\ \A v \in Worker \ {w} : pc'[v] = pc[v] /\ local'[v] = local[v]
    BY <1>5 DEF Publish, SafeInv, TypeInv, TypeOK
  <2>2. \A r \in reports : InHand(w, r)'
    BY <2>1 DEF InHand, CurrentInv, MealSince
  <2>3. \A r \in reports : intake'[r.id] # "open" /\ (Served(r)' => Served(r))
    BY <2>1 DEF Served, CurrentInv, DatedInv
  <2> QED
    BY <2>1, <2>2, <2>3, QuietCurrent
<1>6. ASSUME NEW w \in Worker, Ack(w) PROVE CurrentInv'
  BY <1>6, ReleaseCurrent DEF Ack
<1>7. ASSUME NEW w \in Worker, pc[w] # "idle", NEW s \in {"ready", "dropped"}, Release(w, s)
      PROVE  CurrentInv'
  BY <1>7, ReleaseCurrent
<1> QED
  BY <1>2, <1>3, <1>4, <1>5, <1>6, <1>7, Steps, TickCurrent, CommitReportCurrent,
     ResolveCurrent, ListCurrent, ComputeCurrent, CommitCurrent

LEMMA CurrentInductive == Spec => [](SafeInv /\ CurrentInv)
<1>1. Init => CurrentInv
  BY DEF Init, CurrentInv, DatedInv
<1>2. SafeInv => TypeInv
  BY DEF SafeInv
<1> QED
  BY <1>1, <1>2, SafeInductive, NextCurrentInv, PTL DEF Spec

\* When all work is done the row of the meal shows its newest report that is not too old,
\* whatever raced before and was retried, for any number of workers and any calendar.
THEOREM SettledRowsAreCurrent == Spec => []SettledRowIsCurrent
<1>1. SafeInv /\ CurrentInv => SettledRowIsCurrent
  <2> SUFFICES ASSUME SafeInv, CurrentInv, Settled, NEW r \in reports,
                      clock - r.at <= ReportWindow, MealSince(r), r.period \notin raced
               PROVE  row[r.period].last # Null /\ row[r.period].last >= r.at
    BY DEF SettledRowIsCurrent
  <2>1. r.id \in Request
    BY DEF SafeInv, TypeInv, TypeOK, Report
  <2>2. intake[r.id] = "accepted"
    BY <2>1 DEF Settled, CurrentInv, DatedInv
  <2>3. task[r.id] = "done"
    BY <2>1, <2>2 DEF Settled, SafeInv, TaskHeldOnce
  <2>4. Shown(r)
    BY <2>3 DEF CurrentInv, Served
  <2> QED
    BY <2>4 DEF Shown, Owed, UpTo
<1> QED
  BY <1>1, CurrentInductive, PTL

-----------------------------------------------------------------------------
(* The clients were told of the row once all work is done.  As long as a    *)
(* row and its last event differ, some task is still ahead of publishing    *)
(* it, or waits at the broker to do so again.                               *)

\* a worker that is going to publish the row of p, if nothing happens to it
Ahead(w, p) ==
  \/ pc[w] = "resolve"
  \/ pc[w] \in {"list", "load", "commit", "publish"} /\ local[w].period = p

Unsettled(p) ==
  \/ \E q \in Request : intake[q] \in {"committed", "errored"} \/ task[q] \in {"ready", "dropped"}
  \/ \E w \in Worker : Ahead(w, p)

Told(p) == event[p] = EventOf(row[p]) \/ p \in misled \/ Unsettled(p)

EventInv == \A r \in reports : MealSince(r) => Told(r.period)

\* A step of one worker that neither publishes nor ends its work on a row.
LEMMA StillAhead ==
  ASSUME SafeInv, EventInv, NEW w \in Worker,
         UNCHANGED <<clock, reports, intake, task, row, event, misled>>,
         \A v \in Worker \ {w} : pc'[v] = pc[v] /\ local'[v] = local[v],
         \A p \in Period : Ahead(w, p) => Ahead(w, p)'
  PROVE  EventInv'
<1>1. \A p \in Period : Unsettled(p) => Unsettled(p)'
  BY DEF Unsettled, Ahead
<1>2. \A r \in reports : r.period \in Period
  BY DEF SafeInv, TypeInv, TypeOK, Report
<1> QED
  BY <1>1, <1>2 DEF EventInv, Told, MealSince

\* Nobody is told of a row any more while a request or a task is left half done.
LEMMA HalfDone ==
  ASSUME \/ \E q \in Request : intake'[q] \in {"committed", "errored"}
         \/ \E q \in Request : task'[q] \in {"ready", "dropped"}
         \/ \E w \in Worker : pc'[w] = "resolve"
  PROVE  EventInv'
BY DEF EventInv, Told, Unsettled, Ahead

LEMMA CommitEvent ==
  ASSUME SafeInv, EventInv, NEW w \in Worker, Commit(w)
  PROVE  EventInv'
<1> PICK p \in Period : p = local[w].period
  BY DEF SafeInv, TypeInv, TypeOK, Local
<1>1. /\ pc[w] = "commit" /\ pc'[w] = "publish" /\ local' = local
      /\ \A v \in Worker \ {w} : pc'[v] = pc[v]
      /\ \A o \in Period \ {p} : row'[o] = row[o]
      /\ UNCHANGED <<clock, reports, intake, task, event, misled>>
  BY DEF Commit, SafeInv, TypeInv, TypeOK
<1>2. Unsettled(p)'
  BY <1>1 DEF Unsettled, Ahead
<1>3. \A o : Unsettled(o) => Unsettled(o)'
  BY <1>1 DEF Unsettled, Ahead
<1>4. ASSUME NEW r \in reports, MealSince(r) PROVE Told(r.period)'
  <2>1. r.period \in Period /\ Told(r.period)
    BY <1>4 DEF EventInv, SafeInv, TypeInv, TypeOK, Report
  <2>2. CASE r.period = p
    BY <1>2, <2>2 DEF Told
  <2>3. CASE r.period # p
    BY <1>1, <1>3, <2>1, <2>3 DEF Told
  <2> QED
    BY <2>2, <2>3
<1> QED
  BY <1>1, <1>4 DEF EventInv, MealSince

\* A worker that nobody overtook publishes what the row shows.
LEMMA PublishEvent ==
  ASSUME SafeInv, EventInv, NEW w \in Worker, Publish(w)
  PROVE  EventInv'
<1> PICK p \in Period : p = local[w].period
  BY DEF SafeInv, TypeInv, TypeOK, Local
<1>1. /\ pc[w] = "publish" /\ pc'[w] = "ack" /\ local' = local
      /\ \A v \in Worker \ {w} : pc'[v] = pc[v]
      /\ event' = [event EXCEPT ![p] = EventOf(local[w].computed)]
      /\ misled' = IF w \in overtaken THEN misled \cup {p} ELSE misled \ {p}
      /\ UNCHANGED <<clock, reports, intake, task, row>>
  BY DEF Publish, Marked, SafeInv, TypeInv, TypeOK
<1>2. event \in [Period -> Event \cup {Null}]
  BY DEF SafeInv, TypeInv, TypeOK
<1>3. w \notin overtaken => local[w].computed = row[p]
  BY <1>1 DEF SafeInv, RaceInv, Carried
<1>4. \A o : o # p /\ Unsettled(o) => Unsettled(o)'
  BY <1>1 DEF Unsettled, Ahead
<1>5. ASSUME NEW r \in reports, MealSince(r) PROVE Told(r.period)'
  <2>1. r.period \in Period /\ Told(r.period)
    BY <1>5 DEF EventInv, SafeInv, TypeInv, TypeOK, Report
  <2>2. CASE r.period = p
    BY <1>1, <1>2, <1>3, <2>1, <2>2 DEF Told
  <2>3. CASE r.period # p
    BY <1>1, <1>2, <1>4, <2>1, <2>3 DEF Told
  <2> QED
    BY <2>2, <2>3
<1> QED
  BY <1>1, <1>5 DEF EventInv, MealSince

LEMMA NextEventInv == SafeInv /\ CurrentInv /\ TypeInv' /\ EventInv /\ [Next]_vars => EventInv'
<1> SUFFICES ASSUME SafeInv, CurrentInv, TypeInv', EventInv, [Next]_vars PROVE EventInv'
  OBVIOUS
<1>1. CASE UNCHANGED vars
  BY <1>1 DEF vars, EventInv, Told, Unsettled, Ahead, MealSince
<1>2. CASE Tick
  <2>1. clock' = clock + 1 /\ UNCHANGED <<reports, intake, task, pc, local, row, event, misled>>
    BY <1>2 DEF Tick
  <2>2. \A r \in reports : MealSince(r)' => MealSince(r)
    BY <2>1, TickOwed DEF SafeInv
  <2>3. \A p : Told(p) => Told(p)'
    BY <2>1 DEF Told, Unsettled, Ahead
  <2> QED
    BY <2>1, <2>2, <2>3 DEF EventInv
<1>3. ASSUME NEW q \in Request, CommitReport(q) \/ HandleRequest(q) PROVE EventInv'
  <2>1. intake \in [Request -> IntakeState] /\ task \in [Request -> TaskState]
    BY DEF SafeInv, TypeInv, TypeOK
  <2>2. intake'[q] \in {"committed", "errored"} \/ task'[q] = "ready"
    BY <1>3, <2>1 DEF CommitReport, HandleRequest, Enqueue, EnqueueFails
  <2> QED
    BY <2>2, HalfDone
<1>4. ASSUME NEW w \in Worker, NEW q \in Request, Take(w, q) PROVE EventInv'
  <2>1. pc'[w] = "resolve"
    BY <1>4 DEF Take, SafeInv, TypeInv, TypeOK
  <2> QED
    BY <2>1, HalfDone
<1>5. ASSUME NEW w \in Worker, Resolve(w) PROVE EventInv'
  <2>1. /\ local'[w].period = PeriodAt[clock] /\ PeriodAt[clock] \in Period
        /\ pc'[w] = "list" /\ UNCHANGED <<clock, reports>>
    BY <1>5 DEF Resolve, SafeInv, TypeInv, TypeOK, Local
  <2>2. \A r \in reports : MealSince(r) => r.period = PeriodAt[clock]
    BY <2>1, OpenMeal DEF SafeInv, CurrentInv
  <2>3. Ahead(w, PeriodAt[clock])'
    BY <2>1 DEF Ahead
  <2> QED
    BY <2>1, <2>2, <2>3 DEF EventInv, Told, Unsettled, MealSince
<1>6. ASSUME NEW w \in Worker, ListReports(w) \/ ComputeAndLoad(w) PROVE EventInv'
  <2>1. /\ pc[w] \in {"list", "load"} /\ pc'[w] \in {"load", "commit"}
        /\ \A v \in Worker \ {w} : pc'[v] = pc[v]
        /\ UNCHANGED <<clock, reports, intake, task, row, event, misled>>
    BY <1>6 DEF ListReports, ComputeAndLoad, SafeInv, TypeInv, TypeOK
  <2>2. /\ local'[w].period = local[w].period
        /\ \A v \in Worker \ {w} : local'[v] = local[v]
    <3>1. CASE ListReports(w)
      BY <3>1 DEF ListReports, SafeInv, TypeInv, TypeOK, Local
    <3>2. CASE ComputeAndLoad(w)
      BY <3>2 DEF ComputeAndLoad, SafeInv, TypeInv, TypeOK, Local
    <3> QED
      BY <1>6, <3>1, <3>2
  <2>3. \A p \in Period : Ahead(w, p) => Ahead(w, p)'
    BY <2>1, <2>2 DEF Ahead
  <2> QED
    BY <2>1, <2>2, <2>3, StillAhead
<1>7. ASSUME NEW w \in Worker, NEW s \in {"ready", "dropped"}, pc[w] # "idle", Release(w, s)
      PROVE  EventInv'
  <2>1. job[w] \in Request /\ task \in [Request -> TaskState]
    BY <1>7 DEF SafeInv, TaskHeldOnce, TypeInv, TypeOK
  <2>2. task'[job[w]] \in {"ready", "dropped"}
    BY <1>7, <2>1 DEF Release
  <2> QED
    BY <2>1, <2>2, HalfDone
<1>8. ASSUME NEW w \in Worker, Ack(w) PROVE EventInv'
  <2>1. /\ job[w] \in Request /\ task[job[w]] = "running" /\ task \in [Request -> TaskState]
        /\ pc[w] = "ack"
    BY <1>8 DEF Ack, SafeInv, TaskHeldOnce, TypeInv, TypeOK
  <2>2. /\ \A q \in Request : task[q] \in {"ready", "dropped"} => task'[q] = task[q]
        /\ \A v \in Worker \ {w} : pc'[v] = pc[v] /\ local'[v] = local[v]
        /\ UNCHANGED <<clock, reports, intake, row, event, misled>>
    BY <1>8, <2>1 DEF Ack, Release, SafeInv, TypeInv, TypeOK
  <2>3. \A p : ~ Ahead(w, p)
    BY <2>1 DEF Ahead
  <2>4. \A p : Unsettled(p) => Unsettled(p)'
    BY <2>2, <2>3 DEF Unsettled, Ahead
  <2> QED
    BY <2>2, <2>4 DEF EventInv, Told, MealSince
<1> QED
  BY <1>1, <1>2, <1>3, <1>4, <1>5, <1>6, <1>7, <1>8, CommitEvent, PublishEvent, Steps

\* When all work is done the clients have been told what the row of the meal shows,
\* whatever raced before and was retried, for any number of workers and any calendar.
THEOREM SettledEventsAreRows == Spec => []SettledEventIsRow
<1>1. Init => EventInv
  BY DEF Init, EventInv
<1>2. SafeInv => TypeInv
  BY DEF SafeInv
<1>3. SafeInv /\ EventInv => SettledEventIsRow
  <2> SUFFICES ASSUME SafeInv, EventInv, Settled, NEW r \in reports,
                      MealSince(r), r.period \notin misled
               PROVE  event[r.period] = EventOf(row[r.period])
    BY DEF SettledEventIsRow
  <2>1. \A w \in Worker : pc[w] = "idle"
    <3>1. \A w \in Worker : job[w] = Null
      BY DEF Settled, SafeInv, TaskHeldOnce, TypeInv, TypeOK
    <3> QED
      BY <3>1 DEF SafeInv, TaskHeldOnce
  <2>2. ~ Unsettled(r.period)
    BY <2>1 DEF Unsettled, Ahead, Settled
  <2> QED
    BY <2>2 DEF EventInv, Told
<1> QED
  BY <1>1, <1>2, <1>3, CurrentInductive, SafeInductive, NextEventInv, PTL DEF Spec

=============================================================================
