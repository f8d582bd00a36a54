-------------------------- MODULE SnapshotPipeline --------------------------
(***************************************************************************)
(* From an accepted report to the status everybody sees, for ONE           *)
(* restaurant: the request handler commits a report and then enqueues a    *)
(* task; Celery workers take tasks, recompute the row of queue_snapshots   *)
(* of the meal period that is open when they run, commit it and publish    *)
(* it.  Every await of the source at which another process can run is a    *)
(* boundary between two actions.                                           *)
(***************************************************************************)
EXTENDS SnapshotStatus

CONSTANTS
  Request,       \* POST requests that pass every validation
  Worker,        \* Celery worker processes
  MaxTime,       \* the clock stops here (bound)
  MaxFailures,   \* crashes and exceptions, all together (bound)
  MaxRetries,    \* max_retries of the task
  TxnLag,        \* longest time between the BEGIN of a request and its COMMIT
  ClockSkew,     \* tolerated distance of geo_timestamp from the server's clock
  Content,       \* what a report may say: records [status, conf]
  PeriodAt       \* the meal period MealPeriodService resolves at each time

Period == {"LUNCH", "DINNER"}
Closed == "CLOSED"
Time == 0..MaxTime

ASSUME PipelineAssumption ==
  /\ {MaxTime, MaxFailures, MaxRetries, TxnLag, ClockSkew} \subseteq Nat
  /\ Content \subseteq [status : ReportStatus, conf : Confidence]
  /\ PeriodAt \in [Time -> Period \cup {Closed}]
  /\ Null \notin Request

Report == [id : Request, at : Time, period : Period,
           status : ReportStatus, conf : Confidence]

\* a row of queue_snapshots
Row == [status : SnapshotStatusEnum, avg : Average \cup {Null}, conf : Confidence,
        count : Nat, last : Time \cup {Null}]

NewRow == [status |-> "NO_DATA", avg |-> Null, conf |-> 100, count |-> 0, last |-> Null]

\* SnapshotUpdatedEvent: what clients are told of a row, its average not among it
Event == [status : SnapshotStatusEnum, conf : Confidence,
          count : Nat, last : Time \cup {Null}]

EventOf(x) == [status |-> x.status, conf |-> x.conf, count |-> x.count, last |-> x.last]

VARIABLES
  clock,
  reports,     \* committed rows of queue_reports
  intake,      \* where each request is
  task,        \* the broker's view of the task of each request
  tries,       \* retries of that task so far
  pc,          \* where each worker is in update_snapshot
  job,         \* the task each worker runs, or Null
  local,       \* the local variables of update_snapshot in each worker
  row,         \* committed rows of queue_snapshots
  event,       \* the last event published for each period, or Null
  failures     \* crashes and exceptions so far

\* History: who raced whom.  No action is guarded by it.
VARIABLES
  overtaken,   \* workers whose row another worker has committed since they listed
  raced,       \* periods whose row was last written by an overtaken worker
  misled       \* periods whose last event was published by an overtaken worker

history == <<overtaken, raced, misled>>

vars == <<clock, reports, intake, task, tries, pc, job, local, row, event, failures, history>>

IntakeState == {"open", "committed", "accepted", "errored"}
TaskState   == {"none", "ready", "running", "done", "dropped"}
WorkerStep  == {"idle", "resolve", "list", "load", "commit", "publish", "ack"}

Local == [period : Period, read : SUBSET Report, loaded : Row, computed : Row]
NoLocal == [period |-> "LUNCH", read |-> {}, loaded |-> NewRow, computed |-> NewRow]

Init ==
  /\ clock = 0
  /\ reports = {}
  /\ intake = [q \in Request |-> "open"]
  /\ task = [q \in Request |-> "none"]
  /\ tries = [q \in Request |-> 0]
  /\ pc = [w \in Worker |-> "idle"]
  /\ job = [w \in Worker |-> Null]
  /\ local = [w \in Worker |-> NoLocal]
  /\ row = [p \in Period |-> NewRow]
  /\ event = [p \in Period |-> Null]
  /\ failures = 0
  /\ overtaken = {} /\ raced = {} /\ misled = {}

Tick ==
  /\ clock < MaxTime
  /\ clock' = clock + 1
  /\ UNCHANGED <<reports, intake, task, tries, pc, job, local, row, event, failures, history>>

-----------------------------------------------------------------------------
(* The tail of create_queue_report: INSERT and COMMIT, then .delay(). *)

\* created_at is the time the transaction began; meal_period was resolved at the
\* client's geo_timestamp.
CommitReport(q) ==
  /\ intake[q] = "open"
  /\ \E at \in Time, geo \in Time, c \in Content :
       /\ at <= clock /\ clock - at <= TxnLag
       /\ at - ClockSkew <= geo /\ geo <= clock + ClockSkew
       /\ PeriodAt[geo] \in Period
       /\ reports' = reports \cup
            {[id |-> q, at |-> at, period |-> PeriodAt[geo],
              status |-> c.status, conf |-> c.conf]}
  /\ intake' = [intake EXCEPT ![q] = "committed"]
  /\ UNCHANGED <<clock, task, tries, pc, job, local, row, event, failures, history>>

Enqueue(q) ==
  /\ intake[q] = "committed"
  /\ intake' = [intake EXCEPT ![q] = "accepted"]
  /\ task' = [task EXCEPT ![q] = "ready"]
  /\ UNCHANGED <<clock, reports, tries, pc, job, local, row, event, failures, history>>

\* .delay() raises, or the API process dies before it: nothing undoes the commit.
EnqueueFails(q) ==
  /\ intake[q] = "committed"
  /\ failures < MaxFailures
  /\ failures' = failures + 1
  /\ intake' = [intake EXCEPT ![q] = "errored"]
  /\ UNCHANGED <<clock, reports, task, tries, pc, job, local, row, event, history>>

-----------------------------------------------------------------------------
(* update_restaurant_snapshot_status_task in a worker. *)

Take(w, q) ==
  /\ pc[w] = "idle"
  /\ task[q] = "ready"
  /\ task' = [task EXCEPT ![q] = "running"]
  /\ job' = [job EXCEPT ![w] = q]
  /\ pc' = [pc EXCEPT ![w] = "resolve"]
  /\ UNCHANGED <<clock, reports, intake, tries, local, row, event, failures, history>>

Resolve(w) ==
  /\ pc[w] = "resolve"
  /\ PeriodAt[clock] \in Period
  /\ local' = [local EXCEPT ![w].period = PeriodAt[clock]]
  /\ pc' = [pc EXCEPT ![w] = "list"]
  /\ UNCHANGED <<clock, reports, intake, task, tries, job, row, event, failures, history>>

\* Faulty variant: the query forgets the meal period.
RecentReports_AnyPeriod(p) == {r \in reports : r.at >= clock - ReportWindow}

\* Faulty variant: the cutoff is exclusive.
RecentReports_Exclusive(p) ==
  {r \in reports : r.period = p /\ r.at > clock - ReportWindow}

RecentReports(p) == {r \in reports : r.period = p /\ r.at >= clock - ReportWindow}

ListReports(w) ==
  /\ pc[w] = "list"
  /\ local' = [local EXCEPT ![w].read = RecentReports(local[w].period)]
  /\ pc' = [pc EXCEPT ![w] = "load"]
  /\ UNCHANGED <<clock, reports, intake, task, tries, job, row, event, failures, history>>

\* Faulty variant: the last report of a list ordered by created_at DESC.
LastReportAt_Oldest(R) == IF R = {} THEN Null ELSE Min({r.at : r \in R})

LastReportAt(R) == IF R = {} THEN Null ELSE Max({r.at : r \in R})

RowFor(R, o) ==
  [status |-> o.status, avg |-> o.avg, conf |-> o.conf,
   count |-> Cardinality(R), last |-> LastReportAt(R)]

\* _compute_status runs without IO; the row is then read from the database
ComputeAndLoad(w) ==
  /\ pc[w] = "load"
  /\ \E o \in ComputeStatus(local[w].read, clock) :
       local' = [local EXCEPT ![w].computed = RowFor(local[w].read, o),
                              ![w].loaded = row[local[w].period]]
  /\ pc' = [pc EXCEPT ![w] = "commit"]
  /\ UNCHANGED <<clock, reports, intake, task, tries, job, row, event, failures, history>>

\* Faulty variant: a null never overwrites a value (model_dump(exclude_none=True)).
Updated_ExcludeNone(current, loaded, computed) ==
  [computed EXCEPT !.avg = IF @ = Null THEN current.avg ELSE @]

\* The ORM's UPDATE sets the columns whose value differs from the loaded one and
\* leaves every other column as the table has it.
Updated(current, loaded, computed) ==
  LET col(cur, old, new) == IF new # old THEN new ELSE cur
  IN  [status |-> col(current.status, loaded.status, computed.status),
       avg    |-> col(current.avg, loaded.avg, computed.avg),
       conf   |-> col(current.conf, loaded.conf, computed.conf),
       count  |-> col(current.count, loaded.count, computed.count),
       last   |-> col(current.last, loaded.last, computed.last)]

\* the workers in one of the given steps with the row of period p
At(p, steps) == {w \in Worker : pc[w] \in steps /\ local[w].period = p}

\* p is marked when the one who writes or publishes it was overtaken, else cleared
Marked(S, p, late) == IF late THEN S \cup {p} ELSE S \ {p}

\* Faulty variant: no COMMIT, the session is closed and rolls back.
Commit_Missing(w) ==
  /\ pc[w] = "commit"
  /\ pc' = [pc EXCEPT ![w] = "publish"]
  /\ UNCHANGED <<clock, reports, intake, task, tries, job, local, row, event, failures, history>>

Commit(w) ==
  /\ pc[w] = "commit"
  /\ row' = [row EXCEPT ![local[w].period] =
               Updated(@, local[w].loaded, local[w].computed)]
  /\ pc' = [pc EXCEPT ![w] = "publish"]
  /\ overtaken' = overtaken \cup (At(local[w].period, {"load", "commit", "publish"}) \ {w})
  /\ raced' = Marked(raced, local[w].period, w \in overtaken)
  /\ UNCHANGED <<clock, reports, intake, task, tries, job, local, event, failures, misled>>

\* Faulty variant: the event is made before the columns are set.
Publish_Loaded(w) ==
  /\ pc[w] = "publish"
  /\ event' = [event EXCEPT ![local[w].period] = EventOf(local[w].loaded)]
  /\ pc' = [pc EXCEPT ![w] = "ack"]
  /\ overtaken' = overtaken \ {w}
  /\ misled' = Marked(misled, local[w].period, w \in overtaken)
  /\ UNCHANGED <<clock, reports, intake, task, tries, job, local, row, failures, raced>>

\* the event is made from the object in memory, which holds the computed values
Publish(w) ==
  /\ pc[w] = "publish"
  /\ event' = [event EXCEPT ![local[w].period] = EventOf(local[w].computed)]
  /\ pc' = [pc EXCEPT ![w] = "ack"]
  /\ overtaken' = overtaken \ {w}
  /\ misled' = Marked(misled, local[w].period, w \in overtaken)
  /\ UNCHANGED <<clock, reports, intake, task, tries, job, local, row, failures, raced>>

\* the worker is free again, its task in state s at the broker
Release(w, s) ==
  /\ task' = [task EXCEPT ![job[w]] = s]
  /\ pc' = [pc EXCEPT ![w] = "idle"]
  /\ job' = [job EXCEPT ![w] = Null]
  /\ local' = [local EXCEPT ![w] = NoLocal]
  /\ overtaken' = overtaken \ {w}
  /\ UNCHANGED <<clock, reports, intake, row, event, raced, misled>>

\* task_acks_late: the message is acknowledged when the task has ended
Ack(w) ==
  /\ pc[w] = "ack"
  /\ Release(w, "done")
  /\ UNCHANGED <<tries, failures>>

\* Faulty variant: one retry too many.
RetryOrDrop_OneMore(w) ==
  \/ /\ tries[job[w]] <= MaxRetries
     /\ tries' = [tries EXCEPT ![job[w]] = @ + 1]
     /\ Release(w, "ready")
  \/ /\ tries[job[w]] > MaxRetries
     /\ Release(w, "dropped")
     /\ UNCHANGED tries

\* autoretry_for=(Exception,): an exception requeues the task, the last one drops it
RetryOrDrop(w) ==
  \/ /\ tries[job[w]] < MaxRetries
     /\ tries' = [tries EXCEPT ![job[w]] = @ + 1]
     /\ Release(w, "ready")
  \/ /\ tries[job[w]] >= MaxRetries
     /\ Release(w, "dropped")
     /\ UNCHANGED tries

\* outside meal hours resolve raises, and autoretry takes it for a failure
ResolveClosed(w) ==
  /\ pc[w] = "resolve"
  /\ PeriodAt[clock] = Closed
  /\ RetryOrDrop(w)
  /\ UNCHANGED failures

\* the database or Redis raises at the step the worker is about to take
Fault(w) ==
  /\ pc[w] \in {"resolve", "list", "load", "commit", "publish"}
  /\ failures < MaxFailures
  /\ failures' = failures + 1
  /\ RetryOrDrop(w)

\* Faulty variant: the message was acknowledged when it was taken.
Crash_EarlyAck(w) ==
  /\ pc[w] # "idle"
  /\ failures < MaxFailures
  /\ failures' = failures + 1
  /\ Release(w, "done")
  /\ UNCHANGED tries

\* Faulty variant: nobody rejects the message of a lost worker.
Crash_Unrejected(w) ==
  /\ pc[w] # "idle"
  /\ failures < MaxFailures
  /\ failures' = failures + 1
  /\ Release(w, "running")
  /\ UNCHANGED tries

\* task_reject_on_worker_lost: the unacknowledged message goes back to the queue
Crash(w) ==
  /\ pc[w] # "idle"
  /\ failures < MaxFailures
  /\ failures' = failures + 1
  /\ Release(w, "ready")
  /\ UNCHANGED tries

RunTask(w) ==
  \/ \E q \in Request : Take(w, q)
  \/ Resolve(w) \/ ResolveClosed(w) \/ ListReports(w) \/ ComputeAndLoad(w)
  \/ Commit(w) \/ Publish(w) \/ Ack(w)

HandleRequest(q) == Enqueue(q) \/ EnqueueFails(q)

Next ==
  \/ Tick
  \/ \E q \in Request : CommitReport(q) \/ HandleRequest(q)
  \/ \E w \in Worker : RunTask(w) \/ Fault(w) \/ Crash(w)

Spec == Init /\ [][Next]_vars

\* A worker that is up keeps working and a handler that has committed goes on;
\* nothing obliges users, clocks, crashes or exceptions to happen.
Fairness ==
  /\ \A w \in Worker : WF_vars(RunTask(w))
  /\ \A q \in Request : WF_vars(HandleRequest(q))

FairSpec == Spec /\ Fairness

-----------------------------------------------------------------------------
(* Properties *)

\* Every variable holds a value of its type.
TypeOK ==
  /\ clock \in Time
  /\ reports \subseteq Report
  /\ intake \in [Request -> IntakeState]
  /\ task \in [Request -> TaskState]
  /\ tries \in [Request -> 0..MaxRetries]
  /\ pc \in [Worker -> WorkerStep]
  /\ job \in [Worker -> Request \cup {Null}]
  /\ local \in [Worker -> Local]
  /\ row \in [Period -> Row]
  /\ event \in [Period -> Event \cup {Null}]
  /\ failures \in 0..MaxFailures
  /\ overtaken \subseteq Worker /\ raced \subseteq Period /\ misled \subseteq Period

\* The task of a report reads that report: a worker past its query has the report
\* of its own task in hand, unless it resolved another meal period or the report
\* has left the 15 minute window (".delay()" comes after the commit for this).
TaskSeesItsReport ==
  \A w \in Worker : pc[w] \in {"load", "commit", "publish", "ack"} =>
    \E r \in reports :
      /\ r.id = job[w]
      /\ (r.period = local[w].period /\ r.at >= clock - ReportWindow) => r \in local[w].read

\* Lunch reports never contaminate dinner, and no row counts what was not
\* committed: last_report_at is the time of a committed report of the row's own
\* period and reports_last_15m is at most their number, also when workers race.
NoContamination ==
  \A p \in Period :
    LET own == {r \in reports : r.period = p}
    IN  /\ row[p].last # Null => row[p].last \in {r.at : r \in own}
        /\ row[p].count <= Cardinality(own)

Coherent(x) ==
  /\ x.avg = Null <=> x.status \in {"NO_DATA", "FOOD_ENDED"}
  /\ x.avg # Null => 100 * StatusValue[x.status] - x.avg \in -50..50
  /\ x.count = 0 <=> x.last = Null
  /\ x.count = 0 => x.status = "NO_DATA"
  /\ x.status = "NO_DATA" => x.conf = 100
  /\ x.status = "FOOD_ENDED" => x.count >= FoodEndedQuorum

\* The five columns of a committed row belong together, they describe one list of
\* reports, unless the row was last written by a task that another had overtaken;
\* the next task that nobody overtakes makes a torn row whole again.
RowCoherent == \A p \in Period \ raced : Coherent(row[p])

\* avg_status_value is null when the status is NO_DATA or FOOD_ENDED
\* (src/app/models/queue_snapshot.py:73).
AvgNullWithoutMean ==
  \A p \in Period : row[p].status \in {"NO_DATA", "FOOD_ENDED"} => row[p].avg = Null

RowsOf(R, t) == {RowFor(R, o) : o \in ComputeStatus(R, t)}

\* the workers that have listed for each row, and those that have committed it
begun == [p \in Period |-> At(p, {"load", "commit"})]
written == [p \in Period |-> At(p, {"publish"})]

Board == INSTANCE StatusBoard WITH
           Blank <- NewRow, Rows <- RowsOf, News <- EventOf, board <- row, news <- event

\* The tasks of any number of workers implement the status board: the commit of a task
\* that nobody overtook shows one whole calculation over committed reports of its
\* period and never goes back to an older report, and its event tells what the row
\* shows; one that was overtaken spoils nothing but the columns of its own period, with
\* values of a calculation over committed reports of it.
ImplementsStatusBoard == Board!BoardSpec

\* no request and no task is left half done, and no task was given up
Settled ==
  /\ \A q \in Request : intake[q] \in {"open", "accepted"}
  /\ \A q \in Request : task[q] \in {"none", "done"}

\* no other meal has opened since the report was made
MealSince(r) == \A t \in r.at..clock : PeriodAt[t] \in {r.period, Closed}

\* When all work is done the row of the meal shows its newest report, if it is not
\* too old to count and the last writer was not overtaken: the task exists "to reflect
\* the new report" (queue_report_service.py:288).
SettledRowIsCurrent ==
  Settled =>
    \A r \in reports :
      clock - r.at <= ReportWindow /\ MealSince(r) /\ r.period \notin raced =>
        row[r.period].last # Null /\ row[r.period].last >= r.at

\* When all work is done the clients were told of the meal's reports, and the last
\* event they got tells what its row shows, if its publisher was not overtaken.
SettledEventIsRow ==
  Settled =>
    \A r \in reports :
      MealSince(r) /\ r.period \notin misled => event[r.period] = EventOf(row[r.period])

\* Every task the broker accepted comes to an end, whatever crashes on the way.
EveryTaskEnds ==
  \A q \in Request : task[q] = "ready" ~> task[q] \in {"done", "dropped"}

\* An accepted report shows in the row of its period at some time, unless it gets
\* too old first, its task is given up, another period has opened since or the row was
\* last written by a task that another had overtaken.
AcceptedIsReflected ==
  \A q \in Request :
    intake[q] = "accepted" ~>
      \/ task[q] = "dropped"
      \/ \E r \in reports :
           /\ r.id = q
           /\ \/ clock - r.at > ReportWindow
              \/ PeriodAt[clock] # r.period \/ r.period \in raced
              \/ row[r.period].last # Null /\ row[r.period].last >= r.at
=============================================================================
