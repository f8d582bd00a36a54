# monitoramento-ru in TLA+

The program tells students how long the queue of each university restaurant (RU) is.
Users report what they see, a background task turns the reports of the last minutes into
one status per restaurant and meal period, and every client is told over a WebSocket.
This directory models that program, checks the models with TLC on small instances, and
proves the properties that matter most with TLAPS for every value of the constants.

Paths below are relative to `src/app/` unless they start with `docs/`.

## 1. The system

```
  POST report                       Celery / Redis broker            Redis pub/sub
 ┌────────────┐ commit, .delay() ┌───────────────────────┐ publish ┌──────────────┐
 │ intake     │ ───────────────> │ snapshot task (worker)│ ──────> │ WebSocket hub│ ─> clients
 └────────────┘                  └───────────────────────┘         └──────────────┘
    │  ▲ cooldown                   │ reads reports  ▲ period
    ▼  │ period, row                ▼ writes the row │
 ┌──────────────── PostgreSQL ───────────────────────┴──────────────────────────────┐
 │ queue_reports   queue_snapshots   restaurants   schedules   schedule exceptions  │
 └──────────────────────────────────────────────────────────────────────────────────┘
```

### Components

| component | state it keeps | operations | what makes it correct |
|---|---|---|---|
| **Status algorithm** `services/snapshot_status_service.py:43-176` | none | `_compute_status`: adaptive window, FOOD_ENDED quorum, doubly weighted mean, rounding | total, status and average agree, stays between what was reported, monotone, recent reports weigh more, the quorum overrides and counts recent reports only |
| **Snapshot pipeline** `tasks/snapshot_tasks.py`, `services/snapshot_status_service.py:95-223`, `core/celery.py`, `services/websocket_service.py` | broker messages, `queue_snapshots` rows, published events | enqueue, take, resolve period, list, compute, load, commit, publish, ack, retry, redeliver | periods never mixed, columns of a row belong together and never go back to older reports unless tasks race, events tell the row, every accepted report is reflected |
| **Report intake** `services/queue_report_service.py` | `queue_reports`, counters | `create_queue_report` and its seven refusals | cooldown per device, stored reports are announced and only stored ones are accepted, the period was open near the report |
| **WebSocket hub** `core/websocket_manager.py`, `core/pubsub.py`, `api/v1/endpoints/websocket.py` | rooms, device → socket, socket → device, the Redis subscription | connect, disconnect, broadcast, listen and reconnect | indexes agree, the successor of a socket is never unregistered, broadcasts reach everybody, the listener comes back |
| **Meal calendar** `services/meal_period_service.py`, `core/utils.py` | none | `resolve`, `infer_meal_period`, `get_active_exception` | a resolved period is open and not closed, the exception shown explains the answer |
| **Schedule exceptions** `services/restaurant_schedule_exception_service.py` | `restaurant_schedule_exceptions` | POST, PATCH | one per period and date, valid rows |
| **Geo signature and geofence** `services/geo_signature_service.py`, `core/geo_utils.py` | none | HMAC, skew, distance | the skew is bounded |
| **Confidence score** `services/confidence_score_service.py` | none | one pure function | bounded, monotone in the evidence |
| **Restaurants** `services/restaurant_service.py` | `restaurants`, the two snapshot rows of each | create, read, PATCH | a restaurant has both its rows; names unique |
| **Regular schedules** `services/restaurant_schedule_service.py` | `restaurant_schedules` | create, PATCH | one per weekday and period |
| **Reading the status** `services/queue_snapshot_service.py` | none | `get_status`, `get_bulk_status` | what is shown belongs to the open period |
| **Seed** `core/seed.py`, `docker-compose.yml` | the rows it adds | `seed_restaurants` at each start of the container | it completes what is missing and changes nothing that is there |
| **Migrations** `migrations/versions/`, `migrations/env.py`, `scripts/start.sh` | `alembic_version`, the schema | `upgrade` and `downgrade` of nine revisions, by the container and by operators | the revision tells the schema, the newest one serves the models, the container gets there |
| Rate limiting, metrics, HTTP layer, client address, development seed, settings | counters outside the program, or none | | not modelled, see section 8 |

### What is hard about it

Everything that carries the program's promises runs concurrently, and none of it takes a
lock. API requests are coroutines of a process, each with a READ COMMITTED transaction of
its own; tasks run in worker processes with at-least-once delivery (`task_acks_late`,
`task_reject_on_worker_lost`, three retries); the hub is shared by coroutines that yield in
the middle of their updates. `PROJECT.json` lists every hazard at the line where it
bites. The main ones:

* **check then act**: the cooldown query and the INSERT (`queue_report_service.py:182`), the
  search for an existing exception and the INSERT, the validation of a loaded row and an
  UPDATE of only some of its columns;
* **racing recalculations**: two tasks of one restaurant list, compute and commit in any
  order; the ORM writes only the columns that changed against the row each loaded;
* **time**: the period is resolved at the client's timestamp when a report comes in and at
  the worker's clock when its task runs; `created_at` is the time of the BEGIN; a task's
  retry may fall into the next meal;
* **failures between two steps**: commit then `.delay()`, commit then publish, publish
  then ack;
* **mutation during iteration**: the broadcast awaits while it walks a live set;
* **rounding**: the status and the average come from one quotient but are rounded apart;
* **deployment**: the container migrates and seeds a database that is in use, whenever it starts;
  operators migrate beside it; the schema that runs is what the migrations made, not what the
  models declare.

## 2. Modules

| module | models | depends on |
|---|---|---|
| `SnapshotStatus` | the status algorithm as a function from a set of reports to the set of outcomes | |
| `StatusBoard` | **abstract**: what readers and subscribers may rely on | |
| `SnapshotPipeline` | report commit → broker → workers → row → event, one restaurant | extends `SnapshotStatus`, refines `StatusBoard` |
| `ReportLog` | **abstract**: what the reporting endpoint promises | |
| `ReportIntake` | the endpoint, request by request and await by await | refines `ReportLog` |
| `WebSocketHub` | one API process: sockets, manager, Redis listener | |
| `MealCalendar` | `resolve` and `get_active_exception` on the rows of one date | |
| `ScheduleExceptions` | concurrent POST and PATCH of the exceptions, read by the calendar | extends `MealCalendar` |
| `ConfidenceScore` | how much a report is trusted, as a function of its evidence and the row on display | extends `SnapshotStatus` |
| `ReportLists` | every list of reports, the result of the algorithm on it, and a new report that meets it | extends `ConfidenceScore` |
| `Administration` | concurrent requests on restaurants and regular schedules, and the reads of the status | extends `MealCalendar` |
| `Startup` | the container: the seed before the first request, the death of the process in the middle of them | extends `Administration` |
| `Migrations` | the nine revisions and the runs of alembic on one database | |
| `MC…` | instances for TLC: calendars, samples, symmetry | |
| `…_proofs` | theorems, for `SnapshotStatus`, `ReportLists` (with `ConfidenceScore`), `SnapshotPipeline`, `ReportIntake`, `WebSocketHub`, `ScheduleExceptions`, `Startup` (with `Administration`), `Migrations` | extend their modules and `TLAPS`; `SnapshotPipeline_proofs` and `ReportLists_proofs` extend `SnapshotStatus_proofs` |

Conventions. One action is everything between two points at which another process can run:
an await that does IO, a COMMIT, a message. The name of an action is the name of the code's
step. A definition named `X_Something` under "Faulty variant" is `X` with one plausible bug;
no specification uses it. It is there to show that each property would notice: with `X`
replaced by its variant the run of the property must fail (`PROJECT.json`, "mutants").
Variables marked *history* record what happened for the properties and guard nothing.

### SnapshotStatus

A report is `[status, at, conf]`; confidences and averages are hundredths, as the columns
store them. `Within`, `AdaptiveWindow`, `FoodEndedReports`, `ScorableReports`, `TemporalWeight` and
`ComputeStatus` are the methods of the same purpose. The code sums floats and rounds with `round()`
and `Decimal.quantize`. The model computes the exact fraction and returns **every** value that is
nearest to it: two where the fraction is a tie, where the last bit of a float sum decides;
the quorum's confidence is computed in `Decimal` and is exact (`HalfEven`). The three sums of the loop
are `SumFunction` over the selected reports.

### ConfidenceScore

`Evidence` is what a request says of its location: mocked or not, an accuracy or none, and whether a
coordinate ends in three zeros of six (the string test of `geo_utils.py:25` as a Boolean input).
`ConfidenceScore` subtracts the four penalties in hundredths, which is what the `Decimal` arithmetic
does, and stops at `MinConfidence`. `avg` is the average of the row as it is when the report comes
in: the row may be of the day before, since nothing ever clears it.

### ReportLists

The algorithm keeps no state; this module gives it one to be checked on. `AddReport` builds every list
of at most `MaxReports` reports from `Samples`, one at a time and never backwards, so that each multiset of
samples comes up once. Samples, the minute `Now` and the averages `Shown` on the row are constants:
`MCSnapshotStatus` gives them values around the edges of the windows, the proofs leave them open. It also closes
the loop: a new report is scored against a row (`NewReport`) and then enters the next calculation.

### SnapshotPipeline

`CommitReport` is the end of an accepted request (INSERT and COMMIT with the time of its BEGIN
and the period of its timestamp); `Enqueue` / `EnqueueFails` is `.delay()`. A worker runs `Take`,
`Resolve` or `ResolveClosed`, `ListReports`, `ComputeAndLoad`, `Commit`, `Publish`, `Ack`. `Fault` is any exception
of the database or Redis, with Celery's retry; `Crash` is the loss of the worker process and
the redelivery of its message. `Updated` is the ORM's UPDATE: the columns that differ from the
loaded row overwrite the table's, the others stay as the table has them now.

The whole of a retry (publish the message again with a countdown, acknowledge the old one) is
one step, and the countdown may be any time. A COMMIT whose answer is lost is a crash after
the commit; an exception at that point is not modelled apart from it. The event carries what
`SnapshotUpdatedEvent` has of a row, which is everything but its average (`EventOf`).

No task can notice that another one runs. The history variables record what the
properties need of it: a worker is in `overtaken` once another has committed the row since it
listed its reports, a period is in `raced` while its row was last written by such a worker, and in `misled` while
its last event is by one.

### StatusBoard

What readers and subscribers may rely on, without tasks, broker or retries: a worker begins, writes
the board of a period and tells what it shows. As long as nobody else has written the board since
it began, it shows the status of *one* list of stored reports of that period, calculated at one
time not after now, never goes back to an older report (`Refresh`), and the news repeat the board (`Tell`). A
worker that was overtaken may leave columns of two calculations of that period beside each other
(`Merge`) and stale news of it, and nothing else. `SnapshotPipeline` maps `board <- row`, `news <- event`, and the workers that
have listed or committed to `begun` and `written` (`Board`). Nothing is said of *which* list: that the newest report is in it is
`SettledRowIsCurrent`.

### ReportIntake and ReportLog

The steps of a request are those of `create_queue_report` in its order: `Lookup` (which begins
the transaction and so fixes `created_at`), `Validate` (device id, skew, HMAC), `CheckCooldown` (the
query, then the geofence without yielding), `ResolveMealPeriod` (at the client's timestamp),
`Insert`, `Commit`, `Enqueue` (`.delay()`, counter and 202 without yielding). `StoreFails` is the code's `except`
with its rollback: INSERT or COMMIT raises, and the exception becomes a 500. The COMMIT may have taken effect
all the same, its answer lost; then the row stays. `Abort` is any exception elsewhere or the death of the process.
`MaxSkew` is the tolerance of the timestamp, which `DEBUG` widens to a day. The verdicts of
HMAC and distance are inputs: no property depends on bytes or metres. The validations are
in the order of the code, which is not the order of its docstring (hours before geofence
at lines 97-115); the run's properties do not depend on it.

`ReportLog` promises what a client may rely on: a request stores nothing or one report,
which never changes; only a stored report is announced and accepted; a refusal left nothing
behind; a failure may have. `ReportIntake` implements it with `log <- reports`, `announced <- queue` and the
outcome mapped to pending / accepted / refused / failed.

### WebSocketHub

The endpoint of a socket runs `Connect` (until it awaits), `CloseOld` (after `old_ws.close()`),
`Accept` (after `accept()`), then `Disconnect` when `receive_text` raises `WebSocketDisconnect`, or `HandlerCrashes`
when it raises anything else. The listener runs `Subscribe`, `BeginBroadcast`, `NextSocket`, `Send`, `EndBroadcast`;
`IterationBreaks` is Python's RuntimeError when the size of the set changed under the
iteration, and `FallDown` what follows from it in `pubsub.py`: the subscription is left with
everything Redis sent it, and the loop reconnects. When a set has changed and then has its old
size again Python does not notice, and a rehash may put the position anywhere: `Accept` lets
any members count as visited.

Each API process has a hub of its own; they share nothing but the channel, so one is enough.

### MealCalendar and ScheduleExceptions

`Resolve(X, S, t)` is the set of answers of `resolve` for exceptions `X`, schedules `S` and time `t`:
more than one where the code takes "the first" row of a query without ORDER BY. `ActiveException` is
`get_active_exception` likewise. The queries of one call read one table state. `ScheduleExceptions` has each
administrative request in two steps, read and write. A PATCH may set any fields, also to
null, so the patched copy may be any exception; what is written is the columns that
differ from the loaded row, when the copy is valid and the constraints of the table hold.
(A PATCH that sets `exception_type` to null violates NOT NULL and ends in the rollback, like
every other refusal.)

### Administration

A request is a transaction with a step for every await: `BeginCreate` (the search for the name),
`Insert` (flush of the restaurant), `InsertRows` (flush of its two rows), `Commit`; `Lookup`, then
`CheckName` and `Update`, or `CheckDuplicate` and `InsertSchedule`, or `LoadSchedule` and
`UpdateSchedule`, or `ResolveStatus` and `ReadRow`; `BeginBulk`, `ResolveNext` for each restaurant,
`ReadRows`. `Rollback` is any exception or the death of the process at any of these points. Unique
keys count inactive rows, which the searches before them do not see, and a statement waits for a
transaction that holds an uncommitted row with the same key (`ClashesPending`). `Written` is the
ORM's UPDATE again. The flush and the commit of a schedule are one step: another request that meets
the uncommitted row waits, so it cannot tell. The `ASSUME` says that the tables the requests find
satisfy the constraints of the database. Coordinates, radius and the freshness of an answer are left
out.

### Startup

`Start` is `seed_restaurants`, one transaction before the first request: it adds the program's
restaurants whose *name* is not in the table, then a schedule for every weekday and period and a
snapshot row for every period that these restaurants lack, active or not. The keys of the
new rows are any free ones. A missing restaurant whose campus is taken raises IntegrityError; with
`set -e` the container exits, which is the same as not having started. `Crash` ends all requests
where they are; what they had not committed is gone. Nothing of the process survives it:
`request` is reset, and only the tables are there for the next start.

### Migrations

A migration is a record of what it creates and drops (tables, constraints, indexes, enum types and
the columns that some migration adds or retypes), which tables must be empty for it (a NOT NULL
column without default), and whether every constraint it drops has a name (`drop_constraint(None)`
raises). `Effect` and `Applies` are what PostgreSQL makes of it. A run of alembic begins by reading the
revision (`StartApi`, `StartCommand`), does one migration at a time (`Migrate`, whose first one waits
for another run's locks) and commits them together (`Commit`), since `env.py` opens one transaction
around `run_migrations`. `Overtaken` is alembic's own check that `alembic_version` still holds what the run
has read; on that or on any error of a migration the transaction is rolled back (`Fail`). `Die` is the
end of a process at any of these points, or while it serves. `Store` is whatever the API and the seed
write at the newest revision, restaurants first, because of the foreign keys.

## 3. Runs

`tlc -config <cfg> <module>` for each row. Passing runs finish in two to three minutes at most.

| run | instance | question it answers |
|---|---|---|
| `status` | all lists of up to 5 of 14 samples, thresholds of the source; all evidence | is the algorithm right on every list around the edges of its windows, and the weight it gives a new report? |
| `pipeline_parallel` | 2 requests, 2 workers, 1 failure, 4 ticks, lunch then dinner | when workers race across a change of meal and fail, what do rows and events still say, and when are they right again? |
| `pipeline_serial` | 2 requests, 1 worker, 1 failure, 4 ticks, lunch that ends | does every task end, and is every accepted report reflected? |
| `pipeline_torn_row` ✗ | 2 workers, 2 requests | do the columns of a row belong together when tasks race? |
| `intake_safety` | 2 requests of one device, 1 failure, 6 ticks | cooldown, period, counter and the contract `ReportLog` |
| `intake_cooldown_race` ✗ | 2 requests that overlap | does the cooldown hold for concurrent requests? |
| `hub` | 2 sockets of a device and 1 without, 1 message, 1 lost connection | do indexes and broadcasts survive every interleaving? does the listener return? |
| `hub_every_message` ✗ | 3 sockets without device | does every message reach everybody? |
| `administration` | 2 starts, 3 requests, 3 restaurants, names and campuses, 4 schedules of one weekday | do restaurants, rows and schedules stay consistent through requests, crashes and seeds, what alone tears a schedule, and do readers see every open restaurant? |
| `schedule_hours` ✗ | 2 requests, 2 restaurants, 2 schedules | does every schedule open before it closes? |
| `exceptions` | 2 administrators, 2 rows, 3 times of day | is every table right, and every answer the calendar gives on it? |
| `migrations` | the container and 1 operator, 3 commands to any revision, 2 deaths | does the revision tell the schema, and does the API come up? |

✗ marks the runs that TLC must find violated, because the code does something else than
its documentation says (section 6).

### What the properties say

*Status.* `CoherentOutcome`: always a result, a tie moves it by one unit at most, the average is
null exactly for NO_DATA and FOOD_ENDED and otherwise the status is its rounding, although both are
rounded apart. `Monotone`, `RecentWeighsMore`: the weighted mean is one, in the reports and in their
age. `QuorumDecides`: three recent FOOD_ENDED decide alone, fewer do not count (they do narrow the
adaptive window).

`EveryVoiceCounts`: a report of any score, added to any list, moves the mean towards what it says
and not past it, and where nothing was known it decides the status; a score of zero would silence it.
`GenuineOutweighsMock`: of the first two reports of a meal a mocked one
never decides against a genuine one, although both are scored against the row of an earlier
meal that may contradict the genuine one.

*Pipeline.* `TaskSeesItsReport`: commit before `.delay()` means the task finds its report.
`NoContamination`: a row counts and dates itself by committed reports of its own period. `RowCoherent`: the five
columns of a row describe one list of reports. `ImplementsStatusBoard` is the refinement: what one commit
shows, that it never goes back to an older report, and that the news repeat it. When nothing is left to do,
`SettledRowIsCurrent` and `SettledEventIsRow`: the row shows the newest report and the last event tells the row. All four
are checked with two workers that race, and they except what was written or published *last* by a
task that another had overtaken (`raced`, `misled`): such a task does leave torn columns, an older calculation or a stale
event behind, and nothing in the code repairs them before the next task (`pipeline_torn_row`). So the properties say that
nothing else does, not a crash, a redelivery, a late commit or a change of meal; that the
damage stays in the row of that period; and that the next task that nobody overtakes makes it whole.

`EveryTaskEnds` and `AcceptedIsReflected` are the liveness of it (the latter excepts reports whose period has ended when
their task runs, see section 6).

*Intake.* `SequentialCooldown`: a device that waits for its answer cannot beat the cooldown, however
long either request takes. `PeriodOpenNearReport`: the period stored was open within the tolerated
skew of the request. `CounterIsSound`: the counter never runs ahead of the table, also when steps
fail or a COMMIT loses its answer. `ImplementsReportLog`: the refinement.

*Hub.* `SuccessorStaysRegistered`: the late disconnect of a replaced socket does not unregister its
successor. `NoTraceAfterDisconnect`: whoever takes a socket out of the room, also a broadcast that found
it dead after its handler had crashed, takes it out of the other two indexes; its device may name it
only until the successor is accepted, and never after its own handler ran `disconnect`.
`UndisturbedBroadcastReachesAll`: exactly once to everybody, dead sockets notwithstanding. `ListenerReturns`.

*Exceptions.* `TypeOK` holds the table to its unique keys and CHECK. `ValidUnlessTorn`: a row is valid
unless a PATCH wrote over another PATCH since it was read. On every table that can be built, torn or
not: `ResolvedIsOpen` (an answer is open by an exception or a schedule, and not closed by an exception) and
`ActiveExceptionExplains`.

*Administration.* `RowsForEveryRestaurant`: nobody ever sees a restaurant without both rows or a row
without its restaurant. `OneSchedulePerSlot`: a restaurant has one schedule for a weekday and
period, although requests and seeds check it on what they read earlier. `DeactivationIsFinal`: no
PATCH, however late, writes an `is_active` back that another one has cleared. `OnlyRacesTearHours`:
hours fall out of order only where a PATCH writes over another that it has not seen; one request
alone never does it, nor the seed. `OneItemPerOpenRestaurant`: an answer has one item for each
restaurant found open, in the period it was found in, whatever is created, renamed or closed
meanwhile. `StartKeepsEdits`: the seed of a later start changes no row that is there, whatever
administrators renamed, moved or deactivated, and completes every restaurant of the program.

*Migrations.* `SchemaFollowsRevision`: whatever upgrades, downgrades, races and deaths led to a revision,
its tables are those that the upgrades alone would have made. `HeadServesTheModels`: at the newest
revision nothing is missing of what the models declare, with the one exception that `schedule_hours` is
about. `StuckOnlyAfterDowngrade`: nothing but a committed downgrade leads to a database that
does not upgrade, and `ApiComesUp` is the liveness that follows.

### Bounds, and why they are enough

* **Thresholds.** In the pipeline's instances windows and quorum are scaled down (a window of
  2 ticks, a quorum of 1 or 2) so that two reports and four ticks reach every branch: window
  exceeded, quorum met and not, mean. The `status` run has the real thresholds; the two meet in
  `ComputeStatus`, which is the same operator. The proofs hold for all thresholds.
* **Requests and workers.** Every race of the code is between two actors; a third request adds a
  third copy of a race, and the theorems of section 5 cover any number.
* **Samples.** Ages 1, 5, 10 and 15 are the last minute of each weight, 6 and 11 the first of the
  next; confidences 35, 55 and 100; five reports reach the quorum of three with two more
  and both count thresholds (3 and 5) of the adaptive window.
* **Clock.** Four to six ticks reach past every window, cooldown and period of the instance.
  After `MaxTime` the clock stops; liveness is judged as if time stood still there, which is the
  harder case for `EveryTaskEnds` and cannot make `AcceptedIsReflected` easier.
* **Failures.** One or two, all kinds together. `MaxRetries` is 1 in the instances; the code has 3.
* **Hub.** Three sockets give a replaced socket, its successor and a bystander.
* **Administration.** Three requests are a writer, its rival and a reader. There are two restaurants at
  first, one of the program's and one that is not, and a third name, campus and key to create or
  rename with. The first seed adds a dinner, so that all slots of the program's restaurant are
  taken from then on, as they are in the deployment; the other restaurant's are free. One
  weekday is enough, as a slot is only ever compared as a whole. The second start meets whatever
  the requests did after the first.
* **Migrations.** Three commands are a downgrade, an upgrade and another run beside them; one operator
  and the container give the race of two runs, and each waits for at most one other. The
  targets are all ten revisions, so every pair of neighbours is crossed in both directions.
* **Evidence.** The accuracies are none, 0, one below 20 m, both ends of 20–50 m and one above;
  the averages shown are none, the two ends and the middle, at distances around 1.5 and 2.
* **Symmetry** of requests, workers, administrators and rows is used only in runs without liveness. That is
  also why `pipeline_serial` has one worker: without symmetry two workers and their liveness are beyond TLC's
  time. What a second worker adds, updates that are lost to a race, is what `AcceptedIsReflected` would except anyway
  (`raced`) and what the safety properties of `pipeline_parallel` are about.
* `CHECK_DEADLOCK FALSE` everywhere: each instance may come to rest when its requests are
  served and its clock has stopped, which is no fault.

## 4. Fairness

Liveness is checked under weak fairness of what the code's schedulers do on their own:

* pipeline: a worker that is up goes on with the step it can take and takes tasks while there
  are any (Celery's consumer loop); a handler that has committed goes on to `.delay()` (the event
  loop). Nothing obliges users, the clock, crashes or exceptions to happen, and failures are finite,
  by their bound;
* hub: the event loop runs what is ready: the listener and the handlers that wait for `close`,
  `accept` or a disconnect. Clients are not obliged to connect or leave, and nothing obliges
  Redis to publish;
* migrations: the container starts again when it is down (`restart: unless-stopped`), and a run of
  alembic that waits for nobody goes on. A run that waits for locks is served when the other
  has ended. Operators are obliged to nothing, and deaths are finite by their bound.

## 5. Proofs

`tlapm <module>.tla` for each of the eight modules of proofs; all obligations are discharged by Z3,
Zenon and LS4. Every invariant and action property that a passing run checks, and every refinement, is stated
by a theorem, and no theorem about a specification has a hypothesis beyond the ASSUMEs of the modules.

### How sums are proved about

The algorithm sums over a set of reports, and the provers can neither unfold a recursion on data nor
use an induction theorem that takes a predicate as a parameter. `SnapshotStatus_proofs` proves what it needs of
`SumFunction` by a minimal counterexample: of all finite sets on which a statement fails there is one of least
cardinality, it is not empty, and without one of its members it would still fail. From the sum of a set and
one more member follow sums that change in one member, bounds of a sum by those of its terms, and the
comparison of two weighted means by cross multiplication. `Nearest` then turns a comparison of fractions into
one of their roundings, ties included.

### Theorems

| theorem | says, for every value of the constants | argument |
|---|---|---|
| `SnapshotStatus_proofs!OutcomesDescribed` | for any reports, thresholds and time: there is an outcome; its average is null exactly for NO_DATA and FOOD_ENDED and else within half a level of the status; ties move it by one unit at most | a mean of levels is between the lowest and the highest; both roundings are nearest to one fraction |
| `RaisingRaises`, `RecencyCounts` | raising a report, or giving the higher of two values to the more recent report, never lowers the average | only the sum of values changes, by the difference of the terms (`ReplacedSums`); weights fall with age |
| `FirstVoiceShows` | a report that is the first in its window gives the row its own status | a mean of one report is its value, whatever its weight, as long as that is not zero |
| `VoiceCounts` | one more report moves the average towards its level and never past it, while the adaptive window stays | the new mean lies between the old one and the new value, and so do their roundings |
| `TrustedVoiceWins` | of two reports of one minute the average is never nearer to the one with the lower confidence | equal weights of age cancel |
| `ReportLists_proofs!OutcomesAreCoherent`, `AverageIsMonotone`, `RecentReportsWeighMore`, `QuorumsDecide`, `EveryVoiceIsHeard`, `GenuineReportsWin` | `[]CoherentOutcome`, `[]Monotone`, `[]RecentWeighsMore`, `[]QuorumDecides`, `[]EveryVoiceCounts`, `[]GenuineOutweighsMock`, on lists of any length over any samples | the list always consists of samples, hence is a finite set of reports, to which the theorems above apply; `QuorumDecides` from the definitions, the quorum among itself being the whole of its window; `ScoreIsPositive` and `MockNeverOutranksGenuine` for the last two |
| `ScoreIsPositive` | the score is in the column's range and not zero | bounds of the penalties |
| `MockNeverOutranksGenuine` | a mocked report never scores above a genuine one | 100 − 80 = 100 − (30 + 25 + 25): the worst genuine report still ties with the best mocked one |
| `SnapshotPipeline_proofs!TypeCorrect` | `[]TypeOK` | the outcomes of the algorithm are typed whatever the sums are (`OutcomesTyped`); what a worker has read is a set of committed, hence finitely bounded times (`ReadIsCommitted`, `MaxOfTimes`) |
| `TasksSeeTheirReports` | `[]TaskSeesItsReport` | strengthened by `StoredInv`: a request past "open" has its report stored, and `ReportInHand` for each step of a worker |
| `PeriodsStayApart` | `[]NoContamination` | strengthened by `OwnInv`: what each worker has read, loaded and computed obeys the same bound as the rows; an UPDATE that mixes columns of two calculations mixes two bounded ones, and the bound only grows |
| `RowsAreCoherent` | `[]RowCoherent` | `ComputedInv`: what each worker carries is the row of one list at one time; `RaceInv`: what a worker that nobody overtook has loaded is still the row when it commits, so the changed columns make it the whole calculation (`WholeUpdate`, `CommitWrites`) |
| `TasksImplementStatusBoard` | `Spec => ImplementsStatusBoard` | step simulation (`StepImplements`): `CommitReport` is `Post`, `ListReports` is `Begin`, `Commit` is `Refresh` or, overtaken, `Merge` (`UpdatedMixes`), `Publish` is `Tell`, a failure is `GiveUp`; in `RaceInv`, `Carried` says that what a worker has read is not older than the row it is meant for: the report that dates the row is still in a later list, or too old for it together with everything before it (`ListNotOlder`) |
| `SettledRowsAreCurrent` | `[]SettledRowIsCurrent` | `CurrentInv`: a report whose task has committed is shown or too old to count, and a worker that nobody overtook has listed its own task's report and every such report of its period (`InHand`), for their commits would have overtaken it |
| `SettledEventsAreRows` | `[]SettledEventIsRow` | `EventInv`: where the event does not tell the row, a task is still ahead of publishing it, waits at the broker or was given up |
| `ReportIntake_proofs!TypeCorrect` | `[]TypeOK` | with `FormInv`: past validation a form has a device, past resolution a period |
| `SequentialCooldownHolds` | `[]SequentialCooldown` | strengthened by `OnceInv` (one report per request, only past its commit) and `CoolInv`: who has been accepted before a request began was visible to its cooldown query |
| `EndpointImplementsReportLog` | `Spec => ImplementsReportLog` | step simulation: each action is a step of `ReportLog` or changes nothing of it, using `OnceInv` |
| `PeriodIsOpenNearReport` | `[]PeriodOpenNearReport` | strengthened by `PeriodInv`: the form keeps the timestamp whose skew was validated, and a form past resolution has a period of a time within it |
| `CounterStaysSound` | `[]CounterIsSound` | strengthened by `CountInv`: the counter is the number of announced requests, all of them accepted; with `OnceInv` they inject into the stored reports, a finite set |
| `WebSocketHub_proofs!TypeCorrect`, `DisconnectLeavesNoTrace`, `SuccessorIsKept` | `[]TypeOK`, `[]NoTraceAfterDisconnect`, `[]SuccessorStaysRegistered` | `IndexesAgree`: the indexes hold accepted sockets only, each under its own device, and the latest socket of a device is registered as long as it is in the room; `TraceInv`: the reverse index is exactly that of the room's members, and a device names a socket outside it only while its successor is between the two awaits |
| `BroadcastReachesAll` | `[]UndisturbedBroadcastReachesAll` | `BroadcastInv`: messages are handled in the order of their publication (`InOrder`), and in an undisturbed broadcast the visited sockets have the message once, the others not yet (`Progress`) |
| `ScheduleExceptions_proofs!TypeCorrect`, `RowsAreValid` | `[]TypeOK`, `[]ValidUnlessTorn` | `RequestInv`: a POST carries a valid exception, a PATCH the key of a row that exists; validation is of the copy that was read, so the row it is merged into matters only if it was written over |
| `ResolvedPeriodsAreOpen`, `ShownExceptionExplains` | `[]ResolvedIsOpen`, `[]ActiveExceptionExplains` | from the definitions of the calendar for any table of the right type (`CandidateRow`, `ResolveOutcome`) |
| `Migrations_proofs!TypeCorrect`, `RevisionTellsTheSchema` | `[]TypeOK`, `[]SchemaFollowsRevision` | induction over the steps of a run: a draft is to its revision what the schema is to the committed one; `Overtaken` makes the committed one the one that was read |
| `OnlyDowngradesStrand` | `[]StuckOnlyAfterDowngrade` | without a downgrade the schema is exactly `SchemaAt(revision)`, and tables get rows only at the newest revision |
| `HeadServes` | `[]HeadServesTheModels` | the schema at the newest revision is what the nine upgrades made and no later one dropped; table by table the models' objects are among it, but for the CHECK (`CheckIsNotMade`) |
| `Startup_proofs!Inductive` | `[]IInv`, from which the next four follow | `IInv` adds to the types and the tables `RequestsInv`, what each request knows and may rely on later (a key that was found stays stored, what it loaded was active, what the bulk request found open has its rows), and `FreshKeys`: the key of an uncommitted restaurant is nobody else's |
| `TypeCorrect`, `RowsComeWithRestaurants`, `SlotsStaySingle`, `ReadersShowEveryRestaurant` | `[]TypeOK`, `[]RowsForEveryRestaurant`, `[]OneSchedulePerSlot`, `[]OneItemPerOpenRestaurant` | `RequestStep` covers every action that leaves the tables alone, `WriteStep` the four that write |
| `DeactivationHolds` | `DeactivationIsFinal` | each step satisfies it in a state of `IInv` |
| `HoursTearInRacesOnly` | `OnlyRacesTearHours`, an action property | a PATCH whose copy is still the stored schedule writes what it has validated, column by column (`OneTorn`, `StepTearsInRaces`) |
| `TablesSurviveRestarts`, `ReadersAfterRestarts`, `DeactivationSurvivesRestarts` | the same of the container's whole life | `IInv` again: `Start` adds rows that clash with none, and while the process is down no request is in flight, which is the strengthening (`Idle`); `Crash` ends the requests that `RequestsInv` is about |
| `RestartsKeepEdits` | `StartKeepsEdits` | `Inserted` changes no stored row, and every slot is either found or added |

The assumptions are the named ASSUMEs of the modules: naturals for bounds and windows in their order,
a quorum of at least one, a calendar that is a function of time, and initial tables that satisfy
the constraints of the database. Apart from these nothing is assumed; in
particular thresholds, the number of workers, requests, devices and failures are arbitrary.
`ChainAssumption` of `Migrations` is not about parameters: it says of the nine literal migrations that each
applies after the one before it and that downgrades which can run undo them, which TLC evaluates
on every run and the provers would only be slow to.

Only model-checked is liveness, since TLAPS does no fairness: `EveryTaskEnds`, `AcceptedIsReflected`,
`ListenerReturns`, `ApiComesUp`.

## 6. Where code and documentation part

Each has a run that TLC must find violated, and a finding in `PROJECT.json` with the lines.

1. Racing tasks leave FOOD_ENDED or NO_DATA with an average, which the column's comment
   excludes (`pipeline_torn_row`).
2. Two requests of one device that overlap both pass the cooldown (`intake_cooldown_race`).
3. A connect or disconnect during a broadcast ends it for the remaining sockets and drops the
   subscription (`hub_every_message`).
4. Two PATCHes of one schedule, one of `opens_at` and one of `closes_at`, store hours out of order: the
   model declares a CHECK against it that no migration creates (`schedule_hours`).

Seen while modelling, without a run of its own:

* a task recalculates the period that is open *when it runs*: a report whose task runs after its meal
  never reaches its own row. `AcceptedIsReflected` has a disjunct for it;
* the regular hours still serve a period whose CUSTOM_HOURS do not cover the time, the second
  disjunct of `ResolvedIsOpen`;
* a downgrade cannot be relied on: those of `cd805f5ee0b0` and `d19530b9a7c9` drop a constraint without a name and
  raise; those that drop tables leave their enum types behind, so that the upgrade raises on
  the way back; and `fb141e074154` adds a NOT NULL column without default, so that the way back fails when
  there are reports. Hence "only after a downgrade" in `StuckOnlyAfterDowngrade` and `ApiComesUp`;
* an administrator who renames a restaurant of the program keeps its campus. The next seed misses the
  name, inserts it again with the same campus, and raises: the container does not start again
  until somebody undoes the rename. `Start` has the guard; no liveness is stated for it;
* two connects of one device that overlap while the old socket is being closed are both left in
  the room, against the comment "1 conexão por dispositivo" (`core/websocket_manager.py:15`): each reads the
  same old socket and registers its own after two awaits. The model has these behaviours, and
  `SuccessorStaysRegistered` is stated for them;
* `docs/queue-report-validations.md:136` gives −0.50 for round coordinates, `confidence_score_service.py:16` −0.25. With
  the documented penalty a genuine report could score below a mocked one;
* the docstring's order of the validations (`queue_report_service.py:97`, `:115`);
* a whole-day exception next to one of a period, which `models/restaurant.py:214` excludes and nothing
  prevents;
* `get_active_exception` shows the first closed period of the date, whichever was asked for
  (`meal_period_service.py:94`), which is why `ActiveExceptionExplains` asks only for *a* closure;
* a torn PATCH leaves CUSTOM_HOURS without hours (`models/restaurant.py:211`, hence "unless torn");
* FOOD_ENDED stays on a row until the next report, a limitation that `docs/snapshot-status-spec.md` states
  itself;
* a deactivated restaurant or schedule cannot be activated again through the API, and its name,
  campus or slot stays taken: `get_by_public_id` and the searches see active rows only
  (`repositories/restaurant_repository.py:27`), the unique keys all of them. `DeactivationIsFinal` states the first half.

## 7. Plan

What is done, in the order it was planned: the status algorithm, the pipeline, the intake with
its abstract log, the hub, the calendar with the exceptions, the confidence score, the
administration with the reads, the proofs for hub, exceptions and intake, the container with its
seed, the migrations, the abstract status board and the proofs about sums. What could still be added:

1. **Calendar queries apart**: `resolve` reads the exceptions and then the schedules in two statements, and
   `get_active_exception` reads again; a PATCH in between can explain an answer by another table than the
   one it came from.
2. **Freshness** of what `get_status` shows, with the clock of the pipeline.

## 8. Not modelled

* **Rate limiting**: the source chooses keys and limits, slowapi counts in Redis.
* **Metrics**: counters that nothing reads back; the one of created reports is in `ReportIntake`.
* **HTTP routing, authentication and exception handlers**: they keep no state.
* **Client address** (`services/ip_service.py`): parsed, hashed and stored; decides nothing.
* **HMAC bytes and haversine distance**: their verdicts are inputs of `Validate`.
* **Development seed** (`core/seed_dev.py`): run by `scripts/start-dev.sh` only. It adds random reports of the last 14 minutes
  to a developer's database and writes the snapshots they give, before the program serves anybody.
* **Settings, logging**: configuration. What the engine's settings fix about transactions and sessions
  is in the actions of the modules.
* **`DebugMealPeriodService`**: always LUNCH, for development; `DEBUG` itself is a constant of the intake.
