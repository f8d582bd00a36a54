---------------------------- MODULE ReportIntake ----------------------------
(***************************************************************************)
(* POST /restaurants/{id}/reports of one restaurant                        *)
(* (QueueReportService.create_queue_report): requests run concurrently,    *)
(* each in a database transaction of its own (READ COMMITTED), and yield   *)
(* at every await.  The steps are in the order of the code.                *)
(***************************************************************************)
EXTENDS Integers, FiniteSets

CONSTANTS
  Request, Device,
  NoDevice,      \* a request without X-Device-ID
  Cooldown,      \* QUEUE_REPORT_COOLDOWN_MINUTES
  ClockSkew,     \* GEO_SIGNATURE_MAX_SKEW_SECONDS
  DebugSkew,     \* the 86400 seconds that replace it under settings.DEBUG
  Debug,         \* settings.DEBUG
  PeriodAt,      \* what MealPeriodService resolves at each time
  MaxTime,       \* the clock stops here (bound)
  MaxFailures    \* crashes and exceptions, all together (bound)

Period == {"LUNCH", "DINNER"}
Closed == "CLOSED"
Time == 0..MaxTime
Never == -1

ASSUME IntakeAssumption ==
  /\ {MaxTime, MaxFailures, Cooldown, ClockSkew, DebugSkew} \subseteq Nat
  /\ Debug \in BOOLEAN
  /\ NoDevice \notin Device
  /\ PeriodAt \in [Time -> Period \cup {Closed}]

Report == [id : Request, device : Device, at : Time, period : Period]

VARIABLES
  clock,
  active,      \* Restaurant.is_active
  reports,     \* committed rows of queue_reports
  queue,       \* requests whose task was handed to the broker
  created,     \* the counter queue_reports_created_total
  pc,          \* where each request is in create_queue_report
  form,        \* what the handler of each request knows
  outcome,     \* how each request ended
  failures,
  checkedAt,   \* history: when the cooldown of each request was checked
  before       \* history: the requests accepted when each request began

vars == <<clock, active, reports, queue, created, pc, form, outcome, failures,
          checkedAt, before>>

Step == {"new", "validate", "cooldown", "resolve", "insert", "commit", "enqueue", "end"}

Refusal == {"restaurant_not_found", "missing_device_id", "expired_geo_signature",
            "invalid_geo_signature", "cooldown", "outside_geofence",
            "outside_meal_hours"}
Failure == {"other", "server_error"}
Outcome == Refusal \cup Failure \cup {"none", "accepted"}

Form == [device : Device \cup {NoDevice}, begun : Time, geo : Time, inside : BOOLEAN,
         period : Period \cup {Closed}]
EmptyForm == [device |-> NoDevice, begun |-> 0, geo |-> 0, inside |-> TRUE,
              period |-> Closed]

Init ==
  /\ clock = 0
  /\ active = TRUE
  /\ reports = {}
  /\ queue = {}
  /\ created = 0
  /\ pc = [q \in Request |-> "new"]
  /\ form = [q \in Request |-> EmptyForm]
  /\ outcome = [q \in Request |-> "none"]
  /\ failures = 0
  /\ checkedAt = [q \in Request |-> Never]
  /\ before = [q \in Request |-> {}]

Tick ==
  /\ clock < MaxTime
  /\ clock' = clock + 1
  /\ UNCHANGED <<active, reports, queue, created, pc, form, outcome, failures,
                 checkedAt, before>>

\* PATCH is_active = false; the lookup of the PATCH itself sees only active
\* restaurants, so nothing sets it back
Deactivate ==
  /\ active
  /\ active' = FALSE
  /\ UNCHANGED <<clock, reports, queue, created, pc, form, outcome, failures,
                 checkedAt, before>>

-----------------------------------------------------------------------------
End(q, o) ==
  /\ pc' = [pc EXCEPT ![q] = "end"]
  /\ outcome' = [outcome EXCEPT ![q] = o]

Refuse(q, o) == End(q, o) /\ UNCHANGED form

GoTo(q, step) ==
  /\ pc' = [pc EXCEPT ![q] = step]
  /\ UNCHANGED outcome

Accepted == {q \in Request : outcome[q] = "accepted"}

Skew(geo) == IF geo <= clock THEN clock - geo ELSE geo - clock

\* The lookup is the first statement of the transaction: it fixes created_at.
Lookup(q) ==
  /\ pc[q] = "new"
  /\ \/ ~ active /\ Refuse(q, "restaurant_not_found")
     \/ /\ active
        /\ form' = [form EXCEPT ![q].begun = clock]
        /\ GoTo(q, "validate")
  /\ before' = [before EXCEPT ![q] = Accepted]
  /\ UNCHANGED <<clock, active, reports, queue, created, failures, checkedAt>>

MaxSkew == IF Debug THEN DebugSkew ELSE ClockSkew

\* GeoSignatureService.validate: the skew first, then the HMAC of the payload
GeoVerdict(geo, signed) ==
  IF Skew(geo) > MaxSkew THEN "expired_geo_signature"
  ELSE IF signed THEN "valid" ELSE "invalid_geo_signature"

\* Device id and geo signature, without yielding.
Validate(q) ==
  /\ pc[q] = "validate"
  /\ \E d \in Device \cup {NoDevice}, geo \in Time, inside \in BOOLEAN, signed \in BOOLEAN :
       \/ d = NoDevice /\ Refuse(q, "missing_device_id")
       \/ /\ d # NoDevice /\ GeoVerdict(geo, signed) \in Refusal
          /\ Refuse(q, GeoVerdict(geo, signed))
       \/ /\ d # NoDevice /\ GeoVerdict(geo, signed) = "valid"
          /\ form' = [form EXCEPT ![q].device = d, ![q].geo = geo, ![q].inside = inside]
          /\ GoTo(q, "cooldown")
  /\ UNCHANGED <<clock, active, reports, queue, created, failures, checkedAt, before>>

\* Faulty variant: the cutoff is exclusive.
RecentOf_Exclusive(d) == {r \in reports : r.device = d /\ r.at > clock - Cooldown}

\* get_last_by_device_hash_within_minutes: committed reports only
RecentOf(d) == {r \in reports : r.device = d /\ r.at >= clock - Cooldown}

\* The cooldown query, then the geofence without yielding.
CheckCooldown(q) ==
  /\ pc[q] = "cooldown"
  /\ \/ RecentOf(form[q].device) # {} /\ End(q, "cooldown")
     \/ /\ RecentOf(form[q].device) = {}
        /\ ~ form[q].inside /\ ~ Debug
        /\ End(q, "outside_geofence")
     \/ /\ RecentOf(form[q].device) = {}
        /\ form[q].inside \/ Debug
        /\ GoTo(q, "resolve")
  /\ checkedAt' = [checkedAt EXCEPT ![q] = clock]
  /\ UNCHANGED <<clock, active, reports, queue, created, form, failures, before>>

\* Faulty variant: the period is resolved at the server's clock.
ResolveMealPeriod_Now(q) ==
  /\ pc[q] = "resolve"
  /\ LET p == PeriodAt[clock]
     IN  \/ p = Closed /\ Refuse(q, "outside_meal_hours")
         \/ /\ p # Closed
            /\ form' = [form EXCEPT ![q].period = p]
            /\ GoTo(q, "insert")
  /\ UNCHANGED <<clock, active, reports, queue, created, failures, checkedAt, before>>

\* Faulty variant: nothing raises outside meal hours.
ResolveMealPeriod_Unchecked(q) ==
  /\ pc[q] = "resolve"
  /\ form' = [form EXCEPT ![q].period = PeriodAt[form[q].geo]]
  /\ GoTo(q, "insert")
  /\ UNCHANGED <<clock, active, reports, queue, created, failures, checkedAt, before>>

\* The meal period at the client's geo_timestamp; the snapshot is read for the
\* confidence score, which nothing here depends on.
ResolveMealPeriod(q) ==
  /\ pc[q] = "resolve"
  /\ LET p == PeriodAt[form[q].geo]
     IN  \/ /\ p = Closed
            /\ Refuse(q, "outside_meal_hours")
         \/ /\ p # Closed
            /\ form' = [form EXCEPT ![q].period = p]
            /\ GoTo(q, "insert")
  /\ UNCHANGED <<clock, active, reports, queue, created, failures, checkedAt, before>>

\* Faulty variant: the task is enqueued before the commit.
Insert_EarlyEnqueue(q) ==
  /\ pc[q] = "insert"
  /\ queue' = queue \cup {q}
  /\ created' = created + 1
  /\ GoTo(q, "commit")
  /\ UNCHANGED <<clock, active, reports, form, failures, checkedAt, before>>

Insert(q) ==
  /\ pc[q] = "insert"
  /\ GoTo(q, "commit")
  /\ UNCHANGED <<clock, active, reports, queue, created, form, failures, checkedAt, before>>

Commit(q) ==
  /\ pc[q] = "commit"
  /\ reports' = reports \cup
       {[id |-> q, device |-> form[q].device, at |-> form[q].begun, period |-> form[q].period]}
  /\ GoTo(q, "enqueue")
  /\ UNCHANGED <<clock, active, queue, created, form, failures, checkedAt, before>>

\* Faulty variant: the counter is incremented on failure too.
StoreFails_Counted(q) ==
  /\ pc[q] \in {"insert", "commit", "enqueue"}
  /\ failures < MaxFailures
  /\ failures' = failures + 1
  /\ created' = created + 1
  /\ End(q, "other")
  /\ UNCHANGED <<clock, active, reports, queue, form, checkedAt, before>>

\* INSERT or COMMIT raises: rollback, and the exception goes on to a 500.  At
\* "enqueue" the COMMIT took effect and only its answer was lost: the row stays.
StoreFails(q) ==
  /\ pc[q] \in {"insert", "commit", "enqueue"}
  /\ failures < MaxFailures
  /\ failures' = failures + 1
  /\ End(q, "other")
  /\ UNCHANGED <<clock, active, reports, queue, created, form, checkedAt, before>>

\* .delay(), the counters and the 202, without yielding
Enqueue(q) ==
  /\ pc[q] = "enqueue"
  /\ queue' = queue \cup {q}
  /\ created' = created + 1
  /\ End(q, "accepted")
  /\ UNCHANGED <<clock, active, reports, form, failures, checkedAt, before>>

\* An exception outside the try block (a query or .delay() raises), or the death of
\* the process: nothing is undone or counted.
Abort(q) ==
  /\ pc[q] \notin {"new", "end"}
  /\ failures < MaxFailures
  /\ failures' = failures + 1
  /\ End(q, "server_error")
  /\ UNCHANGED <<clock, active, reports, queue, created, form, checkedAt, before>>

Handle(q) ==
  \/ Validate(q) \/ CheckCooldown(q) \/ ResolveMealPeriod(q) \/ Insert(q) \/ Commit(q)
  \/ Enqueue(q)

Next ==
  \/ Tick \/ Deactivate
  \/ \E q \in Request : Lookup(q) \/ Handle(q) \/ StoreFails(q) \/ Abort(q)

Spec == Init /\ [][Next]_vars

-----------------------------------------------------------------------------
(* Properties *)

\* Every variable holds a value of its type.
TypeOK ==
  /\ clock \in Time
  /\ active \in BOOLEAN
  /\ reports \subseteq Report
  /\ queue \subseteq Request
  /\ created \in Nat
  /\ pc \in [Request -> Step]
  /\ form \in [Request -> Form]
  /\ outcome \in [Request -> Outcome]
  /\ failures \in 0..MaxFailures
  /\ checkedAt \in [Request -> Time \cup {Never}]
  /\ before \in [Request -> SUBSET Request]

\* A device that waits for its 202 before it sends again cannot beat the cooldown:
\* a report that began after an accepted one of the same device was checked more
\* than Cooldown minutes after that one's created_at.
SequentialCooldown ==
  \A a, b \in reports :
    a.device = b.device /\ a.id \in before[b.id] => checkedAt[b.id] - a.at > Cooldown

\* "Prevents the same device from sending more than one report every
\* QUEUE_REPORT_COOLDOWN_MINUTES" (queue_report_service.py:90), "works with several
\* workers" (docs/queue-report-validations.md:60).
OneReportPerCooldown ==
  \A a, b \in reports : a.device = b.device /\ a # b => a.at - b.at \notin -Cooldown..Cooldown

\* The period of a report was open when its user may have been there: at some time
\* between MaxSkew before created_at and MaxSkew after the cooldown was checked,
\* however long the handler took to store it.
PeriodOpenNearReport ==
  \A r \in reports :
    \E t \in (r.at - MaxSkew)..(checkedAt[r.id] + MaxSkew) \cap Time :
      PeriodAt[t] = r.period

\* The counter of accepted and persisted reports never runs ahead of the table and
\* agrees with the tasks the broker got.
CounterIsSound == created = Cardinality(queue) /\ created <= Cardinality(reports)

\* The endpoint implements the report log.
logAnswer ==
  [q \in Request |->
     CASE outcome[q] = "none" -> "pending"
       [] outcome[q] = "accepted" -> "accepted"
       [] outcome[q] \in Failure -> "failed"
       [] OTHER -> "refused"]

Log == INSTANCE ReportLog WITH Stored <- Report, log <- reports, announced <- queue,
                               answer <- logAnswer

ImplementsReportLog == Log!LogSpec
=============================================================================
