----------------------------- MODULE Migrations -----------------------------
(***************************************************************************)
(* The schema of the database, as Alembic changes it.  The container of    *)
(* the API upgrades it to the newest revision whenever it starts           *)
(* (start.sh), operators run upgrades and downgrades of their own beside   *)
(* it.  A run is one transaction: env.py does not ask for one transaction  *)
(* per migration, and PostgreSQL's DDL is transactional.                   *)
(*                                                                         *)
(* An object of the schema is a pair <<table, name>>: the table itself, a  *)
(* constraint, an index or a column that some migration adds or retypes;   *)
(* an enum type is <<"type", name>>.                                       *)
(***************************************************************************)
EXTENDS Integers

CONSTANTS
  Operator,        \* people who run alembic by hand
  MaxCommands,     \* runs that operators begin (bound)
  MaxFaults,       \* deaths of a process (bound)
  None             \* nobody has uncommitted changes

Object(table, names) == {table} \X names
Type(name) == <<"type", name>>
Table(t) == <<t, "table">>

\* A migration creates and drops objects; "empty": tables that may not have rows, since
\* they get a NOT NULL column without a default; "named": no constraint is dropped
\* without its name, which raises.
Creates(objects) == [creates |-> objects, drops |-> {}, empty |-> {}, named |-> TRUE]
Drops(objects) == [creates |-> {}, drops |-> objects, empty |-> {}, named |-> TRUE]
DropsUnnamed == [Drops({}) EXCEPT !.named = FALSE]

-----------------------------------------------------------------------------
(* The nine migrations *)

Naive == {"created_at timestamp", "updated_at timestamp"}
Aware == {"created_at timestamptz", "updated_at timestamptz"}

upgrade_22032af4fdb4 ==
  Creates(Object("restaurants", {"table", "name key", "ix_restaurants_public_id"} \cup Naive)
          \cup {Type("campus_enum")})

\* dropping a table drops its columns, constraints and indexes, and no type
downgrade_22032af4fdb4 ==
  Drops(Object("restaurants", {"ix_restaurants_public_id", "table"}))

upgrade_cd805f5ee0b0 == Creates(Object("restaurants", {"campus key"}))

downgrade_cd805f5ee0b0 == DropsUnnamed

upgrade_421af47ff4a4 ==
  Creates(Object("restaurant_schedules",
                 {"table", "ck_weekday_between_0_and_5", "ru_id fkey", "uq_restaurant_schedule",
                  "ix_restaurant_schedule_lookup"} \cup Naive)
          \cup {Type("meal_period_enum")})

downgrade_421af47ff4a4 ==
  Drops(Object("restaurant_schedules", {"ix_restaurant_schedule_lookup", "table"}))

upgrade_b9d7afa92f13 ==
  [Creates(Object("restaurant_schedules", {"public_id", "ix_restaurant_schedules_public_id"}))
     EXCEPT !.empty = {"restaurant_schedules"}]

downgrade_b9d7afa92f13 ==
  Drops(Object("restaurant_schedules", {"ix_restaurant_schedules_public_id", "public_id"}))

upgrade_d19530b9a7c9 ==
  [Creates(Object("queue_reports",
                  {"table", "ck_confidence_score_between_0_05_and_1", "ru_id fkey cascade",
                   "ix_queue_reports_lookup", "ix_queue_reports_public_id",
                   "created_at timestamp"})
           \cup Object("restaurant_schedule_exceptions",
                  {"table", "ck_exception_opens_before_closes", "ru_id fkey cascade",
                   "uq_restaurant_schedule_exception",
                   "uq_restaurant_schedule_exception_whole_day",
                   "ix_restaurant_schedule_exceptions_public_id",
                   "ix_schedule_exception_lookup"} \cup Naive)
           \cup Object("restaurant_schedules", {"ru_id fkey cascade"})
           \cup {Type("queue_report_status_enum"), Type("exception_type_enum")})
     EXCEPT !.drops = Object("restaurant_schedules", {"ru_id fkey"})]

\* it begins with the constraint that has no name
downgrade_d19530b9a7c9 == DropsUnnamed

upgrade_77b8a80e7339 ==
  Creates(Object("queue_snapshots",
                 {"table", "ck_confidence_score_between_0_05_and_1",
                  "ck_reports_last_15m_positive", "ru_id fkey cascade", "pk_ru_id_meal_period",
                  "last_report_at timestamp", "updated_at timestamp"})
          \cup {Type("queue_snapshot_status_enum")})

downgrade_77b8a80e7339 == Drops({Table("queue_snapshots")})

\* the nine columns of time, as the type that has no zone and the one that has
Times(created_updated, created, reported, updated) ==
  Object("queue_reports", {created})
  \cup Object("queue_snapshots", {reported, updated})
  \cup {"restaurants", "restaurant_schedules", "restaurant_schedule_exceptions"} \X created_updated

NaiveTimes ==
  Times(Naive, "created_at timestamp", "last_report_at timestamp", "updated_at timestamp")
AwareTimes ==
  Times(Aware, "created_at timestamptz", "last_report_at timestamptz", "updated_at timestamptz")

upgrade_8bd14aa6befa == [Creates(AwareTimes) EXCEPT !.drops = NaiveTimes]

downgrade_8bd14aa6befa == [Creates(NaiveTimes) EXCEPT !.drops = AwareTimes]

upgrade_fb141e074154 ==
  [Creates(Object("queue_reports", {"device_hash", "ix_queue_reports_lookup_device_hash"}))
     EXCEPT !.empty = {"queue_reports"}]

downgrade_fb141e074154 ==
  Drops(Object("queue_reports", {"ix_queue_reports_lookup_device_hash", "device_hash"}))

\* Faulty variant: the new column has no CHECK.
upgrade_f977b3c0b6ec_NoRange == Creates(Object("queue_snapshots", {"avg_status_value"}))

upgrade_f977b3c0b6ec ==
  Creates(Object("queue_snapshots", {"avg_status_value", "ck_avg_status_value_range"}))

downgrade_f977b3c0b6ec ==
  Drops(Object("queue_snapshots", {"ck_avg_status_value_range", "avg_status_value"}))

Upgrade ==
  <<upgrade_22032af4fdb4, upgrade_cd805f5ee0b0, upgrade_421af47ff4a4, upgrade_b9d7afa92f13,
    upgrade_d19530b9a7c9, upgrade_77b8a80e7339, upgrade_8bd14aa6befa, upgrade_fb141e074154,
    upgrade_f977b3c0b6ec>>

Downgrade ==
  <<downgrade_22032af4fdb4, downgrade_cd805f5ee0b0, downgrade_421af47ff4a4,
    downgrade_b9d7afa92f13, downgrade_d19530b9a7c9, downgrade_77b8a80e7339,
    downgrade_8bd14aa6befa, downgrade_fb141e074154, downgrade_f977b3c0b6ec>>

Tables == {"restaurants", "restaurant_schedules", "restaurant_schedule_exceptions",
           "queue_reports", "queue_snapshots"}

Head == 9
Revision == 0..Head      \* how many of the migrations have been applied

-----------------------------------------------------------------------------
(* What the models of the newest release declare of these objects *)

Restaurant ==
  Object("restaurants", {"table", "name key", "campus key", "ix_restaurants_public_id"} \cup Aware)

RestaurantSchedule ==
  Object("restaurant_schedules",
         {"table", "ck_weekday_between_0_and_5", "uq_restaurant_schedule",
          "ix_restaurant_schedule_lookup", "ck_schedule_opens_before_closes", "public_id",
          "ix_restaurant_schedules_public_id", "ru_id fkey cascade"} \cup Aware)

RestaurantScheduleException ==
  Object("restaurant_schedule_exceptions",
         {"table", "uq_restaurant_schedule_exception",
          "uq_restaurant_schedule_exception_whole_day", "ix_schedule_exception_lookup",
          "ck_exception_opens_before_closes", "ix_restaurant_schedule_exceptions_public_id",
          "ru_id fkey cascade"} \cup Aware)

QueueReport ==
  Object("queue_reports",
         {"table", "ix_queue_reports_lookup", "ix_queue_reports_lookup_device_hash",
          "ck_confidence_score_between_0_05_and_1", "ix_queue_reports_public_id",
          "ru_id fkey cascade", "device_hash", "created_at timestamptz"})

QueueSnapshot ==
  Object("queue_snapshots",
         {"table", "pk_ru_id_meal_period", "ck_reports_last_15m_positive",
          "ck_avg_status_value_range", "ck_confidence_score_between_0_05_and_1",
          "ru_id fkey cascade", "avg_status_value", "last_report_at timestamptz",
          "updated_at timestamptz"})

Models ==
  Restaurant \cup RestaurantSchedule \cup RestaurantScheduleException
  \cup QueueReport \cup QueueSnapshot

-----------------------------------------------------------------------------
(* What a migration does, and what the chain of them makes *)

Effect(m, objects) ==
  {o \in objects : o \notin m.drops /\ Table(o[1]) \notin m.drops} \cup m.creates

Applies(m, objects, filled) ==
  /\ m.named
  /\ m.creates \cap objects = {}
  /\ m.drops \subseteq objects
  /\ m.empty \cap filled = {}

AllObjects == UNION {Upgrade[r].creates : r \in 1..Head}
InTables(objects) == {o \in objects : o[1] # "type"}

\* what the upgrades q + 1 .. r make of objects
Through(objects, q, r) ==
  (objects \cup UNION {Upgrade[i].creates : i \in (q + 1)..r})
  \ UNION {Upgrade[i].drops : i \in (q + 1)..r}

SchemaAt(r) == Through({}, 0, r)

\* facts about the migrations above and nothing else, decided by evaluation
ASSUME ChainAssumption ==
  /\ SchemaAt(0) = {}
  /\ \A t \in Tables : Table(t) \in SchemaAt(Head)
  /\ \A r \in 1..Head :
       /\ SchemaAt(r) = Effect(Upgrade[r], SchemaAt(r - 1))
       /\ Applies(Upgrade[r], SchemaAt(r - 1), {})
       /\ \A q \in 0..(r - 1) : Through(SchemaAt(q), q, r - 1) = SchemaAt(r - 1)
       /\ Downgrade[r].named =>
            /\ SchemaAt(r - 1) \subseteq Effect(Downgrade[r], SchemaAt(r))
            /\ InTables(Effect(Downgrade[r], SchemaAt(r))) = InTables(SchemaAt(r - 1))
       /\ Upgrade[r].creates \cup Downgrade[r].creates \subseteq AllObjects

-----------------------------------------------------------------------------
VARIABLES
  revision,     \* alembic_version
  schema,       \* the committed objects
  rows,         \* the tables that have rows
  run,          \* what each process does
  draft,        \* the uncommitted changes; their locks let nobody else change anything
  commands, faults,   \* bounds
  downgraded          \* history: a downgrade has been committed

vars == <<revision, schema, rows, run, draft, commands, faults, downgraded>>

Api == "api"
Process == Operator \cup {Api}
ASSUME MigrationsAssumption ==
  MaxCommands \in Nat /\ MaxFaults \in Nat /\ Api \notin Operator

Init ==
  /\ revision = 0
  /\ schema = {}
  /\ rows = {}
  /\ run = [p \in Process |-> [step |-> "down"]]
  /\ draft = None
  /\ commands = 0
  /\ faults = 0
  /\ downgraded = FALSE

Down(p) == run' = [run EXCEPT ![p] = [step |-> "down"]]

\* alembic reads the revision and plans its way from there
Begins(p, target) ==
  /\ run[p].step = "down"
  /\ run' = [run EXCEPT ![p] = [step |-> "migrating", read |-> revision, target |-> target]]
  /\ UNCHANGED <<revision, schema, rows, draft, faults, downgraded>>

StartApi == Begins(Api, Head) /\ UNCHANGED commands

StartCommand(p) ==
  /\ commands < MaxCommands
  /\ \E target \in Revision : Begins(p, target)
  /\ commands' = commands + 1

\* where this run is: at its uncommitted changes, or at the schema that it has found
Current(p) ==
  IF draft = None THEN [by |-> p, at |-> run[p].read, objects |-> schema] ELSE draft

\* Faulty variant: the connection is kept, with its transaction.
Fail_KeepsDraft(p) ==
  /\ Down(p)
  /\ UNCHANGED <<revision, schema, rows, draft, commands, faults, downgraded>>

\* Faulty variant: the statements of a run are not in a transaction.
Fail_LeavesChanges(p) ==
  /\ Down(p)
  /\ schema' = Current(p).objects
  /\ draft' = IF draft # None /\ draft.by = p THEN None ELSE draft
  /\ UNCHANGED <<revision, rows, commands, faults, downgraded>>

\* an exception: the transaction is rolled back and the process exits
Fail(p) ==
  /\ Down(p)
  /\ draft' = IF draft # None /\ draft.by = p THEN None ELSE draft
  /\ UNCHANGED <<revision, schema, rows, commands, faults, downgraded>>

\* p is at work, and no locks of another run are in its way
Migrating(p) == run[p].step = "migrating" /\ (draft # None => draft.by = p)

\* Faulty variant: the version is not compared.
Overtaken_Unchecked(p) == FALSE

\* another run has committed since p planned its way: the UPDATE of alembic_version
\* expects the version that p has read, and matches no row
Overtaken(p) == revision # run[p].read

NextMigration(p) ==
  LET at == Current(p).at
  IN  IF at < run[p].target THEN Upgrade[at + 1] ELSE Downgrade[at]

Done(p) == draft # None /\ draft.at = run[p].target

Migrate(p) ==
  /\ Migrating(p)
  /\ run[p].read # run[p].target
  /\ ~ Done(p)
  /\ LET c == Current(p)
     IN  IF ~ Overtaken(p) /\ Applies(NextMigration(p), c.objects, rows)
         THEN /\ draft' = [by |-> p, at |-> IF c.at < run[p].target THEN c.at + 1 ELSE c.at - 1,
                           objects |-> Effect(NextMigration(p), c.objects)]
              /\ UNCHANGED <<revision, schema, rows, run, commands, faults, downgraded>>
         ELSE Fail(p)

Ends(p) == run' = [run EXCEPT ![p] = [step |-> IF p = Api THEN "serving" ELSE "down"]]

\* no migration to run
NothingToDo(p) ==
  /\ run[p].step = "migrating"
  /\ run[p].read = run[p].target
  /\ Ends(p)
  /\ UNCHANGED <<revision, schema, rows, draft, commands, faults, downgraded>>

Commit(p) ==
  /\ Migrating(p)
  /\ Done(p)
  /\ revision' = draft.at
  /\ schema' = draft.objects
  /\ rows' = {t \in rows : Table(t) \in draft.objects}
  /\ draft' = None
  /\ downgraded' = (downgraded \/ draft.at < revision)
  /\ Ends(p)
  /\ UNCHANGED <<commands, faults>>

\* A process dies: the server rolls its transaction back.  The container is restarted
\* ("unless-stopped"), with or without anything wrong.
Die(p) ==
  /\ run[p].step # "down"
  /\ faults < MaxFaults
  /\ Down(p)
  /\ draft' = IF draft # None /\ draft.by = p THEN None ELSE draft
  /\ faults' = faults + 1
  /\ UNCHANGED <<revision, schema, rows, commands, downgraded>>

\* The seed and the API store rows, of restaurants first, when no DDL holds the tables.
\* The statements of this release need the columns of the newest revision.
Store ==
  /\ run[Api].step = "serving"
  /\ revision = Head
  /\ draft = None
  /\ \E t \in Tables :
       /\ t = "restaurants" \/ "restaurants" \in rows
       /\ rows' = rows \cup {t}
  /\ UNCHANGED <<revision, schema, run, draft, commands, faults, downgraded>>

Next ==
  \/ StartApi
  \/ \E p \in Operator : StartCommand(p)
  \/ \E p \in Process : Migrate(p) \/ NothingToDo(p) \/ Commit(p) \/ Die(p)
  \/ Store

Spec == Init /\ [][Next]_vars

\* the container starts again whenever it is down; alembic runs until it has ended
Fairness ==
  /\ WF_vars(StartApi)
  /\ \A p \in Process : WF_vars(Migrate(p) \/ NothingToDo(p) \/ Commit(p))

FairSpec == Spec /\ Fairness

-----------------------------------------------------------------------------
(* Properties *)

\* Every variable holds a value of its type, and only tables that exist have rows.
TypeOK ==
  /\ revision \in Revision
  /\ schema \subseteq AllObjects
  /\ rows \subseteq {t \in Tables : Table(t) \in schema}
  /\ run \in [Process ->
       [step : {"down", "serving"}] \cup [step : {"migrating"}, read : Revision, target : Revision]]
  /\ draft \in {None} \cup [by : Process, at : Revision, objects : SUBSET AllObjects]
  /\ draft # None => run[draft.by].step = "migrating"
  /\ commands \in 0..MaxCommands /\ faults \in 0..MaxFaults
  /\ downgraded \in BOOLEAN

\* The revision tells what the tables look like, whatever way led there: through upgrades,
\* downgrades that undo them, failed and concurrent runs and deaths between two
\* migrations.  Only enum types may be left over.
SchemaFollowsRevision ==
  /\ SchemaAt(revision) \subseteq schema
  /\ InTables(schema) = InTables(SchemaAt(revision))

\* At the newest revision everything is there that the models of this release declare,
\* except the CHECK of the regular hours (src/app/models/restaurant.py:140), which no
\* migration creates.
HeadServesTheModels ==
  revision = Head =>
    Models \ schema = Object("restaurant_schedules", {"ck_schedule_opens_before_closes"})

\* Every migration that is still to come would apply to the committed schema and rows.
Upgradable ==
  \A r \in (revision + 1)..Head : Applies(Upgrade[r], Through(schema, revision, r - 1), rows)

\* Whatever runs race and die, the database never gets into a state from which start.sh
\* cannot upgrade it, unless somebody has downgraded it.
StuckOnlyAfterDowngrade == ~ downgraded => Upgradable

\* The API comes up, whatever other runs its own upgrade meets and however often it is
\* killed, unless somebody has downgraded the database.
ApiComesUp == run[Api].step = "down" ~> (run[Api].step = "serving" \/ downgraded)
=============================================================================
