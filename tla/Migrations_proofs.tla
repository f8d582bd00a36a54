-------------------------- MODULE Migrations_proofs --------------------------
(***************************************************************************)
(* What the runs of Alembic keep, for any number of operators, runs and    *)
(* deaths.  The facts about the nine migrations themselves are those of    *)
(* ChainAssumption, which TLC evaluates; everything else is proved here.   *)
(***************************************************************************)
EXTENDS Migrations, TLAPS

\* The objects are those of revision r, but for enum types that are left over.
Describes(objects, r) ==
  /\ SchemaAt(r) \subseteq objects
  /\ InTables(objects) = InTables(SchemaAt(r))
  /\ objects \subseteq AllObjects

\* The uncommitted changes belong to a run that nobody has overtaken, and are on its way.
DraftInv ==
  draft # None =>
    LET r == run[draft.by]
    IN  /\ r.step = "migrating"
        /\ revision = r.read
        /\ \/ r.read < draft.at /\ draft.at <= r.target
           \/ r.target <= draft.at /\ draft.at < r.read
        /\ Describes(draft.objects, draft.at)

\* Until a downgrade is committed, nothing is left over and only the newest schema is used.
NeverDowngraded ==
  ~ downgraded =>
    /\ schema = SchemaAt(revision)
    /\ rows # {} => revision = Head
    /\ (draft # None /\ revision < draft.at) => draft.objects = SchemaAt(draft.at)

IInv ==
  /\ TypeOK
  /\ Describes(schema, revision)
  /\ DraftInv
  /\ NeverDowngraded

-----------------------------------------------------------------------------
(* One migration *)

LEMMA EffectIsMonotone ==
  ASSUME NEW m, NEW A, NEW B, A \subseteq B
  PROVE  Effect(m, A) \subseteq Effect(m, B)
  BY DEF Effect

\* What a migration does to tables does not depend on the types.
LEMMA EffectInTables ==
  ASSUME NEW m, NEW A, NEW B, InTables(A) = InTables(B)
  PROVE  InTables(Effect(m, A)) = InTables(Effect(m, B))
  BY DEF Effect, InTables

LEMMA UpgradeDescribes ==
  ASSUME NEW r \in 0..(Head - 1), NEW objects, Describes(objects, r)
  PROVE  Describes(Effect(Upgrade[r + 1], objects), r + 1)
<1> DEFINE m == Upgrade[r + 1]
<1>1. r + 1 \in 1..Head /\ (r + 1) - 1 = r
  BY DEF Head
<1>2. SchemaAt(r + 1) = Effect(m, SchemaAt(r)) /\ m.creates \subseteq AllObjects
  BY <1>1, ChainAssumption
<1> HIDE DEF m
<1>3. Effect(m, objects) \subseteq AllObjects
  BY <1>2 DEF Effect, Describes
<1>4. Describes(Effect(m, objects), r + 1)
  BY <1>2, <1>3, EffectIsMonotone, EffectInTables DEF Describes
<1> QED
  BY <1>4 DEF m

LEMMA DowngradeDescribes ==
  ASSUME NEW r \in 1..Head, NEW objects, Describes(objects, r), Downgrade[r].named
  PROVE  Describes(Effect(Downgrade[r], objects), r - 1)
<1> DEFINE m == Downgrade[r]
<1>1. /\ SchemaAt(r - 1) \subseteq Effect(m, SchemaAt(r))
      /\ InTables(Effect(m, SchemaAt(r))) = InTables(SchemaAt(r - 1))
      /\ m.creates \subseteq AllObjects
  BY ChainAssumption
<1> HIDE DEF m
<1>2. Effect(m, objects) \subseteq AllObjects
  BY <1>1 DEF Effect, Describes
<1>3. Describes(Effect(m, objects), r - 1)
  BY <1>1, <1>2, EffectIsMonotone, EffectInTables DEF Describes
<1> QED
  BY <1>3 DEF m

-----------------------------------------------------------------------------
(* The inductive invariant *)

LEMMA InitIInv == Init => IInv
<1> SUFFICES ASSUME Init PROVE IInv
  OBVIOUS
<1>1. Describes({}, 0)
  BY ChainAssumption DEF Describes
<1>2. TypeOK
  <2>1. commands \in 0..MaxCommands /\ faults \in 0..MaxFaults
    BY MigrationsAssumption DEF Init
  <2>2. revision \in Revision
    BY DEF Init, Revision, Head
  <2>3. run \in [Process -> [step : {"down", "serving"}]
                           \cup [step : {"migrating"}, read : Revision, target : Revision]]
    BY DEF Init
  <2> QED
    BY <2>1, <2>2, <2>3 DEF Init, TypeOK
<1> QED
  BY <1>1, <1>2, ChainAssumption DEF Init, IInv, DraftInv, NeverDowngraded

\* A run that begins, ends or fails and leaves the database alone.
LEMMA RunStep ==
  ASSUME IInv, NEW p \in Process, NEW r, run' = [run EXCEPT ![p] = r],
         r \in [step : {"down", "serving"}]
               \cup [step : {"migrating"}, read : Revision, target : Revision],
         UNCHANGED <<revision, schema, rows, downgraded>>,
         draft' = draft \/ draft' = None,
         draft' # None => draft.by # p,
         commands' \in 0..MaxCommands, faults' \in 0..MaxFaults
  PROVE  IInv'
<1>1. draft' # None => draft' = draft /\ draft.by \in Process /\ run'[draft.by] = run[draft.by]
  BY DEF IInv, TypeOK
<1>2. TypeOK'
  BY <1>1 DEF IInv, TypeOK
<1>3. DraftInv'
  BY <1>1 DEF IInv, DraftInv, Describes, SchemaAt, Through, InTables
<1>4. NeverDowngraded' /\ Describes(schema, revision)'
  BY <1>1 DEF IInv, NeverDowngraded, Describes
<1> QED
  BY <1>2, <1>3, <1>4 DEF IInv

LEMMA BeginStep ==
  ASSUME IInv, StartApi \/ \E p \in Operator : StartCommand(p)
  PROVE  IInv'
<1> PICK p \in Process, target \in Revision :
        Begins(p, target) /\ commands' \in {commands, commands + 1}
                          /\ commands' \in 0..MaxCommands
  <2>1. Head \in Revision /\ Api \in Process
    BY DEF Head, Revision, Process
  <2>2. commands \in 0..MaxCommands /\ MaxCommands \in Nat
    BY MigrationsAssumption DEF IInv, TypeOK
  <2> QED
    BY <2>1, <2>2 DEF StartApi, StartCommand, Process
<1>1. draft # None => draft.by # p
  BY DEF Begins, IInv, DraftInv
<1>2. [step |-> "migrating", read |-> revision, target |-> target]
        \in [step : {"migrating"}, read : Revision, target : Revision]
  BY DEF IInv, TypeOK
<1> QED
  BY <1>1, <1>2, RunStep DEF Begins, IInv, TypeOK

LEMMA FailStep ==
  ASSUME IInv, NEW p \in Process, Fail(p)
  PROVE  IInv'
<1>1. draft' # None => draft.by # p
  BY DEF Fail
<1> QED
  BY <1>1, RunStep DEF Fail, Down, IInv, TypeOK

LEMMA DieStep ==
  ASSUME IInv, NEW p \in Process, Die(p)
  PROVE  IInv'
<1>1. draft' # None => draft.by # p
  BY DEF Die
<1>2. faults' \in 0..MaxFaults
  BY MigrationsAssumption DEF Die, IInv, TypeOK
<1> QED
  BY <1>1, <1>2, RunStep DEF Die, Down, IInv, TypeOK

LEMMA NothingToDoStep ==
  ASSUME IInv, NEW p \in Process, NothingToDo(p)
  PROVE  IInv'
<1>1. draft # None => draft.by # p
  BY DEF NothingToDo, IInv, DraftInv, TypeOK, Revision
<1> QED
  BY <1>1, RunStep DEF NothingToDo, Ends, IInv, TypeOK

\* What the invariant says of the place where a run is.
LEMMA CurrentIsGood ==
  ASSUME IInv, NEW p \in Process, Migrating(p), ~ Overtaken(p)
  PROVE  /\ Current(p).at \in Revision
         /\ Describes(Current(p).objects, Current(p).at)
         /\ run[p].read \in Revision /\ run[p].target \in Revision
         /\ revision = run[p].read
         /\ draft # None => /\ draft.by = p
                            /\ \/ run[p].read < draft.at /\ draft.at <= run[p].target
                               \/ run[p].target <= draft.at /\ draft.at < run[p].read
<1>1. run[p].read \in Revision /\ run[p].target \in Revision /\ revision = run[p].read
  BY DEF Migrating, Overtaken, IInv, TypeOK
<1>2. CASE draft = None
  BY <1>1, <1>2 DEF Current, IInv
<1>3. CASE draft # None
  BY <1>1, <1>3 DEF Current, Migrating, IInv, DraftInv, TypeOK
<1> QED
  BY <1>1, <1>2, <1>3

LEMMA MigrateStep ==
  ASSUME IInv, NEW p \in Process, Migrate(p)
  PROVE  IInv'
<1> DEFINE c == Current(p)
           m == NextMigration(p)
           at == IF c.at < run[p].target THEN c.at + 1 ELSE c.at - 1
           objects == Effect(m, c.objects)
<1>1. CASE Fail(p)
  BY <1>1, FailStep
<1>2. CASE /\ ~ Overtaken(p) /\ Applies(m, c.objects, rows)
           /\ draft' = [by |-> p, at |-> at, objects |-> objects]
           /\ UNCHANGED <<revision, schema, rows, run, commands, faults, downgraded>>
  <2>1. Migrating(p) /\ run[p].read # run[p].target /\ ~ Done(p)
    BY DEF Migrate
  <2>2. /\ c.at \in Revision /\ Describes(c.objects, c.at)
        /\ run[p].read \in Revision /\ run[p].target \in Revision
        /\ revision = run[p].read
        /\ draft # None => /\ draft.by = p
                           /\ \/ run[p].read < draft.at /\ draft.at <= run[p].target
                              \/ run[p].target <= draft.at /\ draft.at < run[p].read
    BY <1>2, <2>1, CurrentIsGood
  <2>3. c.at # run[p].target /\ (draft = None => c.at = run[p].read)
        /\ (draft # None => c.at = draft.at)
    BY <2>1 DEF Current, Done
  <2>4. CASE c.at < run[p].target
    <3>1. at = c.at + 1 /\ m = Upgrade[c.at + 1] /\ c.at \in 0..(Head - 1)
      BY <2>2, <2>4 DEF NextMigration, Revision, Head
    <3>2. Describes(objects, at)
      BY <2>2, <3>1, UpgradeDescribes
    <3>3. run[p].read < at /\ at <= run[p].target /\ at \in Revision
      BY <2>2, <2>3, <2>4, <3>1 DEF Revision, Head
    <3>4. ~ downgraded => objects = SchemaAt(at)
      <4>1. ~ downgraded => c.objects = SchemaAt(c.at)
        BY <2>2, <2>3, <2>4 DEF IInv, NeverDowngraded, Current, Revision, Head
      <4>2. at \in 1..Head /\ at - 1 = c.at
        BY <3>1 DEF Head
      <4> QED
        BY <3>1, <4>1, <4>2, ChainAssumption
    <3> HIDE DEF c, m, at, objects
    <3> QED
      BY <1>2, <2>1, <2>2, <3>2, <3>3, <3>4
         DEF IInv, TypeOK, DraftInv, NeverDowngraded, Describes, Migrating
  <2>5. CASE c.at > run[p].target
    <3>1. at = c.at - 1 /\ m = Downgrade[c.at] /\ c.at \in 1..Head
      BY <2>2, <2>5 DEF NextMigration, Revision, Head
    <3>2. Describes(objects, at)
      BY <1>2, <2>2, <3>1, DowngradeDescribes DEF Applies
    <3>3. run[p].target <= at /\ at < run[p].read /\ at \in Revision
      BY <2>2, <2>3, <2>5, <3>1 DEF Revision, Head
    <3>4. ~ (revision < at)
      BY <2>2, <3>3 DEF Revision
    <3> HIDE DEF c, m, at, objects
    <3> QED
      BY <1>2, <2>1, <2>2, <3>2, <3>3, <3>4
         DEF IInv, TypeOK, DraftInv, NeverDowngraded, Describes, Migrating
  <2> QED
    BY <2>2, <2>3, <2>4, <2>5 DEF Revision
<1> QED
  BY <1>1, <1>2 DEF Migrate

LEMMA CommitStep ==
  ASSUME IInv, NEW p \in Process, Commit(p)
  PROVE  IInv'
<1>1. /\ draft # None /\ draft.by = p
      /\ draft \in [by : Process, at : Revision, objects : SUBSET AllObjects]
      /\ Describes(draft.objects, draft.at)
      /\ revision = run[p].read /\ draft.at # revision
  BY DEF Commit, Done, Migrating, IInv, TypeOK, DraftInv, Revision
<1>2. TypeOK'
  BY <1>1 DEF Commit, Ends, IInv, TypeOK
<1>3. Describes(schema, revision)'
  BY <1>1 DEF Commit, Describes
<1>4. NeverDowngraded'
  <2> SUFFICES ASSUME ~ downgraded'
               PROVE  schema' = SchemaAt(revision') /\ (rows' # {} => revision' = Head)
    BY DEF NeverDowngraded, Commit
  <2>0. ~ downgraded /\ ~ (draft.at < revision)
    BY DEF Commit
  <2>1. ~ downgraded /\ revision < draft.at
    BY <1>1, <2>0 DEF IInv, TypeOK, Revision
  <2>2. rows' \subseteq rows /\ revision' = draft.at /\ schema' = draft.objects
    BY DEF Commit
  <2> QED
    BY <1>1, <2>1, <2>2 DEF IInv, NeverDowngraded, TypeOK, Revision
<1> QED
  BY <1>2, <1>3, <1>4 DEF Commit, IInv, DraftInv

LEMMA StoreStep ==
  ASSUME IInv, Store
  PROVE  IInv'
<1>1. \A t \in Tables : Table(t) \in schema
  BY ChainAssumption DEF Store, IInv, Describes
<1>2. TypeOK'
  BY <1>1 DEF Store, IInv, TypeOK
<1> QED
  BY <1>2 DEF Store, IInv, DraftInv, NeverDowngraded, Describes

LEMMA NextIInv == IInv /\ [Next]_vars => IInv'
<1>1. IInv /\ UNCHANGED vars => IInv'
  BY DEF vars, IInv, TypeOK, Describes, DraftInv, NeverDowngraded
<1> QED
  BY <1>1, BeginStep, MigrateStep, NothingToDoStep, CommitStep, DieStep, StoreStep DEF Next

THEOREM Inductive == Spec => []IInv
  BY InitIInv, NextIInv, PTL DEF Spec

\* Every variable always holds a value of its type; rows are in tables that exist.
THEOREM TypeCorrect == Spec => []TypeOK
<1>1. IInv => TypeOK
  BY DEF IInv
<1> QED
  BY Inductive, <1>1, PTL

\* However many runs race, fail and die, alembic_version tells what the tables look like.
THEOREM RevisionTellsTheSchema == Spec => []SchemaFollowsRevision
<1>1. IInv => SchemaFollowsRevision
  BY DEF IInv, Describes, SchemaFollowsRevision
<1> QED
  BY Inductive, <1>1, PTL

\* As long as nobody downgrades, start.sh can always upgrade the database to the end.
THEOREM OnlyDowngradesStrand == Spec => []StuckOnlyAfterDowngrade
<1>1. IInv => StuckOnlyAfterDowngrade
  <2> SUFFICES ASSUME IInv, ~ downgraded, NEW r \in (revision + 1)..Head
               PROVE  Applies(Upgrade[r], Through(schema, revision, r - 1), rows)
    BY DEF StuckOnlyAfterDowngrade, Upgradable
  <2>1. /\ r \in 1..Head /\ revision \in 0..(r - 1) /\ revision # Head
    BY DEF IInv, TypeOK, Revision, Head
  <2>2. schema = SchemaAt(revision) /\ rows = {}
    BY <2>1 DEF IInv, NeverDowngraded
  <2>3. Through(schema, revision, r - 1) = SchemaAt(r - 1)
    BY <2>1, <2>2, ChainAssumption
  <2> QED
    BY <2>1, <2>2, <2>3, ChainAssumption
<1> QED
  BY Inductive, <1>1, PTL

-----------------------------------------------------------------------------
(* What the nine upgrades make together, against what the models declare.   *)

Made == UNION {Upgrade[i].creates : i \in 1..Head}
Gone == UNION {Upgrade[i].drops : i \in 1..Head}
NotMigrated == Object("restaurant_schedules", {"ck_schedule_opens_before_closes"})

LEMMA HeadIsMadeNotGone == SchemaAt(Head) = Made \ Gone
<1>1. (0 + 1)..Head = 1..Head
  OBVIOUS
<1> QED
  BY <1>1 DEF SchemaAt, Through, Made, Gone

LEMMA UpgradesAre ==
  /\ Upgrade[1] = upgrade_22032af4fdb4 /\ Upgrade[2] = upgrade_cd805f5ee0b0
  /\ Upgrade[3] = upgrade_421af47ff4a4 /\ Upgrade[4] = upgrade_b9d7afa92f13
  /\ Upgrade[5] = upgrade_d19530b9a7c9 /\ Upgrade[6] = upgrade_77b8a80e7339
  /\ Upgrade[7] = upgrade_8bd14aa6befa /\ Upgrade[8] = upgrade_fb141e074154
  /\ Upgrade[9] = upgrade_f977b3c0b6ec
  BY DEF Upgrade

LEMMA MadeIs ==
  Made = upgrade_22032af4fdb4.creates \cup upgrade_cd805f5ee0b0.creates
         \cup upgrade_421af47ff4a4.creates \cup upgrade_b9d7afa92f13.creates
         \cup upgrade_d19530b9a7c9.creates \cup upgrade_77b8a80e7339.creates
         \cup AwareTimes \cup upgrade_fb141e074154.creates
         \cup upgrade_f977b3c0b6ec.creates
<1>1. 1..Head = {1, 2, 3, 4, 5, 6, 7, 8, 9}
  BY DEF Head
<1>2. upgrade_8bd14aa6befa.creates = AwareTimes
  BY DEF upgrade_8bd14aa6befa, Creates
<1> QED
  BY <1>1, <1>2, UpgradesAre DEF Made

\* What goes again are the columns without a zone and one foreign key.
LEMMA GoneIs ==
  Gone = NaiveTimes \cup Object("restaurant_schedules", {"ru_id fkey"})
<1>1. 1..Head = {1, 2, 3, 4, 5, 6, 7, 8, 9}
  BY DEF Head
<1>2. /\ upgrade_22032af4fdb4.drops = {} /\ upgrade_cd805f5ee0b0.drops = {}
      /\ upgrade_421af47ff4a4.drops = {} /\ upgrade_b9d7afa92f13.drops = {}
      /\ upgrade_77b8a80e7339.drops = {} /\ upgrade_fb141e074154.drops = {}
      /\ upgrade_f977b3c0b6ec.drops = {}
  BY DEF Creates, upgrade_22032af4fdb4, upgrade_cd805f5ee0b0, upgrade_421af47ff4a4,
         upgrade_b9d7afa92f13, upgrade_77b8a80e7339, upgrade_fb141e074154, upgrade_f977b3c0b6ec
<1>3. /\ upgrade_8bd14aa6befa.drops = NaiveTimes
      /\ upgrade_d19530b9a7c9.drops = Object("restaurant_schedules", {"ru_id fkey"})
  BY DEF Creates, upgrade_8bd14aa6befa, upgrade_d19530b9a7c9
<1>4. Gone = Upgrade[1].drops \cup Upgrade[2].drops \cup Upgrade[3].drops
             \cup Upgrade[4].drops \cup Upgrade[5].drops \cup Upgrade[6].drops
             \cup Upgrade[7].drops \cup Upgrade[8].drops \cup Upgrade[9].drops
  BY <1>1 DEF Gone
<1> QED
  BY <1>2, <1>3, <1>4, UpgradesAre

LEMMA NothingNeededIsGone ==
  ASSUME NEW t, NEW names, names \cap {"created_at timestamp", "updated_at timestamp",
                                       "last_report_at timestamp", "ru_id fkey"} = {}
  PROVE  Object(t, names) \cap Gone = {}
  BY GoneIs DEF NaiveTimes, Times, Naive, Object

LEMMA RestaurantMade == Restaurant \subseteq Made \ Gone
<1>1. Restaurant \subseteq Made
  BY MadeIs DEF Restaurant, Object, Aware, AwareTimes, Times, Creates, upgrade_22032af4fdb4,
                upgrade_cd805f5ee0b0
<1>2. Restaurant \cap Gone = {}
  BY NothingNeededIsGone DEF Restaurant, Aware
<1> QED
  BY <1>1, <1>2

LEMMA RestaurantScheduleMade == RestaurantSchedule \ NotMigrated \subseteq Made \ Gone
<1>1. RestaurantSchedule \ NotMigrated \subseteq Made
  BY MadeIs DEF RestaurantSchedule, NotMigrated, Object, Aware, AwareTimes, Times, Creates,
                upgrade_421af47ff4a4, upgrade_b9d7afa92f13, upgrade_d19530b9a7c9
<1>2. RestaurantSchedule \cap Gone = {}
  BY NothingNeededIsGone DEF RestaurantSchedule, Aware
<1> QED
  BY <1>1, <1>2

LEMMA RestaurantScheduleExceptionMade == RestaurantScheduleException \subseteq Made \ Gone
<1>1. RestaurantScheduleException \subseteq Made
  BY MadeIs DEF RestaurantScheduleException, Object, Aware, AwareTimes, Times, Creates,
                upgrade_d19530b9a7c9
<1>2. RestaurantScheduleException \cap Gone = {}
  BY NothingNeededIsGone DEF RestaurantScheduleException, Aware
<1> QED
  BY <1>1, <1>2

LEMMA QueueReportMade == QueueReport \subseteq Made \ Gone
<1>1. QueueReport \subseteq Made
  BY MadeIs DEF QueueReport, Object, AwareTimes, Times, Creates, upgrade_d19530b9a7c9,
                upgrade_fb141e074154
<1>2. QueueReport \cap Gone = {}
  BY NothingNeededIsGone DEF QueueReport
<1> QED
  BY <1>1, <1>2

LEMMA QueueSnapshotMade == QueueSnapshot \subseteq Made \ Gone
<1>1. QueueSnapshot \subseteq Made
  BY MadeIs DEF QueueSnapshot, Object, AwareTimes, Times, Creates, upgrade_77b8a80e7339,
                upgrade_f977b3c0b6ec
<1>2. QueueSnapshot \cap Gone = {}
  BY NothingNeededIsGone DEF QueueSnapshot
<1> QED
  BY <1>1, <1>2

\* No migration makes the CHECK of the regular hours.
LEMMA CheckIsNotMade == NotMigrated \cap Made = {}
<1> DEFINE o == <<"restaurant_schedules", "ck_schedule_opens_before_closes">>
<1>1. NotMigrated = {o}
  BY DEF NotMigrated, Object
<1>2. o \notin AwareTimes
  BY DEF AwareTimes, Times, Aware, Object
<1>3. /\ o \notin upgrade_22032af4fdb4.creates /\ o \notin upgrade_cd805f5ee0b0.creates
      /\ o \notin upgrade_421af47ff4a4.creates /\ o \notin upgrade_b9d7afa92f13.creates
  BY DEF upgrade_22032af4fdb4, upgrade_cd805f5ee0b0, upgrade_421af47ff4a4,
         upgrade_b9d7afa92f13, Creates, Naive, Object, Type
<1>4. /\ o \notin upgrade_d19530b9a7c9.creates /\ o \notin upgrade_77b8a80e7339.creates
      /\ o \notin upgrade_fb141e074154.creates /\ o \notin upgrade_f977b3c0b6ec.creates
  BY DEF upgrade_d19530b9a7c9, upgrade_77b8a80e7339, upgrade_fb141e074154,
         upgrade_f977b3c0b6ec, Creates, Naive, Object, Type
<1> HIDE DEF o
<1> QED
  BY <1>1, <1>2, <1>3, <1>4, MadeIs

\* At the newest revision nothing is missing that the models declare but one CHECK,
\* whatever upgrades, downgrades, races and deaths led there.
THEOREM HeadServes == Spec => []HeadServesTheModels
<1>1. Models \ (Made \ Gone) = NotMigrated
  <2>1. NotMigrated \subseteq RestaurantSchedule
    BY DEF NotMigrated, RestaurantSchedule, Object
  <2> QED
    BY <2>1, RestaurantMade, RestaurantScheduleMade, RestaurantScheduleExceptionMade,
       QueueReportMade, QueueSnapshotMade, CheckIsNotMade, Zenon DEF Models
<1>2. \A o \in Models : o[1] # "type"
  BY DEF Models, Restaurant, RestaurantSchedule, RestaurantScheduleException, QueueReport,
         QueueSnapshot, Object
<1>3. IInv => HeadServesTheModels
  <2> SUFFICES ASSUME IInv, revision = Head PROVE Models \ schema = NotMigrated
    BY DEF HeadServesTheModels, NotMigrated
  <2>1. InTables(schema) = InTables(Made \ Gone)
    BY HeadIsMadeNotGone DEF IInv, Describes
  <2>2. \A o \in Models : o \in schema <=> o \in Made \ Gone
    BY <1>2, <2>1 DEF InTables
  <2> QED
    BY <1>1, <2>2
<1> QED
  BY Inductive, <1>3, PTL
=============================================================================
