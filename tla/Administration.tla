--------------------------- MODULE Administration ---------------------------
(***************************************************************************)
(* Restaurants, their rows in queue_snapshots and their regular schedules, *)
(* edited by concurrent requests, and the two requests that read the       *)
(* status of one or several restaurants.  Each request is a transaction of *)
(* its own (READ COMMITTED) that yields at every await; the date has no    *)
(* exceptions, which are in ScheduleExceptions.                            *)
(***************************************************************************)
EXTENDS MealCalendar

CONSTANTS
  Request,
  Key, ScheduleKey,     \* primary keys of the two tables (bound)
  Name, Campus,
  Weekday, Today,       \* Today: the weekday on which the status is read
  Absent,               \* no row with this key
  InitialRestaurants, InitialSchedules    \* what earlier requests left

Restaurant == [name : Name, campus : Campus, active : BOOLEAN]
ScheduleRow == [ru : Key, weekday : Weekday, period : Period,
                opens : Hour, closes : Hour, active : BOOLEAN]

Stored(table) == {k \in DOMAIN table : table[k] # Absent}
Active(table) == {k \in Stored(table) : table[k].active}

SameSlot(r, s) == r.ru = s.ru /\ r.weekday = s.weekday /\ r.period = s.period

\* the tables that the requests find satisfy the constraints of the database
ASSUME AdministrationAssumption ==
  /\ Today \in Weekday
  /\ Absent \notin Restaurant \cup ScheduleRow
  /\ InitialRestaurants \in [Key -> Restaurant \cup {Absent}]
  /\ InitialSchedules \in [ScheduleKey -> ScheduleRow \cup {Absent}]
  /\ \A x \in Stored(InitialSchedules) :
       /\ InitialSchedules[x].opens < InitialSchedules[x].closes
       /\ \A y \in Stored(InitialSchedules) :
            SameSlot(InitialSchedules[x], InitialSchedules[y]) => x = y

VARIABLES
  restaurants,   \* committed rows of restaurants, by primary key
  schedules,     \* committed rows of restaurant_schedules
  snapshots,     \* (restaurant, period) of the committed rows of queue_snapshots
  request        \* where each request is and what it has read

vars == <<restaurants, schedules, snapshots, request>>

RequestState ==
  [step : {"new"}]
  \cup [step : {"insert"}, new : Restaurant]
  \cup [step : {"rows", "commit"}, new : Restaurant, key : Key]
  \cup [step : {"found"}, ru : Key, loaded : Restaurant]
  \cup [step : {"update"}, ru : Key, loaded : Restaurant, new : Restaurant]
  \cup [step : {"insert_schedule"}, new : ScheduleRow]
  \cup [step : {"update_schedule"}, key : ScheduleKey, loaded : ScheduleRow]
  \cup [step : {"row"}, ru : Key, period : Period]
  \cup [step : {"bulk"}, at : Hour, todo : SUBSET Key, open : SUBSET (Key \X Period)]
  \cup [step : {"end"}, open : SUBSET (Key \X Period), items : SUBSET (Key \X Period)]

Init ==
  /\ restaurants = InitialRestaurants
  /\ schedules = InitialSchedules
  /\ snapshots = Stored(InitialRestaurants) \X Period
  /\ request = [q \in Request |-> [step |-> "new"]]

At(q, step) == request[q].step = step
GoOn(q, r) == request' = [request EXCEPT ![q] = r]

\* the answer of a request: the restaurants it found open and the items it shows
Answer(q, open, items) == GoOn(q, [step |-> "end", open |-> open, items |-> items])
End(q) == Answer(q, {}, {})

-----------------------------------------------------------------------------
(* POST /restaurants *)

NameTaken(name) == \E k \in Active(restaurants) : restaurants[k].name = name

BeginCreate(q) ==
  /\ At(q, "new")
  /\ \E new \in Restaurant :
       IF NameTaken(new.name) THEN End(q) ELSE GoOn(q, [step |-> "insert", new |-> new])
  /\ UNCHANGED <<restaurants, schedules, snapshots>>

\* unique name and campus, also against rows that are not active
Clash(r, s) == r.name = s.name \/ r.campus = s.campus

ClashesStored(keys, r) == \E k \in keys : Clash(r, restaurants[k])

Pending == {q \in Request : request[q].step \in {"rows", "commit"}}

\* an uncommitted row of another request: the statement waits for its end
ClashesPending(q, r) == \E o \in Pending \ {q} : Clash(r, request[o].new)

FreeKeys == (Key \ Stored(restaurants)) \ {request[o].key : o \in Pending}

\* Faulty variant: the repository commits.
Insert_Commits(q) ==
  /\ At(q, "insert")
  /\ LET new == request[q].new
     IN  \/ /\ ClashesStored(Stored(restaurants), new)
            /\ End(q)
            /\ UNCHANGED restaurants
         \/ /\ ~ ClashesStored(Stored(restaurants), new)
            /\ \E k \in FreeKeys :
                 /\ restaurants' = [restaurants EXCEPT ![k] = new]
                 /\ GoOn(q, [step |-> "rows", new |-> new, key |-> k])
  /\ UNCHANGED <<schedules, snapshots>>

\* flush of the restaurant, or IntegrityError and rollback
Insert(q) ==
  /\ At(q, "insert")
  /\ LET new == request[q].new
     IN  \/ /\ ClashesStored(Stored(restaurants), new)
            /\ End(q)
         \/ /\ ~ ClashesStored(Stored(restaurants), new) /\ ~ ClashesPending(q, new)
            /\ \E k \in FreeKeys : GoOn(q, [step |-> "rows", new |-> new, key |-> k])
  /\ UNCHANGED <<restaurants, schedules, snapshots>>

\* flush of its two snapshot rows
InsertRows(q) ==
  /\ At(q, "rows")
  /\ GoOn(q, [request[q] EXCEPT !.step = "commit"])
  /\ UNCHANGED <<restaurants, schedules, snapshots>>

Commit(q) ==
  /\ At(q, "commit")
  /\ LET k == request[q].key
     IN  /\ restaurants' = [restaurants EXCEPT ![k] = request[q].new]
         /\ snapshots' = snapshots \cup ({k} \X Period)
  /\ End(q)
  /\ UNCHANGED schedules

\* an exception or the death of the process: the transaction is rolled back
Rollback(q) ==
  /\ request[q].step \notin {"new", "end"}
  /\ End(q)
  /\ UNCHANGED <<restaurants, schedules, snapshots>>

-----------------------------------------------------------------------------
(* Requests for one restaurant begin with its row, if it is active. *)

Lookup(q) ==
  /\ At(q, "new")
  /\ \E k \in Key :
       IF k \in Active(restaurants)
       THEN GoOn(q, [step |-> "found", ru |-> k, loaded |-> restaurants[k]])
       ELSE End(q)
  /\ UNCHANGED <<restaurants, schedules, snapshots>>

\* PATCH of the restaurant: another name must not be taken
CheckName(q) ==
  /\ At(q, "found")
  /\ \E new \in Restaurant :
       IF new.name # request[q].loaded.name /\ NameTaken(new.name) THEN End(q)
       ELSE GoOn(q, [step |-> "update", ru |-> request[q].ru,
                     loaded |-> request[q].loaded, new |-> new])
  /\ UNCHANGED <<restaurants, schedules, snapshots>>

\* Faulty variant: every column is written.
Written_All(current, loaded, new) == new

\* the UPDATE writes the columns that differ from the loaded row
Written(current, loaded, new) ==
  [c \in DOMAIN current |-> IF new[c] # loaded[c] THEN new[c] ELSE current[c]]

Update(q) ==
  /\ At(q, "update")
  /\ LET r   == request[q]
         row == Written(restaurants[r.ru], r.loaded, r.new)
     IN  /\ ~ ClashesPending(q, row)
         /\ IF ClashesStored(Stored(restaurants) \ {r.ru}, row) THEN UNCHANGED restaurants
            ELSE restaurants' = [restaurants EXCEPT ![r.ru] = row]
  /\ End(q)
  /\ UNCHANGED <<schedules, snapshots>>

-----------------------------------------------------------------------------
(* POST and PATCH of the regular schedules *)

\* what the schema lets through
NewSchedules(ru) == {new \in ScheduleRow : new.ru = ru /\ new.opens < new.closes}

CheckDuplicate(q) ==
  /\ At(q, "found")
  /\ \E new \in NewSchedules(request[q].ru) :
       IF \E x \in Active(schedules) : SameSlot(schedules[x], new) THEN End(q)
       ELSE GoOn(q, [step |-> "insert_schedule", new |-> new])
  /\ UNCHANGED <<restaurants, schedules, snapshots>>

\* Faulty variant: the unique key is one of active rows only.
SlotFree_ActiveOnly(x, row) == \A y \in Active(schedules) \ {x} : ~ SameSlot(schedules[y], row)

\* uq_restaurant_schedule, which counts inactive rows
SlotFree(x, row) == \A y \in Stored(schedules) \ {x} : ~ SameSlot(schedules[y], row)

\* INSERT and COMMIT, or IntegrityError and rollback
InsertSchedule(q) ==
  /\ At(q, "insert_schedule")
  /\ LET new == request[q].new
     IN  \E x \in ScheduleKey \ Stored(schedules) :
           IF SlotFree(x, new) THEN schedules' = [schedules EXCEPT ![x] = new]
           ELSE UNCHANGED schedules
  /\ End(q)
  /\ UNCHANGED <<restaurants, snapshots>>

LoadSchedule(q) ==
  /\ At(q, "found")
  /\ \E x \in ScheduleKey :
       IF x \in Active(schedules) /\ schedules[x].ru = request[q].ru
       THEN GoOn(q, [step |-> "update_schedule", key |-> x, loaded |-> schedules[x]])
       ELSE End(q)
  /\ UNCHANGED <<restaurants, schedules, snapshots>>

\* Faulty variant: only the validator of the schema, which sees the fields of the PATCH.
PatchAccepted_SchemaOnly(loaded, new) ==
  new.opens # loaded.opens /\ new.closes # loaded.closes => new.opens < new.closes

\* the service validates the patched copy
PatchAccepted(loaded, new) == new.opens < new.closes

\* a PATCH sets any fields but the restaurant; the columns that differ from what was loaded
\* are written, and no CHECK of the table looks at the row they make
UpdateSchedule(q) ==
  /\ At(q, "update_schedule")
  /\ LET r == request[q]
     IN  \E new \in ScheduleRow :
           /\ new.ru = r.loaded.ru
           /\ LET row == Written(schedules[r.key], r.loaded, new)
              IN  IF PatchAccepted(r.loaded, new) /\ SlotFree(r.key, row)
                  THEN schedules' = [schedules EXCEPT ![r.key] = row]
                  ELSE UNCHANGED schedules
  /\ End(q)
  /\ UNCHANGED <<restaurants, snapshots>>

-----------------------------------------------------------------------------
(* get_status and get_bulk_status *)

\* what the calendar resolves for restaurant k: a period or the name of an exception
Resolved(k, t) ==
  Resolve({}, {[period |-> schedules[x].period, opens |-> schedules[x].opens,
                closes |-> schedules[x].closes] :
                 x \in {y \in Active(schedules) :
                          schedules[y].ru = k /\ schedules[y].weekday = Today}}, t)

\* Faulty variant: outside its hours the restaurant is read like any other.
ResolveStatus_Unchecked(q) ==
  /\ At(q, "found")
  /\ \E t \in Hour : \E p \in Resolved(request[q].ru, t) :
       GoOn(q, [step |-> "row", ru |-> request[q].ru, period |-> p])
  /\ UNCHANGED <<restaurants, schedules, snapshots>>

ResolveStatus(q) ==
  /\ At(q, "found")
  /\ \E t \in Hour : \E p \in Resolved(request[q].ru, t) :
       IF p \in Period THEN GoOn(q, [step |-> "row", ru |-> request[q].ru, period |-> p])
       ELSE End(q)
  /\ UNCHANGED <<restaurants, schedules, snapshots>>

ReadRow(q) ==
  /\ At(q, "row")
  /\ LET open == {<<request[q].ru, request[q].period>>}
     IN  Answer(q, open, open \cap snapshots)
  /\ UNCHANGED <<restaurants, schedules, snapshots>>

\* up to BULK_LIMIT restaurants are asked for; the active ones are found
BeginBulk(q) ==
  /\ At(q, "new")
  /\ \E t \in Hour, ids \in SUBSET Key :
       GoOn(q, [step |-> "bulk", at |-> t, todo |-> ids \cap Active(restaurants), open |-> {}])
  /\ UNCHANGED <<restaurants, schedules, snapshots>>

\* one restaurant after the other; those that are closed are skipped
ResolveNext(q) ==
  /\ At(q, "bulk")
  /\ \E k \in request[q].todo : \E p \in Resolved(k, request[q].at) :
       LET r == request[q]
       IN  GoOn(q, [step |-> "bulk", at |-> r.at, todo |-> r.todo \ {k},
                    open |-> IF p \in Period THEN r.open \cup {<<k, p>>} ELSE r.open])
  /\ UNCHANGED <<restaurants, schedules, snapshots>>

\* Faulty variant: each query asks for every open restaurant.
BulkItems_AllKeys(open) ==
  snapshots \cap ({o[1] : o \in open} \X {o[2] : o \in open})

\* a query for each period, with the restaurants of that period
BulkItems(open) ==
  UNION {snapshots \cap ({o[1] : o \in {x \in open : x[2] = p}} \X {p}) : p \in Period}

ReadRows(q) ==
  /\ At(q, "bulk")
  /\ request[q].todo = {}
  /\ Answer(q, request[q].open, BulkItems(request[q].open))
  /\ UNCHANGED <<restaurants, schedules, snapshots>>

Next ==
  \E q \in Request :
    \/ BeginCreate(q) \/ Insert(q) \/ InsertRows(q) \/ Commit(q)
    \/ Lookup(q) \/ CheckName(q) \/ Update(q)
    \/ CheckDuplicate(q) \/ InsertSchedule(q) \/ LoadSchedule(q) \/ UpdateSchedule(q)
    \/ ResolveStatus(q) \/ ReadRow(q) \/ BeginBulk(q) \/ ResolveNext(q) \/ ReadRows(q)
    \/ Rollback(q)

Spec == Init /\ [][Next]_vars

-----------------------------------------------------------------------------
(* Properties *)

\* Every variable holds a value of its type.
TypeOK ==
  /\ restaurants \in [Key -> Restaurant \cup {Absent}]
  /\ schedules \in [ScheduleKey -> ScheduleRow \cup {Absent}]
  /\ snapshots \subseteq Key \X Period
  /\ request \in [Request -> RequestState]

\* Every restaurant that anybody can see has its row of lunch and its row of dinner, and
\* no row is without its restaurant, whatever fails while it is created.
RowsForEveryRestaurant == snapshots = Stored(restaurants) \X Period

\* A restaurant or a schedule that was deactivated stays so: every lookup before a PATCH
\* sees active rows only, and a PATCH that loaded the row before does not write the
\* column back.
DeactivationIsFinal ==
  [][/\ \A k \in Stored(restaurants) \ Active(restaurants) : ~ restaurants'[k].active
     /\ \A x \in Stored(schedules) \ Active(schedules) : ~ schedules'[x].active]_vars

\* "a restaurant cannot have two schedules of one weekday and period"
\* (src/app/models/restaurant.py:124), also when two requests find none and both insert
\* or a PATCH moves a schedule.
OneSchedulePerSlot ==
  \A x, y \in Stored(schedules) : SameSlot(schedules[x], schedules[y]) => x = y

\* Every schedule opens before it closes (ck_schedule_opens_before_closes,
\* src/app/models/restaurant.py:140), also when two PATCHes, each in order by itself,
\* wrote one of its hours each.
HoursInOrder == \A x \in Stored(schedules) : schedules[x].opens < schedules[x].closes

Torn(table) == {x \in Stored(table) : table[x].opens >= table[x].closes}

\* Hours get out of order in no other way than that: a PATCH tears a schedule only if another
\* one has written it since this one loaded the copy that it validated; no request does it
\* alone, whichever fields it sets, and neither does the seed.
OnlyRacesTearHours ==
  [][\A x \in Torn(schedules') \ Torn(schedules) : \E q \in Request :
       /\ At(q, "update_schedule") /\ request[q].key = x /\ request'[q] # request[q]
       /\ request[q].loaded # schedules[x]]_vars

\* A reader shows the rows of the restaurants that it found open, each in the period it was
\* found in and once: its row is there, and the items of the two periods do not mix.
OneItemPerOpenRestaurant ==
  \A q \in Request : At(q, "end") =>
    /\ request[q].items = request[q].open
    /\ \A i, j \in request[q].items : i[1] = j[1] => i = j
=============================================================================
