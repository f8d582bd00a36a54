------------------------- MODULE ScheduleExceptions -------------------------
(***************************************************************************)
(* RestaurantScheduleExceptionService for one restaurant and one date:     *)
(* administrators create and patch exceptions concurrently, each request a *)
(* transaction of its own that reads, decides and writes.                  *)
(***************************************************************************)
EXTENDS MealCalendar

CONSTANTS
  Admin,       \* requests under way at a time
  Row,         \* primary keys of the table (bound)
  Schedules,   \* the regular schedules of the weekday
  Absent       \* no row with this key

ASSUME ExceptionsAssumption ==
  /\ Schedules \subseteq Schedule
  /\ Absent \notin Exception

VARIABLES
  table,       \* restaurant_schedule_exceptions, by primary key
  request,     \* what each request read and is about to write
  torn         \* history: rows last written over another value than was read

vars == <<table, request, torn>>

Idle == [step |-> "idle"]

Request == {Idle}
  \cup [step : {"insert"}, new : Exception]
  \cup [step : {"patch"}, row : Row, loaded : Exception]

Init ==
  /\ table = [k \in Row |-> Absent]
  /\ request = [a \in Admin |-> Idle]
  /\ torn = {}

Rows == {table[k] : k \in {k \in Row : table[k] # Absent}}

\* the schema of a POST and the service's check of a patched row
Valid(e) ==
  CASE e.type = "CUSTOM_HOURS" ->
         e.opens # Null /\ e.closes # Null /\ e.opens < e.closes
    [] e.type = "CLOSED" -> e.opens = Null /\ e.closes = Null

\* Faulty variant: without the partial index, since SQL nulls are never equal.
Unique_NullsDiffer(tab) ==
  \A k, l \in Row :
    (k # l /\ tab[k] # Absent /\ tab[l] # Absent) =>
      tab[k].period # tab[l].period \/ tab[k].period = Null

\* uq_restaurant_schedule_exception and the partial index for whole days, which
\* together admit one row per value of meal_period, null included
Unique(tab) ==
  \A k, l \in Row :
    (k # l /\ tab[k] # Absent /\ tab[l] # Absent) => tab[k].period # tab[l].period

\* ck_exception_opens_before_closes
HoursChecked(e) == e.opens # Null /\ e.closes # Null => e.opens < e.closes

\* POST, first half: the schema, then the query for an existing exception
BeginCreate(a) ==
  /\ request[a] = Idle
  /\ \E e \in Exception :
       /\ Valid(e)
       /\ \A x \in Rows : x.period # e.period
       /\ request' = [request EXCEPT ![a] = [step |-> "insert", new |-> e]]
  /\ UNCHANGED <<table, torn>>

\* POST, second half: INSERT and COMMIT, or IntegrityError and rollback
Insert(a) ==
  /\ request[a].step = "insert"
  /\ \E k \in Row :
       LET new == [table EXCEPT ![k] = request[a].new]
       IN  /\ table[k] = Absent
           /\ \/ Unique(new) /\ table' = new
              \/ ~ Unique(new) /\ UNCHANGED table
  /\ request' = [request EXCEPT ![a] = Idle]
  /\ UNCHANGED torn

\* PATCH, first half: the row is loaded
BeginPatch(a) ==
  /\ request[a] = Idle
  /\ \E k \in Row :
       /\ table[k] # Absent
       /\ request' = [request EXCEPT ![a] = [step |-> "patch", row |-> k, loaded |-> table[k]]]
  /\ UNCHANGED <<table, torn>>

\* the UPDATE writes the columns that differ from the loaded row
Written(current, loaded, new) ==
  LET col(cur, old, val) == IF val # old THEN val ELSE cur
  IN  [type   |-> col(current.type, loaded.type, new.type),
       period |-> col(current.period, loaded.period, new.period),
       opens  |-> col(current.opens, loaded.opens, new.opens),
       closes |-> col(current.closes, loaded.closes, new.closes)]

\* Faulty variant: the patched copy is not validated, the constraints of the table are.
PatchedTables_Unvalidated(r) ==
  {[table EXCEPT ![r.row] = Written(@, r.loaded, new)] : new \in Exception}

\* A PATCH sets any of the fields, also to null, so the patched copy of the loaded row
\* may be any exception; the valid ones are written.
PatchedTables(r) ==
  {[table EXCEPT ![r.row] = Written(@, r.loaded, new)] : new \in {e \in Exception : Valid(e)}}

\* PATCH, second half: the patched copy is validated, then UPDATE and COMMIT, or an
\* error and rollback
ApplyPatch(a) ==
  /\ request[a].step = "patch"
  /\ LET r == request[a]
     IN  /\ table' \in {table} \cup
               {tab \in PatchedTables(r) : HoursChecked(tab[r.row]) /\ Unique(tab)}
         /\ torn' = IF table' = table THEN torn
                    ELSE IF table[r.row] = r.loaded THEN torn \ {r.row}
                    ELSE torn \cup {r.row}
  /\ request' = [request EXCEPT ![a] = Idle]

Next == \E a \in Admin : BeginCreate(a) \/ Insert(a) \/ BeginPatch(a) \/ ApplyPatch(a)

Spec == Init /\ [][Next]_vars

-----------------------------------------------------------------------------
(* Properties *)

\* At most one exception of the whole day and one per period.
OneExceptionPerPeriod ==
  \A p \in Period \cup {Null} : \A k, l \in {k \in Row : table[k] # Absent} :
    table[k].period = p /\ table[l].period = p => k = l

\* Every variable holds a value of its type, and the rows satisfy what the table promises,
\* also when two requests found no exception and both insert, or a patch moves a row to
\* another period.
TypeOK ==
  /\ table \in [Row -> Exception \cup {Absent}]
  /\ \A e \in Rows : HoursChecked(e)
  /\ OneExceptionPerPeriod
  /\ request \in [Admin -> Request]
  /\ torn \subseteq Row

\* "CUSTOM_HOURS requires opens_at and closes_at; CLOSED cannot have them"
\* (src/app/models/restaurant.py:211): every row obeys, but one that a PATCH wrote
\* over the changes of another PATCH since it was read.
ValidUnlessTorn == \A k \in Row : table[k] # Absent /\ k \notin torn => Valid(table[k])

\* A period that an exception closes is never resolved, by any path: a report of it cannot
\* be accepted and its row cannot be recalculated.  What is resolved is open at that time
\* by an exception of its own or, when no exception of the date covers the time with a
\* period, by its schedule.
ResolvedIsOpen ==
  \A t \in Hour : \A p \in Resolve(Rows, Schedules, t) \cap Period :
   /\ PeriodClosed(Rows, p) = {} /\ WholeDayClosed(Rows) = {}
   /\ \/ \E e \in CustomHours(Rows) : e.period = p /\ Covers(e, t)
      \/ /\ \E s \in Schedules : s.period = p /\ Covers(s, t)
         /\ \A e \in CustomHours(Rows) : Covers(e, t) =>
              e.period = Null \/ \E x \in CustomHours(Rows) : x.period = Null /\ Covers(x, t)

\* The exception shown to users explains what resolve says: nothing but a whole day
\* closure when the day is closed, a closure when the period is closed, and the row
\* of the open period when it has one.
ActiveExceptionExplains ==
  \A t \in Hour :
    LET outcomes == Resolve(Rows, Schedules, t)
        shown    == ActiveException(Rows, Schedules, t)
    IN  /\ "closed_all_day" \in outcomes =>
             \A e \in shown : e # Null /\ e.type = "CLOSED" /\ e.period = Null
        /\ outcomes = {"period_closed"} =>
             \A e \in shown : e # Null /\ e.type = "CLOSED" /\ e.period # Null
        /\ \A o \in Period : outcomes = {o} =>
             shown = {e \in Rows : e.period = o} \/ (shown = {Null} /\ \A e \in Rows : e.period # o)

=============================================================================
