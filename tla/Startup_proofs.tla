---------------------------- MODULE Startup_proofs ----------------------------
(***************************************************************************)
(* Proofs about Administration for every number of requests, restaurants   *)
(* and schedules and for every table that satisfies the constraints; and,  *)
(* in the second half, that what they show of requests still holds when    *)
(* the process may end at any moment and the seed runs before it serves    *)
(* again.                                                                  *)
(***************************************************************************)
EXTENDS Startup, TLAPS

-----------------------------------------------------------------------------
(* What a request that is under way knows.  Rows are never deleted, so a    *)
(* key that was found stays; what was loaded was active; and the key of an  *)
(* uncommitted restaurant belongs to nobody else.                           *)

\* at most one period is open for a restaurant
OnePeriodEach(open) == \A a, b \in open : a[1] = b[1] => a = b

Held(r) ==
  /\ r.step \in {"found", "update", "row"} => r.ru \in Stored(restaurants)
  /\ r.step \in {"found", "update", "update_schedule"} => r.loaded.active = TRUE
  /\ r.step = "insert_schedule" => r.new.opens < r.new.closes
  /\ r.step = "update_schedule" => r.key \in Stored(schedules)
  /\ r.step = "bulk" => /\ r.todo \subseteq Stored(restaurants)
                        /\ \A o \in r.open : o[1] \in Stored(restaurants) \ r.todo
                        /\ OnePeriodEach(r.open)
  /\ r.step = "end" => /\ r.items = r.open
                       /\ OnePeriodEach(r.items)

RequestsInv == \A q \in Request : Held(request[q])

FreshKeys ==
  \A q \in Pending : /\ request[q].key \notin Stored(restaurants)
                     /\ \A o \in Pending : request[o].key = request[q].key => o = q

Tables == RowsForEveryRestaurant /\ OneSchedulePerSlot

IInv == TypeOK /\ Tables /\ RequestsInv /\ FreshKeys

-----------------------------------------------------------------------------
(* A step that leaves the tables alone keeps the invariant if the new state *)
(* of its request is a good one; answers without items always are.          *)

LEMMA RequestStep ==
  ASSUME IInv, NEW q \in Request, NEW r \in RequestState, Held(r), GoOn(q, r),
         UNCHANGED <<restaurants, schedules, snapshots>>,
         r.step \in {"rows", "commit"} =>
           /\ r.key \notin Stored(restaurants)
           /\ \A o \in Pending \ {q} : request[o].key # r.key
  PROVE  IInv'
<1>1. request' = [request EXCEPT ![q] = r] /\ request \in [Request -> RequestState]
  BY DEF GoOn, IInv, TypeOK
<1>2. TypeOK'
  BY <1>1 DEF IInv, TypeOK
<1>3. Tables'
  BY DEF IInv, Tables, RowsForEveryRestaurant, OneSchedulePerSlot, Stored
<1>4. RequestsInv'
  <2> SUFFICES ASSUME NEW o \in Request PROVE Held(request[o])'
    BY DEF RequestsInv
  <2>1. request'[o] = IF o = q THEN r ELSE request[o]
    BY <1>1
  <2>2. Held(request'[o])
    BY <2>1 DEF IInv, RequestsInv
  <2> QED
    BY <2>2 DEF Held, Stored
<1>5. FreshKeys'
  <2>1. Pending' \subseteq Pending \cup {q}
    BY <1>1 DEF Pending
  <2>2. q \in Pending' => r.step \in {"rows", "commit"}
    BY <1>1 DEF Pending
  <2>3. \A o \in Pending' \ {q} : o \in Pending /\ request'[o] = request[o]
    BY <1>1, <2>1 DEF Pending
  <2>4. request'[q] = r /\ Stored(restaurants)' = Stored(restaurants)
    BY <1>1 DEF Stored
  <2>5. FreshKeys
    BY DEF IInv
  <2> QED
    BY <2>1, <2>2, <2>3, <2>4, <2>5 DEF FreshKeys
<1> QED
  BY <1>2, <1>3, <1>4, <1>5 DEF IInv

LEMMA EndIsGood ==
  LET r == [step |-> "end", open |-> {}, items |-> {}]
  IN  r \in RequestState /\ Held(r)
  BY DEF RequestState, Held, OnePeriodEach

LEMMA EndStep ==
  ASSUME IInv, NEW q \in Request, End(q), UNCHANGED <<restaurants, schedules, snapshots>>
  PROVE  IInv'
  BY RequestStep, EndIsGood DEF End, Answer

-----------------------------------------------------------------------------
LEMMA InitIInv == Init => IInv
<1> SUFFICES ASSUME Init PROVE IInv
  OBVIOUS
<1>1. TypeOK
  <2>1. [step |-> "new"] \in RequestState
    BY DEF RequestState
  <2> QED
    BY <2>1, AdministrationAssumption DEF Init, TypeOK, Stored
<1>2. Tables
  BY AdministrationAssumption
     DEF Init, Tables, RowsForEveryRestaurant, OneSchedulePerSlot, HoursInOrder
<1>3. RequestsInv /\ FreshKeys
  BY DEF Init, RequestsInv, Held, FreshKeys, Pending
<1> QED
  BY <1>1, <1>2, <1>3 DEF IInv

-----------------------------------------------------------------------------
(* Requests that create a restaurant *)

LEMMA CreateSteps ==
  ASSUME IInv, NEW q \in Request, BeginCreate(q) \/ Insert(q) \/ InsertRows(q)
  PROVE  IInv'
<1>1. CASE BeginCreate(q)
  <2> PICK new \in Restaurant : End(q) \/ GoOn(q, [step |-> "insert", new |-> new])
    BY <1>1 DEF BeginCreate
  <2>1. [step |-> "insert", new |-> new] \in RequestState
    BY DEF RequestState
  <2>2. Held([step |-> "insert", new |-> new])
    BY DEF Held
  <2> QED
    BY <1>1, <2>1, <2>2, EndStep, RequestStep DEF BeginCreate
<1>2. CASE Insert(q)
  <2>1. CASE End(q)
    BY <1>2, <2>1, EndStep DEF Insert
  <2>2. CASE \E k \in FreeKeys : GoOn(q, [step |-> "rows", new |-> request[q].new, key |-> k])
    <3> PICK k \in FreeKeys : GoOn(q, [step |-> "rows", new |-> request[q].new, key |-> k])
      BY <2>2
    <3> DEFINE r == [step |-> "rows", new |-> request[q].new, key |-> k]
    <3>1. request[q].new \in Restaurant
      BY <1>2 DEF Insert, At, IInv, TypeOK, RequestState
    <3>2. k \in Key /\ k \notin Stored(restaurants) /\ \A o \in Pending : request[o].key # k
      BY DEF FreeKeys
    <3>3. r \in RequestState /\ Held(r)
      BY <3>1, <3>2 DEF RequestState, Held
    <3> QED
      BY <1>2, <3>2, <3>3, RequestStep DEF Insert
  <2> QED
    BY <1>2, <2>1, <2>2 DEF Insert
<1>3. CASE InsertRows(q)
  <2> DEFINE r == [request[q] EXCEPT !.step = "commit"]
  <2>1. request[q] \in [step : {"rows", "commit"}, new : Restaurant, key : Key]
    BY <1>3 DEF InsertRows, At, IInv, TypeOK, RequestState
  <2>2. r = [step |-> "commit", new |-> request[q].new, key |-> request[q].key]
    BY <2>1
  <2>3. r \in RequestState /\ Held(r)
    BY <2>1, <2>2 DEF RequestState, Held
  <2>4. q \in Pending
    BY <1>3 DEF InsertRows, At, Pending
  <2>5. r.key \notin Stored(restaurants) /\ \A o \in Pending \ {q} : request[o].key # r.key
    BY <2>2, <2>4 DEF IInv, FreshKeys
  <2> QED
    BY <1>3, <2>3, <2>5, RequestStep DEF InsertRows
<1> QED
  BY <1>1, <1>2, <1>3

(* A request that writes ends with it.  The others keep what they know when  *)
(* no row goes away and no key of an uncommitted row is taken.               *)

LEMMA WriteStep ==
  ASSUME IInv, NEW q \in Request, End(q), TypeOK', Tables',
         Stored(restaurants) \subseteq Stored(restaurants)',
         Stored(schedules) \subseteq Stored(schedules)',
         \A o \in Pending \ {q} : request[o].key \notin Stored(restaurants)'
  PROVE  IInv'
<1> DEFINE end == [step |-> "end", open |-> {}, items |-> {}]
<1>1. request' = [request EXCEPT ![q] = end] /\ request \in [Request -> RequestState]
  BY DEF End, Answer, GoOn, IInv, TypeOK
<1>2. RequestsInv'
  <2> SUFFICES ASSUME NEW o \in Request PROVE Held(request[o])'
    BY DEF RequestsInv
  <2>1. request'[o] = IF o = q THEN end ELSE request[o]
    BY <1>1
  <2>2. Held(request'[o])
    BY <2>1, EndIsGood DEF IInv, RequestsInv
  <2> QED
    BY <2>2 DEF Held
<1>3. FreshKeys'
  <2>1. \A o \in Pending' : o \in Pending \ {q} /\ request'[o] = request[o]
    BY <1>1 DEF Pending
  <2> QED
    BY <2>1 DEF IInv, FreshKeys
<1> QED
  BY <1>2, <1>3 DEF IInv

LEMMA CommitStep == ASSUME IInv, NEW q \in Request, Commit(q) PROVE IInv'
<1> DEFINE k == request[q].key  new == request[q].new
<1>1. k \in Key /\ new \in Restaurant /\ q \in Pending
  BY DEF Commit, At, Pending, IInv, TypeOK, RequestState
<1>2. \A o \in Pending \ {q} : request[o].key \notin Stored(restaurants) \cup {k}
  BY <1>1 DEF IInv, FreshKeys
<1>3. /\ restaurants' = [restaurants EXCEPT ![k] = new]
      /\ snapshots' = snapshots \cup ({k} \X Period)
      /\ schedules' = schedules /\ End(q)
  BY DEF Commit
<1>4. new # Absent
  BY <1>1, AdministrationAssumption
<1> HIDE DEF k, new
<1>5. Stored(restaurants)' = Stored(restaurants) \cup {k}
  BY <1>1, <1>3, <1>4 DEF Stored, IInv, TypeOK
<1>6. TypeOK'
  BY <1>1, <1>3, EndIsGood DEF IInv, TypeOK, End, Answer, GoOn
<1>7. Tables'
  BY <1>3, <1>5 DEF IInv, Tables, RowsForEveryRestaurant, OneSchedulePerSlot, Stored
<1>8. Stored(schedules)' = Stored(schedules)
  BY <1>3 DEF Stored
<1> QED
  BY <1>2, <1>3, <1>5, <1>6, <1>7, <1>8, WriteStep

-----------------------------------------------------------------------------
(* Requests for one restaurant *)

LEMMA UpdateSteps ==
  ASSUME IInv, NEW q \in Request, Lookup(q) \/ CheckName(q) \/ Update(q)
  PROVE  IInv'
<1>1. CASE Lookup(q)
  <2> PICK k \in Key :
        IF k \in Active(restaurants)
        THEN GoOn(q, [step |-> "found", ru |-> k, loaded |-> restaurants[k]])
        ELSE End(q)
    BY <1>1 DEF Lookup
  <2> DEFINE r == [step |-> "found", ru |-> k, loaded |-> restaurants[k]]
  <2>1. CASE k \in Active(restaurants)
    <3>1. restaurants[k] \in Restaurant /\ k \in Stored(restaurants) /\ restaurants[k].active = TRUE
      BY <2>1 DEF Active, Stored, IInv, TypeOK, Restaurant
    <3>2. r \in RequestState /\ Held(r)
      BY <3>1 DEF RequestState, Held
    <3> QED
      BY <1>1, <2>1, <3>2, RequestStep DEF Lookup
  <2> QED
    BY <1>1, <2>1, EndStep DEF Lookup
<1>2. CASE CheckName(q)
  <2> DEFINE r(new) == [step |-> "update", ru |-> request[q].ru,
                        loaded |-> request[q].loaded, new |-> new]
  <2> PICK new \in Restaurant : End(q) \/ GoOn(q, r(new))
    BY <1>2 DEF CheckName
  <2>1. request[q].ru \in Key /\ request[q].loaded \in Restaurant
    BY <1>2 DEF CheckName, At, IInv, TypeOK, RequestState
  <2>2. request[q].ru \in Stored(restaurants) /\ request[q].loaded.active = TRUE
    BY <1>2 DEF CheckName, At, IInv, RequestsInv, Held
  <2>3. r(new) \in RequestState /\ Held(r(new))
    BY <2>1, <2>2 DEF RequestState, Held
  <2> QED
    BY <1>2, <2>3, EndStep, RequestStep DEF CheckName
<1>3. CASE Update(q)
  <2> DEFINE ru == request[q].ru
             row == Written(restaurants[ru], request[q].loaded, request[q].new)
  <2>1. CASE UNCHANGED restaurants
    BY <1>3, <2>1, EndStep DEF Update
  <2>2. CASE restaurants' = [restaurants EXCEPT ![ru] = row]
    <3>1. /\ request[q].ru \in Key
          /\ request[q].loaded \in Restaurant /\ request[q].new \in Restaurant
      BY <1>3 DEF Update, At, IInv, TypeOK, RequestState
    <3>2. ru \in Stored(restaurants)
      BY <1>3 DEF Update, At, IInv, RequestsInv, Held
    <3>3. restaurants[ru] \in Restaurant
      BY <3>1, <3>2 DEF Stored, IInv, TypeOK
    <3>4. row \in Restaurant
      BY <3>1, <3>3 DEF Written, Restaurant
    <3>5. row # Absent
      BY <3>4, AdministrationAssumption
    <3> HIDE DEF row
    <3>6. Stored(restaurants)' = Stored(restaurants)
      BY <2>2, <3>2, <3>5 DEF Stored, IInv, TypeOK
    <3>7. /\ schedules' = schedules /\ snapshots' = snapshots /\ End(q)
      BY <1>3 DEF Update
    <3>8. TypeOK'
      BY <2>2, <3>1, <3>4, <3>7, EndIsGood DEF IInv, TypeOK, End, Answer, GoOn
    <3>9. Tables'
      BY <3>6, <3>7 DEF IInv, Tables, RowsForEveryRestaurant, OneSchedulePerSlot, Stored
    <3>10. Stored(schedules)' = Stored(schedules)
      BY <3>7 DEF Stored
    <3> QED
      BY <3>6, <3>7, <3>8, <3>9, <3>10, WriteStep DEF IInv, FreshKeys
  <2> QED
    BY <1>3, <2>1, <2>2 DEF Update
<1> QED
  BY <1>1, <1>2, <1>3

-----------------------------------------------------------------------------
(* Regular schedules *)

LEMMA ReadScheduleSteps ==
  ASSUME IInv, NEW q \in Request, CheckDuplicate(q) \/ LoadSchedule(q)
  PROVE  IInv'
<1>1. CASE CheckDuplicate(q)
  <2> PICK new \in ScheduleRow :
        /\ new.opens < new.closes
        /\ End(q) \/ GoOn(q, [step |-> "insert_schedule", new |-> new])
    BY <1>1 DEF CheckDuplicate, NewSchedules
  <2>1. [step |-> "insert_schedule", new |-> new] \in RequestState
    BY DEF RequestState
  <2>2. Held([step |-> "insert_schedule", new |-> new])
    BY DEF Held
  <2> QED
    BY <1>1, <2>1, <2>2, EndStep, RequestStep DEF CheckDuplicate
<1>2. CASE LoadSchedule(q)
  <2> DEFINE r(x) == [step |-> "update_schedule", key |-> x, loaded |-> schedules[x]]
  <2>1. CASE \E x \in Active(schedules) : GoOn(q, r(x))
    <3> PICK x \in Active(schedules) : GoOn(q, r(x))
      BY <2>1
    <3>1. x \in ScheduleKey /\ x \in Stored(schedules) /\ schedules[x] \in ScheduleRow
      BY DEF Active, Stored, IInv, TypeOK
    <3>2. schedules[x].active = TRUE
      BY <3>1 DEF Active, ScheduleRow
    <3>3. r(x) \in RequestState /\ Held(r(x))
      BY <3>1, <3>2 DEF RequestState, Held
    <3> QED
      BY <1>2, <3>3, RequestStep DEF LoadSchedule
  <2> QED
    BY <1>2, <2>1, EndStep DEF LoadSchedule
<1> QED
  BY <1>1, <1>2

\* A row that the table accepts keeps its constraints.
LEMMA StoreSchedule ==
  ASSUME IInv, NEW q \in Request, End(q), UNCHANGED <<restaurants, snapshots>>,
         NEW x \in ScheduleKey, NEW row \in ScheduleRow, SlotFree(x, row),
         schedules' = [schedules EXCEPT ![x] = row]
  PROVE  IInv'
<1>1. row # Absent
  BY AdministrationAssumption
<1>2. Stored(schedules)' = Stored(schedules) \cup {x}
  BY <1>1 DEF Stored, IInv, TypeOK
<1>3. \A y \in ScheduleKey : schedules'[y] = IF y = x THEN row ELSE schedules[y]
  BY DEF IInv, TypeOK
<1>4. Stored(schedules) \subseteq ScheduleKey
  BY DEF Stored, IInv, TypeOK
<1>5. OneSchedulePerSlot'
  <2>1. ASSUME NEW y \in Stored(schedules) \cup {x}, NEW z \in Stored(schedules) \cup {x},
               SameSlot(schedules'[y], schedules'[z])
        PROVE  y = z
    BY <1>3, <1>4, <2>1 DEF IInv, Tables, OneSchedulePerSlot, SlotFree, SameSlot
  <2> QED
    BY <1>2, <2>1 DEF OneSchedulePerSlot, SameSlot
<1>6. TypeOK'
  BY EndIsGood DEF IInv, TypeOK, End, Answer, GoOn
<1>7. Stored(restaurants)' = Stored(restaurants)
  BY DEF Stored
<1>8. Tables'
  BY <1>5, <1>7 DEF IInv, Tables, RowsForEveryRestaurant
<1> QED
  BY <1>2, <1>6, <1>7, <1>8, WriteStep DEF IInv, FreshKeys

LEMMA WriteScheduleSteps ==
  ASSUME IInv, NEW q \in Request, InsertSchedule(q) \/ UpdateSchedule(q)
  PROVE  IInv'
<1>1. CASE InsertSchedule(q)
  <2> DEFINE new == request[q].new
  <2>1. CASE UNCHANGED schedules
    BY <1>1, <2>1, EndStep DEF InsertSchedule
  <2>2. CASE \E x \in ScheduleKey :
               SlotFree(x, new) /\ schedules' = [schedules EXCEPT ![x] = new]
    <3> PICK x \in ScheduleKey :
               SlotFree(x, new) /\ schedules' = [schedules EXCEPT ![x] = new]
      BY <2>2
    <3>1. new \in ScheduleRow
      BY <1>1 DEF InsertSchedule, At, IInv, TypeOK, RequestState
    <3> QED
      BY <1>1, <3>1, StoreSchedule DEF InsertSchedule
  <2> QED
    BY <1>1, <2>1, <2>2 DEF InsertSchedule
<1>2. CASE UpdateSchedule(q)
  <2> DEFINE r == request[q]
             row(new) == Written(schedules[r.key], r.loaded, new)
  <2>1. CASE UNCHANGED schedules
    BY <1>2, <2>1, EndStep DEF UpdateSchedule
  <2>2. CASE \E new \in ScheduleRow :
               SlotFree(r.key, row(new)) /\ schedules' = [schedules EXCEPT ![r.key] = row(new)]
    <3> PICK new \in ScheduleRow :
               SlotFree(r.key, row(new)) /\ schedules' = [schedules EXCEPT ![r.key] = row(new)]
      BY <2>2
    <3>1. r.key \in ScheduleKey
      BY <1>2 DEF UpdateSchedule, At, IInv, TypeOK, RequestState
    <3>2. r.key \in Stored(schedules)
      BY <1>2 DEF UpdateSchedule, At, IInv, RequestsInv, Held
    <3>3. schedules[r.key] \in ScheduleRow
      BY <3>1, <3>2 DEF Stored, IInv, TypeOK
    <3>4. row(new) \in ScheduleRow
      BY <3>3 DEF Written, ScheduleRow
    <3> QED
      BY <1>2, <3>1, <3>4, StoreSchedule DEF UpdateSchedule
  <2> QED
    BY <1>2, <2>1, <2>2 DEF UpdateSchedule
<1> QED
  BY <1>1, <1>2

-----------------------------------------------------------------------------
(* Requests that read the status *)

LEMMA StatusSteps ==
  ASSUME IInv, NEW q \in Request, ResolveStatus(q) \/ ReadRow(q)
  PROVE  IInv'
<1>1. CASE ResolveStatus(q)
  <2> DEFINE r(p) == [step |-> "row", ru |-> request[q].ru, period |-> p]
  <2>1. CASE \E p \in Period : GoOn(q, r(p))
    <3> PICK p \in Period : GoOn(q, r(p))
      BY <2>1
    <3>1. request[q].ru \in Key
      BY <1>1 DEF ResolveStatus, At, IInv, TypeOK, RequestState
    <3>2. request[q].ru \in Stored(restaurants)
      BY <1>1 DEF ResolveStatus, At, IInv, RequestsInv, Held
    <3>3. r(p) \in RequestState /\ Held(r(p))
      BY <3>1, <3>2 DEF RequestState, Held
    <3> QED
      BY <1>1, <3>3, RequestStep DEF ResolveStatus
  <2> QED
    BY <1>1, <2>1, EndStep DEF ResolveStatus
<1>2. CASE ReadRow(q)
  <2> DEFINE o == <<request[q].ru, request[q].period>>
             r == [step |-> "end", open |-> {o}, items |-> {o} \cap snapshots]
  <2>1. o \in Key \X Period
    BY <1>2 DEF ReadRow, At, IInv, TypeOK, RequestState
  <2>2. request[q].ru \in Stored(restaurants)
    BY <1>2 DEF ReadRow, At, IInv, RequestsInv, Held
  <2>3. o \in snapshots
    BY <2>1, <2>2 DEF IInv, Tables, RowsForEveryRestaurant
  <2> HIDE DEF o
  <2>4. {o} \cap snapshots = {o}
    BY <2>3
  <2>5. r \in RequestState /\ Held(r)
    BY <2>1, <2>4 DEF RequestState, Held, OnePeriodEach
  <2>6. GoOn(q, r)
    BY <1>2 DEF ReadRow, Answer, o
  <2> QED
    BY <1>2, <2>5, <2>6, RequestStep DEF ReadRow
<1> QED
  BY <1>1, <1>2

LEMMA BulkSteps ==
  ASSUME IInv, NEW q \in Request, BeginBulk(q) \/ ResolveNext(q) \/ ReadRows(q)
  PROVE  IInv'
<1>1. CASE BeginBulk(q)
  <2> PICK t \in Hour, ids \in SUBSET Key :
        GoOn(q, [step |-> "bulk", at |-> t, todo |-> ids \cap Active(restaurants), open |-> {}])
    BY <1>1 DEF BeginBulk
  <2> DEFINE found == ids \cap Active(restaurants)
             r == [step |-> "bulk", at |-> t, todo |-> found, open |-> {}]
  <2>1. found \subseteq Key /\ found \subseteq Stored(restaurants)
    BY DEF Active
  <2> HIDE DEF found
  <2>2. r \in RequestState /\ Held(r)
    BY <2>1 DEF RequestState, Held, OnePeriodEach
  <2> QED
    BY <1>1, <2>2, RequestStep DEF BeginBulk, found
<1> DEFINE r == request[q]
<1>2. ASSUME At(q, "bulk")
      PROVE  /\ r \in [step : {"bulk"}, at : Hour, todo : SUBSET Key,
                        open : SUBSET (Key \X Period)]
             /\ r.todo \subseteq Stored(restaurants)
             /\ \A o \in r.open : o[1] \in Stored(restaurants) \ r.todo
             /\ OnePeriodEach(r.open)
  BY <1>2 DEF At, IInv, TypeOK, RequestState, RequestsInv, Held
<1>3. CASE ResolveNext(q)
  <2> PICK k \in r.todo : \E p \in Resolved(k, r.at) :
        GoOn(q, [step |-> "bulk", at |-> r.at, todo |-> r.todo \ {k},
                 open |-> IF p \in Period THEN r.open \cup {<<k, p>>} ELSE r.open])
    BY <1>3 DEF ResolveNext
  <2> PICK p : GoOn(q, [step |-> "bulk", at |-> r.at, todo |-> r.todo \ {k},
                        open |-> IF p \in Period THEN r.open \cup {<<k, p>>} ELSE r.open])
    OBVIOUS
  <2> DEFINE todo == r.todo \ {k}
             open == IF p \in Period THEN r.open \cup {<<k, p>>} ELSE r.open
             new == [step |-> "bulk", at |-> r.at, todo |-> todo, open |-> open]
  <2>1. At(q, "bulk")
    BY <1>3 DEF ResolveNext
  <2>2. todo \subseteq Key /\ open \subseteq Key \X Period
    BY <1>2, <2>1
  <2>3. /\ todo \subseteq Stored(restaurants)
        /\ \A o \in open : o[1] \in Stored(restaurants) \ todo
        /\ OnePeriodEach(open)
    BY <1>2, <2>1 DEF OnePeriodEach
  <2>4. GoOn(q, new)
    OBVIOUS
  <2> HIDE DEF todo, open
  <2>5. new \in RequestState /\ Held(new)
    BY <1>2, <2>1, <2>2, <2>3 DEF RequestState, Held
  <2> QED
    BY <1>3, <2>4, <2>5, RequestStep DEF ResolveNext
<1>4. CASE ReadRows(q)
  <2> DEFINE open == r.open
             new == [step |-> "end", open |-> open, items |-> BulkItems(open)]
  <2>1. At(q, "bulk") /\ GoOn(q, new)
    BY <1>4 DEF ReadRows, Answer
  <2>2. open \subseteq snapshots
    BY <1>2, <2>1 DEF IInv, Tables, RowsForEveryRestaurant
  <2>3. OnePeriodEach(open) /\ open \subseteq Key \X Period
    BY <1>2, <2>1
  <2> HIDE DEF open
  <2>4. BulkItems(open) = open
    <3>1. ASSUME NEW i \in open PROVE i \in BulkItems(open)
      <4>1. i[2] \in Period /\ i = <<i[1], i[2]>> /\ i \in snapshots
        BY <2>2, <2>3
      <4>2. i \in snapshots \cap ({o[1] : o \in {x \in open : x[2] = i[2]}} \X {i[2]})
        BY <4>1
      <4> QED
        BY <4>1, <4>2 DEF BulkItems
    <3>2. ASSUME NEW i \in BulkItems(open) PROVE i \in open
      <4> PICK p \in Period : i \in {o[1] : o \in {x \in open : x[2] = p}} \X {p}
        BY DEF BulkItems
      <4> PICK o \in open : o[2] = p /\ i = <<o[1], p>>
        OBVIOUS
      <4> QED
        BY <2>3
    <3> QED
      BY <3>1, <3>2
  <2>5. new \in RequestState /\ Held(new)
    BY <2>3, <2>4 DEF RequestState, Held
  <2> QED
    BY <1>4, <2>1, <2>5, RequestStep DEF ReadRows
<1> QED
  BY <1>1, <1>3, <1>4

-----------------------------------------------------------------------------
LEMMA NextIInv == IInv /\ [Next]_vars => IInv'
<1> SUFFICES ASSUME IInv, [Next]_vars PROVE IInv'
  OBVIOUS
<1>1. CASE UNCHANGED vars
  BY <1>1 DEF vars, IInv, TypeOK, Tables, RowsForEveryRestaurant, OneSchedulePerSlot,
              RequestsInv, Held, FreshKeys, Pending, Stored
<1>2. ASSUME NEW q \in Request, Rollback(q) PROVE IInv'
  BY <1>2, EndStep DEF Rollback
<1> QED
  BY <1>1, <1>2, CreateSteps, CommitStep, UpdateSteps, ReadScheduleSteps, WriteScheduleSteps,
     StatusSteps, BulkSteps DEF Next

THEOREM Inductive == Spec => []IInv
  BY InitIInv, NextIInv, PTL DEF Spec

\* Every variable always holds a value of its type.
THEOREM TypeCorrect == Spec => []TypeOK
<1>1. IInv => TypeOK
  BY DEF IInv
<1> QED
  BY Inductive, <1>1, PTL

\* A restaurant is never seen without its two rows, nor a row without its restaurant: the
\* three INSERTs of create_restaurant are committed together.
THEOREM RowsComeWithRestaurants == Spec => []RowsForEveryRestaurant
<1>1. IInv => RowsForEveryRestaurant
  BY DEF IInv, Tables
<1> QED
  BY Inductive, <1>1, PTL

\* The regular schedules keep to one per weekday and period, however many requests race.
THEOREM SlotsStaySingle == Spec => []OneSchedulePerSlot
<1>1. IInv => OneSchedulePerSlot
  BY DEF IInv, Tables
<1> QED
  BY Inductive, <1>1, PTL

\* get_status and get_bulk_status show one row for each restaurant that they find open.
THEOREM ReadersShowEveryRestaurant == Spec => []OneItemPerOpenRestaurant
<1>1. IInv => OneItemPerOpenRestaurant
  BY DEF IInv, RequestsInv, Held, OnePeriodEach, OneItemPerOpenRestaurant, At
<1> QED
  BY Inductive, <1>1, PTL

-----------------------------------------------------------------------------
(* No step writes is_active back.                                           *)

Final ==
  /\ \A k \in Stored(restaurants) \ Active(restaurants) : ~ restaurants'[k].active
  /\ \A x \in Stored(schedules) \ Active(schedules) : ~ schedules'[x].active

LEMMA StepIsFinal == IInv /\ [Next]_vars => [Final]_vars
<1> SUFFICES ASSUME IInv, Next PROVE Final
  BY DEF vars
<1> DEFINE RestaurantsFinal ==
             \A k \in Stored(restaurants) \ Active(restaurants) : ~ restaurants'[k].active
           SchedulesFinal ==
             \A x \in Stored(schedules) \ Active(schedules) : ~ schedules'[x].active
<1>1. UNCHANGED restaurants => RestaurantsFinal
  BY DEF Active
<1>2. UNCHANGED schedules => SchedulesFinal
  BY DEF Active
<1>3. ASSUME NEW q \in Request, Commit(q) PROVE RestaurantsFinal
  <2>1. q \in Pending
    BY <1>3 DEF Commit, At, Pending
  <2>2. request[q].key \notin Stored(restaurants)
    BY <2>1 DEF IInv, FreshKeys
  <2>3. \A k \in Stored(restaurants) : restaurants'[k] = restaurants[k]
    BY <1>3, <2>2 DEF Commit, Stored, IInv, TypeOK
  <2> QED
    BY <2>3 DEF Active
<1>4. ASSUME NEW q \in Request, Update(q) PROVE RestaurantsFinal
  <2> DEFINE ru == request[q].ru
             row == Written(restaurants[ru], request[q].loaded, request[q].new)
  <2>1. CASE restaurants' = [restaurants EXCEPT ![ru] = row]
    <3>1. request[q].loaded.active = TRUE
      BY <1>4 DEF Update, At, IInv, RequestsInv, Held
    <3>2. request[q].new \in Restaurant
      BY <1>4 DEF Update, At, IInv, TypeOK, RequestState
    <3> SUFFICES ASSUME NEW k \in Stored(restaurants) \ Active(restaurants)
                 PROVE  ~ restaurants'[k].active
      OBVIOUS
    <3>3. k \in Key /\ restaurants[k] \in Restaurant /\ restaurants[k].active = FALSE
      BY DEF Stored, Active, IInv, TypeOK, Restaurant
    <3>4. k = ru => row.active = FALSE
      BY <3>1, <3>2, <3>3 DEF Written, Restaurant
    <3> HIDE DEF row
    <3> QED
      BY <2>1, <3>3, <3>4 DEF IInv, TypeOK
  <2> QED
    BY <1>1, <1>4, <2>1 DEF Update
<1>5. ASSUME NEW q \in Request, InsertSchedule(q) PROVE SchedulesFinal
  <2>1. \A x \in Stored(schedules) : schedules'[x] = schedules[x]
    BY <1>5 DEF InsertSchedule, Stored, IInv, TypeOK
  <2> QED
    BY <2>1 DEF Active
<1>6. ASSUME NEW q \in Request, UpdateSchedule(q) PROVE SchedulesFinal
  <2> DEFINE r == request[q]
             row(new) == Written(schedules[r.key], r.loaded, new)
  <2>1. CASE \E new \in ScheduleRow : schedules' = [schedules EXCEPT ![r.key] = row(new)]
    <3> PICK new \in ScheduleRow : schedules' = [schedules EXCEPT ![r.key] = row(new)]
      BY <2>1
    <3>1. r.loaded.active = TRUE
      BY <1>6 DEF UpdateSchedule, At, IInv, RequestsInv, Held
    <3> SUFFICES ASSUME NEW x \in Stored(schedules) \ Active(schedules)
                 PROVE  ~ schedules'[x].active
      OBVIOUS
    <3>2. x \in ScheduleKey /\ schedules[x] \in ScheduleRow /\ schedules[x].active = FALSE
      BY DEF Stored, Active, IInv, TypeOK, ScheduleRow
    <3>3. x = r.key => row(new).active = FALSE
      BY <3>1, <3>2 DEF Written, ScheduleRow
    <3> HIDE DEF row
    <3> QED
      BY <3>2, <3>3 DEF IInv, TypeOK
  <2> QED
    BY <1>2, <1>6, <2>1 DEF UpdateSchedule
<1>7. RestaurantsFinal /\ SchedulesFinal
  BY <1>1, <1>2, <1>3, <1>4, <1>5, <1>6
     DEF Next, BeginCreate, Insert, InsertRows, Commit, Lookup, CheckName, Update, CheckDuplicate,
         InsertSchedule, LoadSchedule, UpdateSchedule, ResolveStatus, ReadRow, BeginBulk,
         ResolveNext, ReadRows, Rollback
<1> QED
  BY <1>7 DEF Final

\* What was deactivated stays so: a PATCH loads active rows only and writes only what it
\* changes, so it never writes back a TRUE that another one has overwritten.
THEOREM DeactivationHolds == Spec => DeactivationIsFinal
<1>1. [Final]_vars => [/\ \A k \in Stored(restaurants) \ Active(restaurants) : ~ restaurants'[k].active
                      /\ \A x \in Stored(schedules) \ Active(schedules) : ~ schedules'[x].active]_vars
  BY DEF Final
<1> QED
  BY Inductive, StepIsFinal, <1>1, PTL DEF Spec, DeactivationIsFinal

-----------------------------------------------------------------------------
(* Who gets the hours of a schedule out of order.  A PATCH whose copy is    *)
(* still the stored row writes the patched copy itself, which it has        *)
(* validated; every other schedule is stored as it was validated.           *)

Raced(x) == \E q \in Request :
  /\ At(q, "update_schedule") /\ request[q].key = x /\ request'[q] # request[q]
  /\ request[q].loaded # schedules[x]

HoursTorn == \A x \in Torn(schedules') \ Torn(schedules) : Raced(x)

LEMMA HoursAreInts == Hour \subseteq Int
BY CalendarAssumption

\* Of several rows only the one that is written can get out of order.
LEMMA OneTorn ==
  ASSUME IInv, NEW x \in ScheduleKey, NEW new \in ScheduleRow,
         schedules' = [schedules EXCEPT ![x] = new], new.opens < new.closes \/ Raced(x)
  PROVE  HoursTorn
<1>1. \A y \in Torn(schedules') : y \in ScheduleKey /\ schedules'[y] # Absent
  BY DEF Torn, Stored, IInv, TypeOK
<1>2. \A y \in ScheduleKey \ {x} : y \in Torn(schedules') => y \in Torn(schedules)
  BY DEF Torn, Stored, IInv, TypeOK
<1>3. x \in Torn(schedules') => new.opens >= new.closes
  BY DEF Torn, Stored, IInv, TypeOK
<1>4. new.opens \in Int /\ new.closes \in Int
  BY HoursAreInts DEF ScheduleRow
<1>5. new.opens >= new.closes => ~ (new.opens < new.closes)
  BY <1>4
<1>6. x \in Torn(schedules') => Raced(x)
  BY <1>3, <1>5, Zenon
<1> QED
  BY <1>1, <1>2, <1>6 DEF HoursTorn

LEMMA StepTearsInRaces == IInv /\ [Next]_vars => [HoursTorn]_vars
<1> SUFFICES ASSUME IInv, Next PROVE HoursTorn
  BY DEF vars
<1>1. UNCHANGED schedules => HoursTorn
  BY DEF HoursTorn
<1>2. ASSUME NEW q \in Request, InsertSchedule(q) PROVE HoursTorn
  <2>1. request[q].new \in ScheduleRow /\ request[q].new.opens < request[q].new.closes
    BY <1>2 DEF InsertSchedule, At, IInv, TypeOK, RequestState, RequestsInv, Held
  <2> QED
    BY <1>1, <1>2, <2>1, OneTorn DEF InsertSchedule
<1>3. ASSUME NEW q \in Request, UpdateSchedule(q) PROVE HoursTorn
  <2> DEFINE r == request[q]
             row(new) == Written(schedules[r.key], r.loaded, new)
  <2>1. CASE UNCHANGED schedules
    BY <1>1, <2>1
  <2>2. CASE \E new \in ScheduleRow :
               new.opens < new.closes /\ schedules' = [schedules EXCEPT ![r.key] = row(new)]
    <3> PICK new \in ScheduleRow :
               new.opens < new.closes /\ schedules' = [schedules EXCEPT ![r.key] = row(new)]
      BY <2>2
    <3>1. r.key \in ScheduleKey /\ r.loaded \in ScheduleRow
      BY <1>3 DEF UpdateSchedule, At, IInv, TypeOK, RequestState
    <3>2. r.key \in Stored(schedules)
      BY <1>3 DEF UpdateSchedule, At, IInv, RequestsInv, Held
    <3>3. schedules[r.key] \in ScheduleRow
      BY <3>1, <3>2 DEF Stored, IInv, TypeOK
    <3>4. row(new) \in ScheduleRow
      BY <3>3 DEF Written, ScheduleRow
    <3>5. CASE r.loaded = schedules[r.key]
      <4>1. row(new).opens = new.opens /\ row(new).closes = new.closes
        BY <3>3, <3>5 DEF Written, ScheduleRow
      <4> QED
        BY <3>1, <3>4, <4>1, OneTorn
    <3>6. CASE r.loaded # schedules[r.key]
      <4>1. At(q, "update_schedule") /\ request'[q] # request[q]
        BY <1>3 DEF UpdateSchedule, At, End, Answer, GoOn, IInv, TypeOK
      <4>2. Raced(r.key)
        BY <3>6, <4>1 DEF Raced
      <4> QED
        BY <3>1, <3>4, <4>2, OneTorn
    <3> QED
      BY <3>5, <3>6
  <2> QED
    BY <1>3, <2>1, <2>2 DEF UpdateSchedule, PatchAccepted
<1> QED
  BY <1>1, <1>2, <1>3
     DEF Next, BeginCreate, Insert, InsertRows, Commit, Lookup, CheckName, Update, CheckDuplicate,
         LoadSchedule, ResolveStatus, ReadRow, BeginBulk, ResolveNext, ReadRows, Rollback

-----------------------------------------------------------------------------
(* Restarts *)

\* Nothing is under way while the server is down.
Idle == \A q \in Request : request[q].step \in {"new", "end"}

SInv == IInv /\ (server = "down" => Idle)

-----------------------------------------------------------------------------
(* Rows under new keys *)

\* Inserted changes no row and gives each of the rows one key that was free.
LEMMA InsertedRows ==
  ASSUME NEW T, NEW S, NEW table \in [S -> T \cup {Absent}], Absent \notin T,
         NEW rows, rows \subseteq T, NEW new \in Inserted(table, rows)
  PROVE  /\ new \in [S -> T \cup {Absent}]
         /\ \A k \in Stored(table) : new[k] = table[k] /\ k \in Stored(new)
         /\ \A k \in Stored(new) \ Stored(table) : new[k] \in rows
         /\ \A j, k \in Stored(new) \ Stored(table) : new[j] = new[k] => j = k
         /\ \A r \in rows : \E k \in Stored(new) \ Stored(table) : new[k] = r
<1> PICK K \in SUBSET (S \ Stored(table)) : \E f \in Bijection(K, rows) :
        new = [k \in DOMAIN table |-> IF k \in DOMAIN f THEN f[k] ELSE table[k]]
  BY DEF Inserted
<1> PICK f \in Bijection(K, rows) :
        new = [k \in DOMAIN table |-> IF k \in DOMAIN f THEN f[k] ELSE table[k]]
  OBVIOUS
<1>1. /\ f \in [K -> rows]
      /\ \A a, b \in K : f[a] = f[b] => a = b
      /\ \A r \in rows : \E k \in K : f[k] = r
  BY DEF Bijection, Injection, Surjection, IsInjective
<1>2. \A k \in S : new[k] = IF k \in K THEN f[k] ELSE table[k]
  BY <1>1
<1>3. new \in [S -> T \cup {Absent}]
  BY <1>1
<1>4. /\ Stored(new) = Stored(table) \cup K
      /\ Stored(table) \cap K = {} /\ Stored(table) \subseteq S /\ K \subseteq S
  BY <1>1, <1>2, <1>3 DEF Stored
<1>5. Stored(new) \ Stored(table) = K /\ \A k \in K : new[k] = f[k]
  BY <1>2, <1>4
<1>6. \A k \in Stored(table) : new[k] = table[k]
  BY <1>2, <1>4
<1> QED
  BY <1>1, <1>3, <1>4, <1>5, <1>6

-----------------------------------------------------------------------------
(* The steps *)

LEMMA InitSInv == StartupInit => SInv
<1> SUFFICES ASSUME StartupInit PROVE SInv
  OBVIOUS
<1>1. Idle
  BY DEF StartupInit, Init, Idle
<1> QED
  BY <1>1, InitIInv DEF StartupInit, SInv

LEMMA CrashStep == ASSUME SInv, Crash PROVE SInv'
<1> DEFINE end == [step |-> "end", open |-> {}, items |-> {}]
<1>1. \A q \in Request :
        request'[q] = IF request[q].step \in {"new", "end"} THEN request[q] ELSE end
  BY DEF Crash
<1>2. Idle'
  BY <1>1 DEF Idle
<1>3. TypeOK'
  BY <1>1, EndIsGood DEF Crash, SInv, IInv, TypeOK
<1>4. Tables'
  BY DEF Crash, SInv, IInv, Tables, RowsForEveryRestaurant, OneSchedulePerSlot, Stored
<1>5. RequestsInv'
  <2> SUFFICES ASSUME NEW q \in Request PROVE Held(request[q])'
    BY DEF RequestsInv
  <2>1. Held(request'[q])
    BY <1>1, EndIsGood DEF SInv, IInv, RequestsInv
  <2> QED
    BY <2>1 DEF Held, Stored, Crash
<1>6. FreshKeys'
  BY <1>2 DEF FreshKeys, Pending, Idle
<1> QED
  BY <1>2, <1>3, <1>4, <1>5, <1>6 DEF SInv, IInv

\* What a start makes of the tables.
LEMMA Seeding ==
  ASSUME SInv, Start
  PROVE  /\ restaurants' \in [Key -> Restaurant \cup {Absent}]
         /\ schedules' \in [ScheduleKey -> ScheduleRow \cup {Absent}]
         /\ \A k \in Stored(restaurants) : k \in Stored(restaurants') /\ restaurants'[k] = restaurants[k]
         /\ \A x \in Stored(schedules) : x \in Stored(schedules') /\ schedules'[x] = schedules[x]
         /\ \A x \in Stored(schedules') \ Stored(schedules) :
              schedules'[x] \in MissingSchedules(SeedKeys(restaurants'))
         /\ \A x, y \in Stored(schedules') \ Stored(schedules) :
              schedules'[x] = schedules'[y] => x = y
         /\ \A s \in MissingSchedules(SeedKeys(restaurants')) :
              \E x \in Stored(schedules') : schedules'[x] = s
         /\ SeedKeys(restaurants') \subseteq Stored(restaurants')
         /\ Stored(restaurants') \ Stored(restaurants) \subseteq SeedKeys(restaurants')
         /\ \A r \in Seeded : Found(r, restaurants') # {}
         /\ snapshots' = snapshots \cup (SeedKeys(restaurants') \X Period)
<1> DEFINE keys == SeedKeys(restaurants')
<1>1. /\ restaurants' \in Inserted(restaurants, MissingRestaurants)
      /\ schedules' \in Inserted(schedules, MissingSchedules(keys))
      /\ snapshots' = snapshots \cup (keys \X Period)
  BY DEF Start
<1>2. /\ restaurants \in [Key -> Restaurant \cup {Absent}]
      /\ schedules \in [ScheduleKey -> ScheduleRow \cup {Absent}]
      /\ Absent \notin Restaurant /\ Absent \notin ScheduleRow
  BY AdministrationAssumption DEF SInv, IInv, TypeOK
<1>3. MissingRestaurants \subseteq Restaurant
  BY StartupAssumption DEF MissingRestaurants
<1>4. /\ restaurants' \in [Key -> Restaurant \cup {Absent}]
      /\ \A k \in Stored(restaurants) : restaurants'[k] = restaurants[k] /\ k \in Stored(restaurants')
      /\ \A k \in Stored(restaurants') \ Stored(restaurants) : restaurants'[k] \in MissingRestaurants
      /\ \A r \in MissingRestaurants :
           \E k \in Stored(restaurants') \ Stored(restaurants) : restaurants'[k] = r
  BY <1>1, <1>2, <1>3, InsertedRows
<1>5. keys \subseteq Stored(restaurants') /\ Stored(restaurants') \subseteq Key
  BY <1>4 DEF SeedKeys, Found, Stored
<1>6. Stored(restaurants') \ Stored(restaurants) \subseteq keys
  BY <1>4 DEF SeedKeys, Found, MissingRestaurants
<1>7. \A r \in Seeded : Found(r, restaurants') # {}
  <2> SUFFICES ASSUME NEW r \in Seeded PROVE Found(r, restaurants') # {}
    OBVIOUS
  <2>1. CASE r \in MissingRestaurants
    BY <1>4, <2>1 DEF Found
  <2>2. CASE r \notin MissingRestaurants
    BY <1>4, <2>2 DEF Found, MissingRestaurants
  <2> QED
    BY <2>1, <2>2
<1>8. MissingSchedules(keys) \subseteq ScheduleRow
  <2>1. ASSUME NEW k \in Key, NEW d \in Weekday, NEW p \in Period
        PROVE  SeedSchedule(k, d, p) \in ScheduleRow
    <3>1. SeedHours[p] \in [opens : Hour, closes : Hour]
      BY StartupAssumption
    <3> QED
      BY <3>1 DEF SeedSchedule, ScheduleRow
  <2> QED
    BY <1>5, <2>1 DEF MissingSchedules
<1> HIDE DEF keys
<1>9. /\ schedules' \in [ScheduleKey -> ScheduleRow \cup {Absent}]
      /\ \A x \in Stored(schedules) : schedules'[x] = schedules[x] /\ x \in Stored(schedules')
      /\ \A x \in Stored(schedules') \ Stored(schedules) : schedules'[x] \in MissingSchedules(keys)
      /\ \A x, y \in Stored(schedules') \ Stored(schedules) : schedules'[x] = schedules'[y] => x = y
      /\ \A s \in MissingSchedules(keys) :
           \E x \in Stored(schedules') \ Stored(schedules) : schedules'[x] = s
  BY <1>1, <1>2, <1>8, InsertedRows
<1> QED
  BY <1>1, <1>4, <1>5, <1>6, <1>7, <1>9 DEF keys

LEMMA StartStep == ASSUME SInv, Start PROVE SInv'
<1> DEFINE keys == SeedKeys(restaurants')
<1>1. request' = request /\ Idle /\ server' = "up"
  BY DEF Start, SInv
<1>2. keys \subseteq Key
  BY Seeding DEF Stored
<1>3. TypeOK'
  <2>1. snapshots' \subseteq Key \X Period
    BY <1>2, Seeding DEF SInv, IInv, TypeOK
  <2> QED
    BY <1>1, <2>1, Seeding DEF SInv, IInv, TypeOK
<1>4. RowsForEveryRestaurant'
  <2>1. snapshots = Stored(restaurants) \X Period
    BY DEF SInv, IInv, Tables, RowsForEveryRestaurant
  <2>2. Stored(restaurants') = Stored(restaurants) \cup keys
    BY Seeding
  <2>3. snapshots' = snapshots \cup (keys \X Period)
    BY Seeding
  <2> HIDE DEF keys
  <2>4. snapshots' = Stored(restaurants') \X Period
    BY <2>1, <2>2, <2>3
  <2> QED
    BY <2>4 DEF RowsForEveryRestaurant, Stored
<1>5. OneSchedulePerSlot'
  <2> SUFFICES ASSUME NEW x \in Stored(schedules'), NEW y \in Stored(schedules'),
                      SameSlot(schedules'[x], schedules'[y])
               PROVE  x = y
    BY DEF OneSchedulePerSlot, Stored, SameSlot
  <2>1. CASE x \in Stored(schedules) /\ y \in Stored(schedules)
    BY <2>1, Seeding DEF SInv, IInv, Tables, OneSchedulePerSlot
  <2>2. CASE x \in Stored(schedules) /\ y \notin Stored(schedules)
    BY <2>2, Seeding DEF MissingSchedules
  <2>3. CASE x \notin Stored(schedules) /\ y \in Stored(schedules)
    BY <2>3, Seeding DEF MissingSchedules, SameSlot
  <2>4. CASE x \notin Stored(schedules) /\ y \notin Stored(schedules)
    <3>1. ASSUME NEW k, NEW d, NEW p, NEW j, NEW e, NEW o,
                 SameSlot(SeedSchedule(k, d, p), SeedSchedule(j, e, o))
          PROVE  SeedSchedule(k, d, p) = SeedSchedule(j, e, o)
      BY <3>1 DEF SeedSchedule, SameSlot
    <3>2. schedules'[x] = schedules'[y]
      BY <2>4, <3>1, Seeding DEF MissingSchedules
    <3> QED
      BY <2>4, <3>2, Seeding
  <2> QED
    BY <2>1, <2>2, <2>3, <2>4
<1>6. RequestsInv'
  <2> SUFFICES ASSUME NEW q \in Request PROVE Held(request[q])'
    BY DEF RequestsInv
  <2>1. Held(request[q]) /\ request[q].step \in {"new", "end"}
    BY <1>1 DEF SInv, IInv, RequestsInv, Idle
  <2> QED
    BY <1>1, <2>1 DEF Held
<1>7. FreshKeys'
  BY <1>1 DEF FreshKeys, Pending, Idle
<1> QED
  BY <1>1, <1>3, <1>4, <1>5, <1>6, <1>7 DEF SInv, IInv, Tables

LEMMA NextSInv == SInv /\ [StartupNext]_allvars => SInv'
<1> SUFFICES ASSUME SInv, [StartupNext]_allvars PROVE SInv'
  OBVIOUS
<1>1. CASE UNCHANGED allvars
  <2>1. IInv'
    BY <1>1, NextIInv DEF allvars, vars, SInv
  <2> QED
    BY <1>1, <2>1 DEF allvars, SInv, Idle
<1>2. CASE server = "up" /\ Next /\ UNCHANGED <<server, starts>>
  BY <1>2, NextIInv DEF SInv
<1> QED
  BY <1>1, <1>2, StartStep, CrashStep DEF StartupNext

THEOREM StartupInductive == StartupSpec => []SInv
  BY InitSInv, NextSInv, PTL DEF StartupSpec

\* Across crashes and restarts the tables keep what the requests rely on: rows of their
\* type, the two snapshot rows of every restaurant and one schedule per slot.
THEOREM TablesSurviveRestarts ==
  StartupSpec => [](TypeOK /\ RowsForEveryRestaurant /\ OneSchedulePerSlot)
<1>1. SInv => TypeOK /\ RowsForEveryRestaurant /\ OneSchedulePerSlot
  BY DEF SInv, IInv, Tables
<1> QED
  BY StartupInductive, <1>1, PTL

\* Readers show one row for each restaurant that they find open, also after restarts.
THEOREM ReadersAfterRestarts == StartupSpec => []OneItemPerOpenRestaurant
<1>1. SInv => OneItemPerOpenRestaurant
  BY DEF SInv, IInv, RequestsInv, Held, OnePeriodEach, OneItemPerOpenRestaurant, At
<1> QED
  BY StartupInductive, <1>1, PTL

\* The seed does not bring back what was deactivated, nor does anything else.
THEOREM DeactivationSurvivesRestarts == StartupSpec => DeactivationIsFinal
<1>1. SInv /\ [StartupNext]_allvars =>
        [/\ \A k \in Stored(restaurants) \ Active(restaurants) : ~ restaurants'[k].active
         /\ \A x \in Stored(schedules) \ Active(schedules) : ~ schedules'[x].active]_vars
  <2> SUFFICES ASSUME SInv, [StartupNext]_allvars, ~ UNCHANGED vars PROVE Final
    BY DEF Final
  <2>1. CASE Start
    BY <2>1, Seeding DEF Final, Active
  <2>2. CASE Crash
    BY <2>2 DEF Crash, Final, Active
  <2>3. CASE server = "up" /\ Next
    BY <2>3, StepIsFinal DEF SInv
  <2> QED
    BY <2>1, <2>2, <2>3 DEF StartupNext, allvars, vars
<1> QED
  BY StartupInductive, <1>1, PTL DEF StartupSpec, DeactivationIsFinal

\* Across restarts, no request and no seed gets the hours of a schedule out of order alone:
\* it takes a PATCH that validated a copy which another one had overtaken.
THEOREM HoursTearInRacesOnly == StartupSpec => OnlyRacesTearHours
<1>1. SInv /\ [StartupNext]_allvars => [HoursTorn]_vars
  <2> SUFFICES ASSUME SInv, [StartupNext]_allvars, ~ UNCHANGED vars PROVE HoursTorn
    OBVIOUS
  <2>1. CASE Start
    <3> SUFFICES ASSUME NEW x \in Torn(schedules'), x \notin Torn(schedules) PROVE FALSE
      BY DEF HoursTorn
    <3>1. x \in Stored(schedules')
      BY DEF Torn
    <3>2. CASE x \in Stored(schedules)
      BY <2>1, <3>1, <3>2, Seeding DEF Torn
    <3>3. CASE x \notin Stored(schedules)
      <4>1. schedules'[x] \in MissingSchedules(SeedKeys(restaurants'))
        BY <2>1, <3>1, <3>3, Seeding
      <4>2. PICK p \in Period : /\ schedules'[x].opens = SeedHours[p].opens
                                /\ schedules'[x].closes = SeedHours[p].closes
        BY <4>1 DEF MissingSchedules, SeedSchedule
      <4>3. SeedHours[p] \in [opens : Int, closes : Int]
        BY StartupAssumption, HoursAreInts
      <4>4. SeedHours[p].opens < SeedHours[p].closes
        BY StartupAssumption
      <4>5. ~ (SeedHours[p].opens >= SeedHours[p].closes)
        BY <4>3, <4>4
      <4> QED
        BY <4>2, <4>5 DEF Torn
    <3> QED
      BY <3>2, <3>3
  <2>2. CASE Crash
    BY <2>2 DEF Crash, HoursTorn
  <2>3. CASE server = "up" /\ Next
    BY <2>3, StepTearsInRaces DEF SInv
  <2> QED
    BY <2>1, <2>2, <2>3 DEF StartupNext, allvars, vars
<1>2. [HoursTorn]_vars =>
        [\A x \in Torn(schedules') \ Torn(schedules) : \E q \in Request :
           /\ At(q, "update_schedule") /\ request[q].key = x /\ request'[q] # request[q]
           /\ request[q].loaded # schedules[x]]_vars
  BY DEF HoursTorn, Raced
<1> QED
  BY StartupInductive, <1>1, <1>2, PTL DEF StartupSpec, OnlyRacesTearHours

Kept ==
  /\ \A k \in Stored(restaurants) : restaurants'[k] = restaurants[k]
  /\ \A x \in Stored(schedules) : schedules'[x] = schedules[x]
  /\ \A r \in Seeded : \E k \in Stored(restaurants)' :
       /\ restaurants'[k].name = r.name
       /\ {k} \X Period \subseteq snapshots'
       /\ \A d \in Weekday, p \in Period : \E x \in Stored(schedules)' :
            SameSlot(schedules'[x], [ru |-> k, weekday |-> d, period |-> p])

LEMMA StartKeeps == ASSUME SInv, Start PROVE Kept
<1>1. ASSUME NEW r \in Seeded
      PROVE  \E k \in Stored(restaurants)' :
               /\ restaurants'[k].name = r.name
               /\ {k} \X Period \subseteq snapshots'
               /\ \A d \in Weekday, p \in Period : \E x \in Stored(schedules)' :
                    SameSlot(schedules'[x], [ru |-> k, weekday |-> d, period |-> p])
  <2> PICK k \in Found(r, restaurants') : TRUE
    BY Seeding
  <2>1. k \in SeedKeys(restaurants') /\ k \in Stored(restaurants') /\ restaurants'[k].name = r.name
    BY DEF SeedKeys, Found
  <2>2. {k} \X Period \subseteq snapshots'
    BY <2>1, Seeding
  <2>3. ASSUME NEW d \in Weekday, NEW p \in Period
        PROVE  \E x \in Stored(schedules') :
                 SameSlot(schedules'[x], [ru |-> k, weekday |-> d, period |-> p])
    <3> DEFINE s == SeedSchedule(k, d, p)
    <3>1. s.ru = k /\ s.weekday = d /\ s.period = p
      BY DEF SeedSchedule
    <3>2. CASE s \in MissingSchedules(SeedKeys(restaurants'))
      BY <3>1, <3>2, Seeding DEF SameSlot
    <3>3. CASE s \notin MissingSchedules(SeedKeys(restaurants'))
      <4>1. \E x \in Stored(schedules) : SameSlot(schedules[x], s)
        BY <2>1, <3>3 DEF MissingSchedules
      <4> QED
        BY <3>1, <4>1, Seeding DEF SameSlot
    <3> QED
      BY <3>2, <3>3
  <2>4. Stored(restaurants)' = Stored(restaurants') /\ Stored(schedules)' = Stored(schedules')
    BY DEF Stored
  <2> QED
    BY <2>1, <2>2, <2>3, <2>4
<1> QED
  BY <1>1, Seeding DEF Kept

\* A restart changes nothing that an administrator has stored and leaves every restaurant
\* of the program complete.
THEOREM RestartsKeepEdits == StartupSpec => StartKeepsEdits
<1>1. SInv /\ [StartupNext]_allvars =>
        [server' = "up" /\ server = "down" => Kept]_allvars
  <2> SUFFICES ASSUME SInv, StartupNext, server' = "up", server = "down" PROVE Kept
    OBVIOUS
  <2>1. Start
    BY DEF StartupNext, Crash
  <2> QED
    BY <2>1, StartKeeps
<1>2. SInv /\ [StartupNext]_allvars =>
        [server' = "up" /\ server = "down" =>
          /\ \A k \in Stored(restaurants) : restaurants'[k] = restaurants[k]
          /\ \A x \in Stored(schedules) : schedules'[x] = schedules[x]
          /\ \A r \in Seeded : \E k \in Stored(restaurants)' :
               /\ restaurants'[k].name = r.name
               /\ {k} \X Period \subseteq snapshots'
               /\ \A d \in Weekday, p \in Period : \E x \in Stored(schedules)' :
                    SameSlot(schedules'[x], [ru |-> k, weekday |-> d, period |-> p])]_allvars
  BY <1>1 DEF Kept
<1> QED
  BY StartupInductive, <1>2, PTL DEF StartupSpec, StartKeepsEdits
=============================================================================
