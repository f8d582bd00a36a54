--------------------- MODULE ScheduleExceptions_proofs ---------------------
(***************************************************************************)
(* Proofs about ScheduleExceptions: what concurrent administrators can do  *)
(* to the table of exceptions, and what the calendar then says.            *)
(***************************************************************************)
EXTENDS ScheduleExceptions, TLAPS

USE CalendarAssumption, ExceptionsAssumption

-----------------------------------------------------------------------------
(* The table *)

\* what a request carries: a POST a valid exception, a PATCH a row that exists
RequestInv ==
  \A a \in Admin :
    /\ request[a].step = "insert" => request[a].new \in Exception /\ Valid(request[a].new)
    /\ request[a].step = "patch" => /\ request[a].row \in Row
                                    /\ request[a].loaded \in Exception
                                    /\ table[request[a].row] # Absent

TableInv == TypeOK /\ RequestInv /\ ValidUnlessTorn

\* A valid exception has hours in order.
LEMMA ValidHours ==
  ASSUME NEW e \in Exception, Valid(e) PROVE HoursChecked(e)
BY DEF Valid, HoursChecked, Exception, ExceptionType

\* An UPDATE leaves an exception, and over the value that was read the patched one.
LEMMA WrittenRow ==
  ASSUME NEW current \in Exception, NEW loaded \in Exception, NEW new \in Exception
  PROVE  /\ Written(current, loaded, new) \in Exception
         /\ current = loaded => Written(current, loaded, new) = new
<1>1. Written(current, loaded, new) \in Exception
  BY DEF Written, Exception
<1>2. ASSUME current = loaded PROVE Written(current, loaded, new) = new
  BY <1>2 DEF Written, Exception
<1> QED BY <1>1, <1>2

LEMMA CreateStep ==
  ASSUME TableInv, NEW a \in Admin, BeginCreate(a)
  PROVE  TableInv'
<1> USE DEF TableInv
<1>1. PICK e \in Exception :
        Valid(e) /\ request' = [request EXCEPT ![a] = [step |-> "insert", new |-> e]]
  BY DEF BeginCreate
<1>2. request' \in [Admin -> Request]
  BY <1>1 DEF TypeOK, Request
<1>3. RequestInv'
  BY <1>1 DEF RequestInv, TypeOK, BeginCreate
<1> QED BY <1>2, <1>3 DEF BeginCreate, TypeOK, Rows, OneExceptionPerPeriod, ValidUnlessTorn

LEMMA BeginPatchStep ==
  ASSUME TableInv, NEW a \in Admin, BeginPatch(a)
  PROVE  TableInv'
<1> USE DEF TableInv
<1>1. PICK k \in Row :
        /\ table[k] # Absent
        /\ request' = [request EXCEPT ![a] = [step |-> "patch", row |-> k, loaded |-> table[k]]]
  BY DEF BeginPatch
<1>2. table[k] \in Exception
  BY <1>1 DEF TypeOK
<1>3. request' \in [Admin -> Request]
  BY <1>1, <1>2 DEF TypeOK, Request
<1>4. RequestInv'
  BY <1>1, <1>2 DEF RequestInv, TypeOK, BeginPatch
<1> QED BY <1>3, <1>4 DEF BeginPatch, TypeOK, Rows, OneExceptionPerPeriod, ValidUnlessTorn

\* A write that the constraints of the table admit keeps its promises.
LEMMA WriteStep ==
  ASSUME TableInv, NEW a \in Admin, NEW k \in Row, NEW e \in Exception,
         table' = [table EXCEPT ![k] = e], Unique(table'), HoursChecked(e),
         request' = [request EXCEPT ![a] = Idle],
         torn' \subseteq Row, torn' \subseteq torn \cup {k}, torn \subseteq torn' \cup {k},
         k \notin torn' => Valid(e)
  PROVE  TableInv'
<1> USE DEF TableInv
<1>1. table' \in [Row -> Exception \cup {Absent}]
  BY DEF TypeOK
<1>2. \A x \in Rows' : HoursChecked(x)
  <2>1. \A x \in Rows' : x \in Rows \/ x = e
    BY DEF Rows, TypeOK
  <2> QED BY <2>1 DEF TypeOK
<1>3. OneExceptionPerPeriod'
  BY DEF Unique, OneExceptionPerPeriod
<1>4. request' \in [Admin -> Request]
  BY DEF TypeOK, Request
<1>5. RequestInv'
  BY DEF RequestInv, TypeOK, Idle
<1>6. ValidUnlessTorn'
  BY DEF ValidUnlessTorn, TypeOK
<1> QED BY <1>1, <1>2, <1>3, <1>4, <1>5, <1>6 DEF TypeOK

\* A request that ends without a write leaves the table alone.
LEMMA NoWriteStep ==
  ASSUME TableInv, NEW a \in Admin, UNCHANGED <<table, torn>>,
         request' = [request EXCEPT ![a] = Idle]
  PROVE  TableInv'
<1> USE DEF TableInv
<1>1. request' \in [Admin -> Request]
  BY DEF TypeOK, Request
<1>2. RequestInv'
  BY DEF RequestInv, TypeOK, Idle
<1> QED BY <1>1, <1>2 DEF TypeOK, Rows, OneExceptionPerPeriod, ValidUnlessTorn

LEMMA InsertStep ==
  ASSUME TableInv, NEW a \in Admin, Insert(a)
  PROVE  TableInv'
<1> DEFINE e == request[a].new
<1>0. e \in Exception /\ Valid(e) /\ HoursChecked(e)
  BY ValidHours DEF Insert, TableInv, RequestInv
<1>1. PICK k \in Row : \/ Unique([table EXCEPT ![k] = e]) /\ table' = [table EXCEPT ![k] = e]
                       \/ UNCHANGED table
  BY DEF Insert
<1>2. request' = [request EXCEPT ![a] = Idle] /\ UNCHANGED torn
  BY DEF Insert
<1>3. CASE UNCHANGED table
  BY <1>2, <1>3, NoWriteStep
<1>4. CASE table' = [table EXCEPT ![k] = e] /\ Unique(table')
  BY <1>0, <1>2, <1>4, WriteStep DEF TableInv, TypeOK
<1> QED BY <1>1, <1>3, <1>4

LEMMA ApplyPatchStep ==
  ASSUME TableInv, NEW a \in Admin, ApplyPatch(a)
  PROVE  TableInv'
<1> DEFINE r == request[a]
<1>0. /\ r.row \in Row /\ r.loaded \in Exception /\ table[r.row] \in Exception
      /\ request' = [request EXCEPT ![a] = Idle]
  BY DEF ApplyPatch, TableInv, RequestInv, TypeOK
<1>1. CASE UNCHANGED table
  BY <1>0, <1>1, NoWriteStep DEF ApplyPatch
<1>2. CASE table' # table
  <2>1. table' \in PatchedTables(r) /\ HoursChecked(table'[r.row]) /\ Unique(table')
    BY <1>2 DEF ApplyPatch
  <2>2. PICK new \in Exception :
          Valid(new) /\ table' = [table EXCEPT ![r.row] = Written(@, r.loaded, new)]
    BY <2>1 DEF PatchedTables
  <2> DEFINE w == Written(table[r.row], r.loaded, new)
  <2>3. w \in Exception /\ (table[r.row] = r.loaded => w = new)
    BY <1>0, WrittenRow
  <2>4. table' = [table EXCEPT ![r.row] = w] /\ table'[r.row] = w
    BY <1>0, <2>2 DEF TableInv, TypeOK
  <2>5. torn' = IF table[r.row] = r.loaded THEN torn \ {r.row} ELSE torn \cup {r.row}
    BY <1>2 DEF ApplyPatch
  <2>6. r.row \notin torn' => Valid(w)
    BY <2>2, <2>3, <2>5
  <2>7. torn' \subseteq Row /\ torn' \subseteq torn \cup {r.row} /\ torn \subseteq torn' \cup {r.row}
    BY <1>0, <2>5 DEF TableInv, TypeOK
  <2> HIDE DEF w
  <2> QED BY <1>0, <2>1, <2>3, <2>4, <2>6, <2>7, WriteStep
<1> QED BY <1>1, <1>2

LEMMA TableIsInductive == Spec => []TableInv
<1>1. Init => TableInv
  BY DEF Init, TableInv, TypeOK, Rows, OneExceptionPerPeriod, RequestInv, ValidUnlessTorn,
     Request, Idle
<1>2. TableInv /\ [Next]_vars => TableInv'
  <2> SUFFICES ASSUME TableInv, [Next]_vars PROVE TableInv'
    OBVIOUS
  <2>1. CASE UNCHANGED vars
    BY <2>1 DEF vars, TableInv, TypeOK, Rows, OneExceptionPerPeriod, RequestInv,
       ValidUnlessTorn
  <2> QED BY <2>1, CreateStep, InsertStep, BeginPatchStep, ApplyPatchStep DEF Next
<1> QED BY <1>1, <1>2, PTL DEF Spec

\* The table keeps one exception of the whole day and one per period, with hours in order,
\* for any number of administrators.
THEOREM TypeCorrect == Spec => []TypeOK
<1>1. TableInv => TypeOK
  BY DEF TableInv
<1> QED BY <1>1, TableIsInductive, PTL

\* Every row satisfies the rule of its type unless a PATCH wrote it over another PATCH.
THEOREM RowsAreValid == Spec => []ValidUnlessTorn
<1>1. TableInv => ValidUnlessTorn
  BY DEF TableInv
<1> QED BY <1>1, TableIsInductive, PTL

-----------------------------------------------------------------------------
(* The calendar *)

\* The period of the hour is that of a row that covers it, or there is none.
LEMMA InferredRow ==
  ASSUME NEW rows, NEW t
  PROVE  /\ \A p \in Inferred(rows, t) \ {Null} : \E r \in rows : r.period = p /\ Covers(r, t)
         /\ Null \in Inferred(rows, t) =>
              \A r \in rows : Covers(r, t) =>
                \E x \in rows : x.period = Null /\ Covers(x, t)
BY DEF Inferred

\* What the candidates come from, for any exceptions and schedules.
LEMMA CandidateRow ==
  ASSUME NEW X \in SUBSET Exception, NEW S \in SUBSET Schedule, NEW t,
         NEW p \in Candidates(X, S, t)
  PROVE  /\ p \in Period \cup {Null}
         /\ p \in Period =>
              \/ \E e \in CustomHours(X) : e.period = p /\ Covers(e, t)
              \/ /\ \E s \in S : s.period = p /\ Covers(s, t)
                 /\ \A e \in CustomHours(X) : Covers(e, t) =>
                      \E x \in CustomHours(X) : x.period = Null /\ Covers(x, t)
<1>1. CASE p \in Inferred(CustomHours(X), t) \ {Null}
  <2>1. PICK e \in CustomHours(X) : e.period = p /\ Covers(e, t)
    BY <1>1, InferredRow
  <2>2. p \in Period \cup {Null}
    BY <2>1 DEF CustomHours, Exception
  <2> QED BY <2>1, <2>2
<1>2. CASE Null \in Inferred(CustomHours(X), t) /\ p \in Inferred(S, t)
  <2>1. \A e \in CustomHours(X) : Covers(e, t) =>
          \E x \in CustomHours(X) : x.period = Null /\ Covers(x, t)
    BY <1>2, InferredRow
  <2>2. CASE p = Null
    BY <2>2 DEF Period
  <2>3. CASE p # Null
    <3>1. PICK s \in S : s.period = p /\ Covers(s, t)
      BY <1>2, <2>3, InferredRow
    <3> QED BY <2>1, <3>1 DEF Schedule
  <2> QED BY <2>2, <2>3
<1> QED BY <1>1, <1>2 DEF Candidates

\* What resolve says, outcome by outcome.
LEMMA ResolveOutcome ==
  ASSUME NEW X \in SUBSET Exception, NEW S \in SUBSET Schedule, NEW t,
         NEW o \in Resolve(X, S, t)
  PROVE  \/ o = "closed_all_day" /\ WholeDayClosed(X) # {}
         \/ /\ WholeDayClosed(X) = {}
            /\ \/ o \in {"outside_hours", "period_closed"}
               \/ o \in Period /\ o \in Candidates(X, S, t) /\ PeriodClosed(X, o) = {}
<1>1. CASE WholeDayClosed(X) # {}
  BY <1>1 DEF Resolve
<1>2. CASE WholeDayClosed(X) = {}
  <2>1. PICK p \in Candidates(X, S, t) :
          o = IF p = Null THEN "outside_hours"
              ELSE IF PeriodClosed(X, p) # {} THEN "period_closed" ELSE p
    BY <1>2 DEF Resolve
  <2>2. p \in Period \cup {Null}
    BY CandidateRow
  <2> QED BY <1>2, <2>1, <2>2
<1> QED BY <1>1, <1>2

LEMMA RowsAreExceptions == ASSUME TypeOK PROVE Rows \in SUBSET Exception
BY DEF TypeOK, Rows

\* A period that an exception closes is never resolved, and what is resolved is open by an
\* exception or by its schedule, whatever the hours of the day and the schedules are.
THEOREM ResolvedPeriodsAreOpen == Spec => []ResolvedIsOpen
<1>1. TypeOK => ResolvedIsOpen
  <2> SUFFICES ASSUME TypeOK, NEW t \in Hour, NEW p \in Resolve(Rows, Schedules, t) \cap Period
      PROVE  /\ PeriodClosed(Rows, p) = {} /\ WholeDayClosed(Rows) = {}
             /\ \/ \E e \in CustomHours(Rows) : e.period = p /\ Covers(e, t)
                \/ /\ \E s \in Schedules : s.period = p /\ Covers(s, t)
                   /\ \A e \in CustomHours(Rows) : Covers(e, t) =>
                        \/ e.period = Null
                        \/ \E x \in CustomHours(Rows) : x.period = Null /\ Covers(x, t)
    BY DEF ResolvedIsOpen
  <2>1. /\ WholeDayClosed(Rows) = {} /\ PeriodClosed(Rows, p) = {}
        /\ p \in Candidates(Rows, Schedules, t)
    BY RowsAreExceptions, ResolveOutcome DEF Period
  <2>2. \/ \E e \in CustomHours(Rows) : e.period = p /\ Covers(e, t)
        \/ /\ \E s \in Schedules : s.period = p /\ Covers(s, t)
           /\ \A e \in CustomHours(Rows) : Covers(e, t) =>
                \E x \in CustomHours(Rows) : x.period = Null /\ Covers(x, t)
    BY <2>1, RowsAreExceptions, CandidateRow
  <2> QED BY <2>1, <2>2
<1> QED BY <1>1, TypeCorrect, PTL

\* The exception shown explains what resolve says.
THEOREM ShownExceptionExplains == Spec => []ActiveExceptionExplains
<1>1. TypeOK => ActiveExceptionExplains
  <2> SUFFICES ASSUME TypeOK, NEW t \in Hour PROVE
        LET outcomes == Resolve(Rows, Schedules, t)
            shown    == ActiveException(Rows, Schedules, t)
        IN  /\ "closed_all_day" \in outcomes =>
                 \A e \in shown : e # Null /\ e.type = "CLOSED" /\ e.period = Null
            /\ outcomes = {"period_closed"} =>
                 \A e \in shown : e # Null /\ e.type = "CLOSED" /\ e.period # Null
            /\ \A o \in Period : outcomes = {o} =>
                 shown = {e \in Rows : e.period = o}
                   \/ (shown = {Null} /\ \A e \in Rows : e.period # o)
    BY DEF ActiveExceptionExplains
  <2> DEFINE outcomes == Resolve(Rows, Schedules, t)
             shown == ActiveException(Rows, Schedules, t)
             first(rows) == IF rows = {} THEN {Null} ELSE rows
             for(o) == CASE o \in Period -> first({e \in Rows : e.period = o})
                         [] o = "period_closed" ->
                              first({e \in Rows : e.type = "CLOSED" /\ e.period # Null})
                         [] OTHER -> {Null}
  <2>0. Rows \in SUBSET Exception /\ Schedules \in SUBSET Schedule
    BY RowsAreExceptions
  <2>1. ASSUME "closed_all_day" \in outcomes, NEW e \in shown
        PROVE  e # Null /\ e.type = "CLOSED" /\ e.period = Null
    <3>1. WholeDayClosed(Rows) # {}
      BY <2>0, <2>1, ResolveOutcome DEF Period
    <3>2. e \in WholeDayClosed(Rows)
      BY <2>1, <3>1 DEF ActiveException
    <3> QED BY <2>0, <3>2 DEF WholeDayClosed
  <2>2. ASSUME NEW o, outcomes = {o}, o # "closed_all_day" PROVE shown = for(o)
    <3>1. WholeDayClosed(Rows) = {}
      BY <2>0, <2>2, ResolveOutcome
    <3>2. shown = UNION {for(x) : x \in outcomes}
      BY <3>1 DEF ActiveException
    <3> HIDE DEF for, shown, outcomes
    <3> QED BY <2>2, <3>2
  <2>3. ASSUME outcomes = {"period_closed"}, NEW e \in shown
        PROVE  e # Null /\ e.type = "CLOSED" /\ e.period # Null
    <3> DEFINE closures == {x \in Rows : x.type = "CLOSED" /\ x.period # Null}
    <3>1. shown = first(closures)
      BY <2>2, <2>3 DEF Period
    <3>2. PICK p \in Candidates(Rows, Schedules, t) :
            p # Null /\ PeriodClosed(Rows, p) # {}
      <4>1. "period_closed" \in outcomes /\ "closed_all_day" \notin outcomes
        BY <2>3
      <4>2. PICK p \in Candidates(Rows, Schedules, t) :
              "period_closed" = IF p = Null THEN "outside_hours"
                                ELSE IF PeriodClosed(Rows, p) # {} THEN "period_closed" ELSE p
        BY <4>1 DEF Resolve
      <4>3. p \in Period \cup {Null}
        BY <2>0, CandidateRow
      <4> QED BY <4>2, <4>3 DEF Period
    <3>3. closures # {}
      BY <3>2 DEF PeriodClosed
    <3> QED BY <2>0, <2>3, <3>1, <3>3
  <2>4. ASSUME NEW o \in Period, outcomes = {o}
        PROVE  \/ shown = {e \in Rows : e.period = o}
               \/ shown = {Null} /\ \A e \in Rows : e.period # o
    <3>1. shown = first({e \in Rows : e.period = o})
      BY <2>2, <2>4 DEF Period
    <3> QED BY <3>1
  <2> QED BY <2>1, <2>3, <2>4
<1> QED BY <1>1, TypeCorrect, PTL
=============================================================================
