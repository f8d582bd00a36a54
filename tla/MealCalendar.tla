---------------------------- MODULE MealCalendar ----------------------------
(***************************************************************************)
(* What is being served, and why: MealPeriodService.resolve,               *)
(* infer_meal_period and get_active_exception, for one restaurant and one  *)
(* date.  A table is a set of rows; the repositories do not order their    *)
(* queries, so a result that takes "the first" row is the set of what it   *)
(* can be.                                                                 *)
(***************************************************************************)
EXTENDS Integers, FiniteSets

CONSTANTS Null, Hour     \* Hour: the times of the day that are told apart

Period == {"LUNCH", "DINNER"}
ExceptionType == {"CLOSED", "CUSTOM_HOURS"}

\* rows of restaurant_schedule_exceptions of the date
Exception == [type : ExceptionType, period : Period \cup {Null},
              opens : Hour \cup {Null}, closes : Hour \cup {Null}]

ASSUME CalendarAssumption == Hour \subseteq Nat /\ Null \notin Nat \cup Period \cup Exception

\* active rows of restaurant_schedules of the weekday
Schedule == [period : Period, opens : Hour, closes : Hour]

Covers(r, t) == r.opens # Null /\ r.closes # Null /\ r.opens <= t /\ t < r.closes

\* infer_meal_period: the period of the first row that covers t, or None
Inferred(rows, t) ==
  IF \E r \in rows : Covers(r, t) THEN {r.period : r \in {x \in rows : Covers(x, t)}}
  ELSE {Null}

WholeDayClosed(X) == {e \in X : e.type = "CLOSED" /\ e.period = Null}
PeriodClosed(X, p) == {e \in X : e.type = "CLOSED" /\ e.period = p}
CustomHours(X) == {e \in X : e.type = "CUSTOM_HOURS"}

\* Faulty variant: the regular schedules first.
Candidates_RegularFirst(X, S, t) ==
  LET regular == Inferred(S, t)
  IN  (regular \ {Null}) \cup (IF Null \in regular THEN Inferred(CustomHours(X), t) ELSE {})

\* custom hours first, the regular schedules when they cover nothing
Candidates(X, S, t) ==
  LET custom == Inferred(CustomHours(X), t)
  IN  (custom \ {Null}) \cup (IF Null \in custom THEN Inferred(S, t) ELSE {})

\* a meal period, or the name of the exception that is raised
Resolve(X, S, t) ==
  IF WholeDayClosed(X) # {} THEN {"closed_all_day"}
  ELSE {IF p = Null THEN "outside_hours"
        ELSE IF PeriodClosed(X, p) # {} THEN "period_closed" ELSE p :
          p \in Candidates(X, S, t)}

\* Faulty variant: a row without period is not preferred when the day is closed.
ActiveException_NoWholeDay(X, S, t) ==
  LET first(rows) == IF rows = {} THEN {Null} ELSE rows
  IN  UNION {first({e \in X : e.period = o}) : o \in Resolve(X, S, t)}

\* get_active_exception, for one outcome o of resolve
ActiveException(X, S, t) ==
  LET first(rows) == IF rows = {} THEN {Null} ELSE rows
      for(o) == CASE o \in Period -> first({e \in X : e.period = o})
                  [] o = "period_closed" -> first({e \in X : e.type = "CLOSED" /\ e.period # Null})
                  [] OTHER -> {Null}
  IN  IF WholeDayClosed(X) # {} THEN WholeDayClosed(X)
      ELSE UNION {for(o) : o \in Resolve(X, S, t)}
=============================================================================
