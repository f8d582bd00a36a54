------------------------- MODULE ReportIntake_proofs -------------------------
(***************************************************************************)
(* Proofs about ReportIntake for every set of requests and devices, every  *)
(* calendar and every cooldown.                                            *)
(***************************************************************************)
EXTENDS ReportIntake, FiniteSetTheorems, TLAPS

-----------------------------------------------------------------------------
(* Types.  A report takes its device and period from the form, which must   *)
(* have them by the time it is stored.                                      *)

FormInv ==
  \A q \in Request :
    /\ pc[q] \in {"cooldown", "resolve", "insert", "commit", "enqueue"} => form[q].device \in Device
    /\ pc[q] \in {"insert", "commit", "enqueue"} => form[q].period \in Period

TypeInv == TypeOK /\ FormInv

LEMMA InitTypeInv == Init => TypeInv
  BY IntakeAssumption
     DEF Init, TypeInv, TypeOK, FormInv, Time, Step, Outcome, Form, EmptyForm

LEMMA NextTypeInv == TypeInv /\ [Next]_vars => TypeInv'
<1> SUFFICES ASSUME TypeInv, [Next]_vars PROVE TypeInv'
  OBVIOUS
<1> USE IntakeAssumption DEF TypeInv, TypeOK
<1>1. CASE Tick
  BY <1>1 DEF Tick, Time, FormInv
<1>2. CASE Deactivate
  BY <1>2 DEF Deactivate, FormInv
<1>0. ASSUME NEW q \in Request, NEW o \in Refusal, Refuse(q, o)
      PROVE  /\ pc' \in [Request -> Step] /\ outcome' \in [Request -> Outcome]
             /\ form' \in [Request -> Form] /\ FormInv'
  BY <1>0 DEF Refuse, End, FormInv, Step, Outcome
<1>3. ASSUME NEW q \in Request, Lookup(q) PROVE TypeInv'
  <2>1. before' \in [Request -> SUBSET Request]
    BY <1>3 DEF Lookup, Accepted
  <2>2. CASE Refuse(q, "restaurant_not_found")
    BY <1>0, <1>3, <2>1, <2>2 DEF Lookup, Refusal
  <2>3. CASE form' = [form EXCEPT ![q].begun = clock] /\ GoTo(q, "validate")
    <3>1. form' \in [Request -> Form]
      BY <2>3, ZenonT(40) DEF Form
    <3> QED
      BY <1>3, <2>1, <2>3, <3>1 DEF Lookup, GoTo, FormInv, Step
  <2> QED
    BY <1>3, <2>2, <2>3 DEF Lookup
<1>4. ASSUME NEW q \in Request, Validate(q) PROVE TypeInv'
  <2>1. UNCHANGED <<clock, active, reports, queue, created, failures, checkedAt, before>>
    BY <1>4 DEF Validate
  <2>2. CASE \E o \in Refusal : Refuse(q, o)
    BY <1>0, <2>1, <2>2
  <2>3. CASE \E d \in Device, geo \in Time, inside \in BOOLEAN :
               /\ form' = [form EXCEPT ![q].device = d, ![q].geo = geo, ![q].inside = inside]
               /\ GoTo(q, "cooldown")
    <3> PICK d \in Device, geo \in Time, inside \in BOOLEAN :
               /\ form' = [form EXCEPT ![q].device = d, ![q].geo = geo, ![q].inside = inside]
               /\ GoTo(q, "cooldown")
      BY <2>3
    <3> DEFINE new == [form[q] EXCEPT !.device = d, !.geo = geo, !.inside = inside]
    <3>0. new \in Form /\ new.device \in Device /\ form' = [form EXCEPT ![q] = new]
      BY ZenonT(40) DEF Form
    <3> HIDE DEF new
    <3>1. form' \in [Request -> Form] /\ form'[q].device \in Device
      BY <3>0, ZenonT(40)
    <3> QED
      BY <1>4, <2>1, <3>1 DEF Validate, GoTo, FormInv, Step
  <2> QED
    BY <1>4, <2>2, <2>3 DEF Validate, Refusal
<1>5. ASSUME NEW q \in Request, CheckCooldown(q) PROVE TypeInv'
  BY <1>5 DEF CheckCooldown, End, GoTo, FormInv, Step, Outcome, Refusal
<1>6. ASSUME NEW q \in Request, ResolveMealPeriod(q) PROVE TypeInv'
  <2>1. UNCHANGED <<clock, active, reports, queue, created, failures, checkedAt, before>>
    BY <1>6 DEF ResolveMealPeriod
  <2>2. CASE Refuse(q, "outside_meal_hours")
    BY <1>0, <2>1, <2>2 DEF Refusal
  <2>3. CASE \E p \in Period : form' = [form EXCEPT ![q].period = p] /\ GoTo(q, "insert")
    <3> PICK p \in Period : form' = [form EXCEPT ![q].period = p] /\ GoTo(q, "insert")
      BY <2>3
    <3>1. form' \in [Request -> Form] /\ form'[q].period \in Period
      BY ZenonT(40) DEF Form
    <3>2. form'[q].device = form[q].device
      BY DEF Form
    <3> QED
      BY <1>6, <2>1, <3>1, <3>2 DEF ResolveMealPeriod, GoTo, FormInv, Step
  <2>4. PeriodAt[form[q].geo] \in Period \cup {Closed}
    BY DEF Form
  <2> QED
    BY <1>6, <2>2, <2>3, <2>4 DEF ResolveMealPeriod
<1>7. ASSUME NEW q \in Request, Insert(q) PROVE TypeInv'
  BY <1>7 DEF Insert, GoTo, FormInv, Step
<1>8. ASSUME NEW q \in Request, Commit(q) PROVE TypeInv'
  BY <1>8 DEF Commit, GoTo, FormInv, Form, Report, Step
<1>9. ASSUME NEW q \in Request, Enqueue(q) PROVE TypeInv'
  BY <1>9 DEF Enqueue, End, FormInv, Step, Outcome
<1>10. ASSUME NEW q \in Request, StoreFails(q) \/ Abort(q) PROVE TypeInv'
  BY <1>10 DEF StoreFails, Abort, End, FormInv, Step, Outcome, Failure
<1>11. CASE UNCHANGED vars
  BY <1>11 DEF vars, FormInv
<1> QED
  BY <1>1, <1>2, <1>3, <1>4, <1>5, <1>6, <1>7, <1>8, <1>9, <1>10, <1>11 DEF Next, Handle

\* Every variable always holds a value of its type.
THEOREM TypeCorrect == Spec => []TypeOK
<1>1. TypeInv => TypeOK
  BY DEF TypeInv
<1> QED
  BY InitTypeInv, NextTypeInv, <1>1, PTL DEF Spec

-----------------------------------------------------------------------------
(* Each request stores at most one report, made from its form, and has an   *)
(* outcome exactly when it has ended.                                       *)

Stored(q) == \E r \in reports : r.id = q

OnceInv ==
  /\ \A q \in Request : pc[q] = "end" <=> outcome[q] # "none"
  /\ \A q \in Request : Stored(q) => pc[q] \in {"enqueue", "end"}
  /\ \A q \in Request : pc[q] = "enqueue" \/ outcome[q] = "accepted" => Stored(q)
  /\ \A r \in reports : r.device = form[r.id].device /\ r.at = form[r.id].begun

LEMMA NextOnceInv == TypeInv /\ OnceInv /\ [Next]_vars => OnceInv'
<1> SUFFICES ASSUME TypeInv, OnceInv, [Next]_vars PROVE OnceInv'
  OBVIOUS
<1> USE DEF TypeInv, TypeOK, OnceInv, Stored, Report
<1>1. CASE Tick \/ Deactivate \/ UNCHANGED vars
  BY <1>1 DEF Tick, Deactivate, vars
<1>2. ASSUME NEW q \in Request, pc[q] # "end", ~ Stored(q), reports' = reports,
             \A p \in Request \ {q} : form'[p] = form[p], NEW step \in Step \ {"enqueue", "end"},
             GoTo(q, step) \/ \E o \in Refusal : End(q, o)
      PROVE  OnceInv'
  BY <1>2 DEF GoTo, End, Refusal
<1>3. ASSUME NEW q \in Request, Lookup(q) \/ Validate(q) \/ ResolveMealPeriod(q)
      PROVE  OnceInv'
  <2>1. pc[q] # "end" /\ ~ Stored(q) /\ reports' = reports
    BY <1>3 DEF Lookup, Validate, ResolveMealPeriod
  <2>2. \A p \in Request \ {q} : form'[p] = form[p]
    BY <1>3 DEF Lookup, Validate, ResolveMealPeriod, Refuse
  <2>3. \/ \E step \in Step \ {"enqueue", "end"} : GoTo(q, step)
        \/ \E o \in Refusal : End(q, o)
    BY <1>3 DEF Lookup, Validate, ResolveMealPeriod, Refuse, Step, Refusal
  <2> QED
    BY <1>2, <2>1, <2>2, <2>3 DEF Step
<1>4. ASSUME NEW q \in Request, CheckCooldown(q) PROVE OnceInv'
  BY <1>4 DEF CheckCooldown, End, GoTo
<1>6. ASSUME NEW q \in Request, Insert(q) PROVE OnceInv'
  BY <1>6 DEF Insert, GoTo
<1>7. ASSUME NEW q \in Request, Commit(q) PROVE OnceInv'
  <2> DEFINE new == [id |-> q, device |-> form[q].device, at |-> form[q].begun,
                     period |-> form[q].period]
  <2>1. reports' = reports \cup {new} /\ pc' = [pc EXCEPT ![q] = "enqueue"]
        /\ UNCHANGED <<form, outcome>> /\ pc[q] = "commit"
    BY <1>7 DEF Commit, GoTo
  <2>2. new.id = q /\ new.device = form[q].device /\ new.at = form[q].begun
    OBVIOUS
  <2> HIDE DEF new
  <2> QED
    BY <2>1, <2>2
<1>8. ASSUME NEW q \in Request, Enqueue(q) PROVE OnceInv'
  BY <1>8 DEF Enqueue, End
<1>9. ASSUME NEW q \in Request, StoreFails(q) \/ Abort(q) PROVE OnceInv'
  BY <1>9 DEF StoreFails, Abort, End
<1> QED
  BY <1>1, <1>3, <1>4, <1>6, <1>7, <1>8, <1>9 DEF Next, Handle

-----------------------------------------------------------------------------
(* The cooldown.  What a request saw when it was checked stays true of it,  *)
(* because a report committed since then belongs to a request that was not  *)
(* yet answered when this one began.                                        *)

Cool(q) ==
  \A a \in reports : (a.device = form[q].device /\ a.id \in before[q]) =>
    checkedAt[q] - a.at > Cooldown

CoolInv ==
  /\ \A q \in Request : \A p \in before[q] : outcome[p] = "accepted"
  /\ \A q \in Request : pc[q] \in {"resolve", "insert", "commit", "enqueue"} \/ Stored(q) => Cool(q)

LEMMA NextCoolInv == TypeInv /\ OnceInv /\ CoolInv /\ [Next]_vars => CoolInv'
<1> SUFFICES ASSUME TypeInv, OnceInv, CoolInv, [Next]_vars PROVE CoolInv'
  OBVIOUS
<1> USE DEF TypeInv, TypeOK, OnceInv, CoolInv
<1>1. CASE Tick \/ Deactivate \/ UNCHANGED vars
  BY <1>1 DEF Tick, Deactivate, vars, Cool, Stored
<1>2. ASSUME NEW q \in Request, Lookup(q) PROVE CoolInv'
  BY <1>2 DEF Lookup, Refuse, End, GoTo, Cool, Stored, Accepted
<1>3. ASSUME NEW q \in Request, Validate(q) PROVE CoolInv'
  BY <1>3 DEF Validate, Refuse, End, GoTo, Cool, Stored
<1>4. ASSUME NEW q \in Request, CheckCooldown(q) PROVE CoolInv'
  <2>1. /\ UNCHANGED <<reports, form, before>> /\ ~ Stored(q) /\ pc[q] = "cooldown"
        /\ checkedAt' = [checkedAt EXCEPT ![q] = clock]
        /\ \A p \in Request \ {q} : pc'[p] = pc[p] /\ outcome'[p] = outcome[p]
        /\ outcome[q] = "none"
    BY <1>4 DEF CheckCooldown, End, GoTo
  <2>2. \A p \in Request \ {q} : Cool(p)' = Cool(p) /\ Stored(p)' = Stored(p)
    BY <2>1 DEF Cool, Stored
  <2>3. CASE pc'[q] = "end"
    BY <2>1, <2>2, <2>3 DEF Stored
  <2>4. CASE RecentOf(form[q].device) = {} /\ GoTo(q, "resolve")
    <3>1. \A a \in reports : a.device = form[q].device => ~ (a.at >= clock - Cooldown)
      BY <2>4 DEF RecentOf
    <3>2. Cool(q)'
      BY <3>1, <2>1, IntakeAssumption DEF Cool, Report, Time
    <3> QED
      BY <2>1, <2>2, <2>4, <3>2 DEF GoTo, Stored
  <2> QED
    BY <1>4, <2>3, <2>4 DEF CheckCooldown, End
<1>5. ASSUME NEW q \in Request, ResolveMealPeriod(q) PROVE CoolInv'
  BY <1>5 DEF ResolveMealPeriod, Refuse, End, GoTo, Cool, Stored, Form
<1>6. ASSUME NEW q \in Request, Insert(q) PROVE CoolInv'
  BY <1>6 DEF Insert, GoTo, Cool, Stored
<1>7. ASSUME NEW q \in Request, Commit(q) PROVE CoolInv'
  BY <1>7 DEF Commit, GoTo, Cool, Stored
<1>8. ASSUME NEW q \in Request, Enqueue(q) PROVE CoolInv'
  BY <1>8 DEF Enqueue, End, Cool, Stored
<1>9. ASSUME NEW q \in Request, StoreFails(q) \/ Abort(q) PROVE CoolInv'
  BY <1>9 DEF StoreFails, Abort, End, Cool, Stored
<1> QED
  BY <1>1, <1>2, <1>3, <1>4, <1>5, <1>6, <1>7, <1>8, <1>9 DEF Next, Handle

\* A device that waits for its answer before it reports again never beats the
\* cooldown.
THEOREM SequentialCooldownHolds == Spec => []SequentialCooldown
<1>1. Init => OnceInv /\ CoolInv
  BY DEF Init, OnceInv, CoolInv, Stored
<1>2. TypeInv /\ OnceInv /\ CoolInv => SequentialCooldown
  BY DEF TypeInv, TypeOK, OnceInv, CoolInv, Cool, Stored, SequentialCooldown, Report
<1> QED
  BY <1>1, <1>2, InitTypeInv, NextTypeInv, NextOnceInv, NextCoolInv, PTL DEF Spec

-----------------------------------------------------------------------------
(* The endpoint implements the report log. *)

AnswerTo(o) ==
  CASE o = "none" -> "pending" [] o = "accepted" -> "accepted"
    [] o \in Failure -> "failed" [] OTHER -> "refused"

LEMMA NextRefines == TypeInv /\ OnceInv /\ [Next]_vars => [Log!LogNext]_(Log!logVars)
<1> SUFFICES ASSUME TypeInv, OnceInv, [Next]_vars PROVE [Log!LogNext]_(Log!logVars)
  OBVIOUS
<1> USE DEF TypeInv, TypeOK, OnceInv
<1>1. \A q : Log!Has(q) <=> Stored(q)
  BY DEF Log!Has, Stored
<1>0. ASSUME NEW q \in Request, outcome[q] = "none" PROVE logAnswer[q] = "pending"
  <2>1. logAnswer[q] = AnswerTo(outcome[q])
    BY DEF logAnswer, AnswerTo
  <2> QED BY <1>0, <2>1 DEF AnswerTo, Failure
<1>2. ASSUME NEW q \in Request, NEW o \in Outcome, End(q, o)
      PROVE  logAnswer' = [logAnswer EXCEPT ![q] = AnswerTo(o)]
  <2>1. outcome' = [outcome EXCEPT ![q] = o]
    BY <1>2 DEF End
  <2>2. logAnswer = [x \in Request |-> AnswerTo(outcome[x])]
        /\ logAnswer' = [x \in Request |-> AnswerTo(outcome'[x])]
    BY DEF logAnswer, AnswerTo
  <2> QED BY <2>1, <2>2
<1>3. ASSUME UNCHANGED <<outcome, reports, queue>>
      PROVE  UNCHANGED Log!logVars
  BY <1>3 DEF Log!logVars, logAnswer
<1>4. ASSUME NEW q \in Request, NEW o \in Refusal, End(q, o), ~ Stored(q), pc[q] # "end",
             UNCHANGED <<reports, queue>>
      PROVE  Log!Refuse(q)
  <2>1. logAnswer' = [logAnswer EXCEPT ![q] = "refused"]
    BY <1>2, <1>4 DEF Refusal, Outcome, Failure, AnswerTo
  <2>2. logAnswer[q] = "pending"
    BY <1>0, <1>4
  <2> QED
    BY <1>1, <1>4, <2>1, <2>2 DEF Log!Refuse
<1>5. CASE Tick \/ Deactivate \/ UNCHANGED vars
  BY <1>3, <1>5 DEF Tick, Deactivate, vars
<1>6. ASSUME NEW q \in Request,
             Lookup(q) \/ Validate(q) \/ CheckCooldown(q) \/ ResolveMealPeriod(q) \/ Insert(q)
      PROVE  Log!Refuse(q) \/ UNCHANGED Log!logVars
  <2>1. UNCHANGED <<reports, queue>> /\ ~ Stored(q) /\ pc[q] # "end"
    BY <1>6 DEF Lookup, Validate, CheckCooldown, ResolveMealPeriod, Insert
  <2>2. (\E o \in Refusal : End(q, o)) \/ UNCHANGED outcome
    BY <1>6 DEF Lookup, Validate, CheckCooldown, ResolveMealPeriod, Insert,
                Refuse, GoTo, Refusal
  <2> QED
    BY <1>3, <1>4, <2>1, <2>2
<1>7. ASSUME NEW q \in Request, Commit(q) PROVE Log!Store(q)
  <2> DEFINE new == [id |-> q, device |-> form[q].device, at |-> form[q].begun,
                     period |-> form[q].period]
  <2>1. reports' = reports \cup {new} /\ UNCHANGED <<outcome, queue>> /\ pc[q] = "commit"
    BY <1>7 DEF Commit, GoTo
  <2>2. new \in Report /\ new.id = q
    BY <2>1 DEF FormInv, Form, Report
  <2> HIDE DEF new
  <2>3. logAnswer[q] = "pending" /\ UNCHANGED logAnswer /\ ~ Stored(q)
    <3>1. UNCHANGED logAnswer
      BY <2>1 DEF logAnswer
    <3> QED BY <1>0, <2>1, <3>1
  <2> QED
    BY <1>1, <2>1, <2>2, <2>3 DEF Log!Store
<1>8. ASSUME NEW q \in Request, Enqueue(q) PROVE Log!Accept(q)
  <2>1. logAnswer' = [logAnswer EXCEPT ![q] = "accepted"]
    BY <1>2, <1>8 DEF Enqueue, Outcome, Failure, AnswerTo
  <2>2. logAnswer[q] = "pending" /\ Stored(q)
    BY <1>0, <1>8 DEF Enqueue
  <2> QED
    BY <1>1, <1>8, <2>1, <2>2 DEF Log!Accept, Enqueue
<1>9. ASSUME NEW q \in Request, StoreFails(q) \/ Abort(q) PROVE Log!Fail(q)
  <2>1. logAnswer' = [logAnswer EXCEPT ![q] = "failed"]
    BY <1>2, <1>9 DEF StoreFails, Abort, Outcome, Failure, AnswerTo
  <2>2. logAnswer[q] = "pending"
    BY <1>0, <1>9 DEF StoreFails, Abort
  <2> QED
    BY <1>9, <2>1, <2>2 DEF Log!Fail, StoreFails, Abort
<1> QED
  BY <1>5, <1>6, <1>7, <1>8, <1>9 DEF Next, Handle, Log!LogNext

\* The endpoint implements the report log: a request leaves nothing or one report,
\* which its task follows, and only a stored and announced one is accepted.
THEOREM EndpointImplementsReportLog == Spec => ImplementsReportLog
<1>1. Init => Log!LogInit
  <2>1. logAnswer = [q \in Request |-> AnswerTo(outcome[q])]
    BY DEF logAnswer, AnswerTo
  <2>2. AnswerTo("none") = "pending"
    BY DEF AnswerTo, Failure
  <2> QED BY <2>1, <2>2 DEF Init, Log!LogInit
<1>2. Init => OnceInv
  BY DEF Init, OnceInv, Stored
<1> QED
  BY <1>1, <1>2, InitTypeInv, NextTypeInv, NextOnceInv, NextRefines, PTL
     DEF Spec, ImplementsReportLog, Log!LogSpec

-----------------------------------------------------------------------------
(* The period of a report.  The geo timestamp was near the clock when it    *)
(* was validated, and the clock only runs on between the lookup and the     *)
(* cooldown.                                                                *)

Near(q, last) == form[q].begun - MaxSkew <= form[q].geo /\ form[q].geo <= last + MaxSkew

PeriodInv ==
  \A q \in Request :
    /\ pc[q] \in {"validate", "cooldown"} => form[q].begun <= clock
    /\ pc[q] = "cooldown" => Near(q, clock)
    /\ pc[q] \in {"resolve", "insert", "commit", "enqueue"} \/ Stored(q) => Near(q, checkedAt[q])
    /\ pc[q] \in {"insert", "commit", "enqueue"} => form[q].period = PeriodAt[form[q].geo]
    /\ \A r \in reports : r.id = q => r.period = PeriodAt[form[q].geo]

\* What Validate may do.
LEMMA ValidateOutcome ==
  ASSUME NEW q \in Request, Validate(q)
  PROVE  \/ \E o : Refuse(q, o)
         \/ \E d \in Device, geo \in Time, inside \in BOOLEAN, signed \in BOOLEAN :
               /\ GeoVerdict(geo, signed) = "valid"
               /\ form' = [form EXCEPT ![q].device = d, ![q].geo = geo, ![q].inside = inside]
               /\ GoTo(q, "cooldown")
<1>1. PICK d \in Device \cup {NoDevice}, geo \in Time, inside \in BOOLEAN, signed \in BOOLEAN :
         \/ Refuse(q, "missing_device_id")
         \/ Refuse(q, GeoVerdict(geo, signed))
         \/ /\ d # NoDevice /\ GeoVerdict(geo, signed) = "valid"
            /\ form' = [form EXCEPT ![q].device = d, ![q].geo = geo, ![q].inside = inside]
            /\ GoTo(q, "cooldown")
  BY ZenonT(40) DEF Validate
<1>2. CASE d # NoDevice /\ GeoVerdict(geo, signed) = "valid"
             /\ form' = [form EXCEPT ![q].device = d, ![q].geo = geo, ![q].inside = inside]
             /\ GoTo(q, "cooldown")
  <2>1. d \in Device
    BY <1>2
  <2> QED BY <1>2, <2>1, Zenon
<1>3. CASE Refuse(q, "missing_device_id") \/ Refuse(q, GeoVerdict(geo, signed))
  BY <1>3, Zenon
<1> QED BY <1>1, <1>2, <1>3, Zenon

LEMMA NextPeriodInv == TypeInv /\ OnceInv /\ PeriodInv /\ [Next]_vars => PeriodInv'
<1> SUFFICES ASSUME TypeInv, OnceInv, PeriodInv, [Next]_vars PROVE PeriodInv'
  OBVIOUS
<1> USE IntakeAssumption DEF TypeInv, TypeOK, OnceInv, PeriodInv
<1>0. MaxSkew \in Nat /\ clock \in Nat /\ \A q \in Request : form[q].geo \in Nat /\ form[q].begun \in Nat
  BY DEF Form, Time, MaxSkew
<1>1. CASE Deactivate \/ UNCHANGED vars
  BY <1>1 DEF Deactivate, vars, Near, Stored
<1>2. CASE Tick
  BY <1>0, <1>2 DEF Tick, Near, Stored
\* a step that may end request q, or move it on without touching its form
<1>3. ASSUME NEW q \in Request, pc[q] # "end", UNCHANGED <<clock, reports, checkedAt>>,
             \A p \in Request \ {q} : form'[p] = form[p],
             \E o : End(q, o), ~ Stored(q)
      PROVE  PeriodInv'
  BY <1>3 DEF End, Near, Stored
<1>4. ASSUME NEW q \in Request, Lookup(q) PROVE PeriodInv'
  <2>1. CASE Refuse(q, "restaurant_not_found")
    BY <1>3, <1>4, <2>1 DEF Lookup, Refuse, Stored
  <2>2. CASE form' = [form EXCEPT ![q].begun = clock] /\ GoTo(q, "validate")
    <3>1. form'[q].begun = clock /\ \A p \in Request \ {q} : form'[p] = form[p]
      BY <2>2 DEF Form
    <3>2. ~ Stored(q) /\ UNCHANGED <<clock, reports, checkedAt>>
      BY <1>4 DEF Lookup, Stored
    <3> QED BY <1>0, <2>2, <3>1, <3>2 DEF GoTo, Near, Stored
  <2> QED BY <1>4, <2>1, <2>2 DEF Lookup
<1>5. ASSUME NEW q \in Request, Validate(q) PROVE PeriodInv'
  <2>0. UNCHANGED <<clock, reports, checkedAt>> /\ pc[q] = "validate" /\ ~ Stored(q)
    BY <1>5 DEF Validate, Stored
  <2>1. CASE \E o : Refuse(q, o)
    BY <1>3, <2>0, <2>1 DEF Refuse
  <2>2. CASE \E d \in Device, geo \in Time, inside \in BOOLEAN, signed \in BOOLEAN :
               /\ GeoVerdict(geo, signed) = "valid"
               /\ form' = [form EXCEPT ![q].device = d, ![q].geo = geo, ![q].inside = inside]
               /\ GoTo(q, "cooldown")
    <3>1. PICK d \in Device, geo \in Time, inside \in BOOLEAN, signed \in BOOLEAN :
               /\ GeoVerdict(geo, signed) = "valid"
               /\ form' = [form EXCEPT ![q].device = d, ![q].geo = geo, ![q].inside = inside]
               /\ GoTo(q, "cooldown")
      BY <2>2
    <3>2. /\ form'[q].geo = geo /\ form'[q].begun = form[q].begun
          /\ \A p \in Request \ {q} : form'[p] = form[p]
      BY <3>1 DEF Form
    <3>3. Skew(geo) <= MaxSkew /\ geo \in Nat
      BY <1>0, <3>1 DEF GeoVerdict, Skew, Time
    <3>4. form[q].begun - MaxSkew <= geo /\ geo <= clock + MaxSkew
      BY <1>0, <2>0, <3>3 DEF Skew
    <3> QED BY <1>0, <2>0, <3>1, <3>2, <3>4 DEF GoTo, Near, Stored
  <2> QED BY <1>5, <2>1, <2>2, ValidateOutcome
<1>6. ASSUME NEW q \in Request, CheckCooldown(q) PROVE PeriodInv'
  <2>1. /\ UNCHANGED <<clock, reports, form>> /\ pc[q] = "cooldown" /\ ~ Stored(q)
        /\ checkedAt' = [checkedAt EXCEPT ![q] = clock]
        /\ GoTo(q, "resolve") \/ \E o : End(q, o)
    BY <1>6 DEF CheckCooldown, Stored
  <2> QED BY <2>1 DEF GoTo, End, Near, Stored
<1>7. ASSUME NEW q \in Request, ResolveMealPeriod(q) PROVE PeriodInv'
  <2>0. UNCHANGED <<clock, reports, checkedAt>> /\ pc[q] = "resolve" /\ ~ Stored(q)
    BY <1>7 DEF ResolveMealPeriod, Stored
  <2>1. CASE Refuse(q, "outside_meal_hours")
    BY <1>3, <2>0, <2>1 DEF Refuse
  <2>2. CASE form' = [form EXCEPT ![q].period = PeriodAt[form[q].geo]] /\ GoTo(q, "insert")
    <3>1. /\ form'[q].geo = form[q].geo /\ form'[q].begun = form[q].begun
          /\ form'[q].period = PeriodAt[form[q].geo]
          /\ \A p \in Request \ {q} : form'[p] = form[p]
      BY <2>2 DEF Form
    <3> QED BY <2>0, <2>2, <3>1 DEF GoTo, Near, Stored
  <2> QED BY <1>7, <2>1, <2>2 DEF ResolveMealPeriod
<1>8. ASSUME NEW q \in Request, Insert(q) PROVE PeriodInv'
  BY <1>8 DEF Insert, GoTo, Near, Stored
<1>9. ASSUME NEW q \in Request, Commit(q) PROVE PeriodInv'
  <2> DEFINE new == [id |-> q, device |-> form[q].device, at |-> form[q].begun,
                     period |-> form[q].period]
  <2>1. /\ reports' = reports \cup {new} /\ pc[q] = "commit" /\ pc' = [pc EXCEPT ![q] = "enqueue"]
        /\ UNCHANGED <<clock, form, checkedAt>>
    BY <1>9 DEF Commit, GoTo
  <2>2. new.id = q /\ new.period = form[q].period
    OBVIOUS
  <2> HIDE DEF new
  <2> QED BY <2>1, <2>2 DEF Near, Stored
<1>10. ASSUME NEW q \in Request, Enqueue(q) PROVE PeriodInv'
  BY <1>10 DEF Enqueue, End, Near, Stored
<1>11. ASSUME NEW q \in Request, StoreFails(q) \/ Abort(q) PROVE PeriodInv'
  BY <1>11 DEF StoreFails, Abort, End, Near, Stored
<1> QED
  BY <1>1, <1>2, <1>4, <1>5, <1>6, <1>7, <1>8, <1>9, <1>10, <1>11 DEF Next, Handle

\* The period of a report was open near the time its user may have been there, whatever the
\* calendar and however long the handler took.
THEOREM PeriodIsOpenNearReport == Spec => []PeriodOpenNearReport
<1>1. Init => OnceInv /\ PeriodInv
  BY DEF Init, OnceInv, PeriodInv, Stored
<1>2. TypeInv /\ OnceInv /\ PeriodInv => PeriodOpenNearReport
  <2> SUFFICES ASSUME TypeInv, OnceInv, PeriodInv, NEW r \in reports
      PROVE  \E t \in (r.at - MaxSkew)..(checkedAt[r.id] + MaxSkew) \cap Time :
               PeriodAt[t] = r.period
    BY DEF PeriodOpenNearReport
  <2> DEFINE geo == form[r.id].geo
  <2>1. r.id \in Request /\ r.at = form[r.id].begun /\ Stored(r.id)
    BY DEF TypeInv, TypeOK, OnceInv, Report, Stored
  <2>2. Near(r.id, checkedAt[r.id]) /\ r.period = PeriodAt[geo]
    BY <2>1 DEF PeriodInv
  <2>3. geo \in Time /\ geo \in Int /\ MaxSkew \in Int /\ r.at \in Int /\ checkedAt[r.id] \in Int
    BY <2>1, IntakeAssumption DEF TypeInv, TypeOK, Form, Time, Never, MaxSkew
  <2>4. geo \in (r.at - MaxSkew)..(checkedAt[r.id] + MaxSkew)
    BY <2>1, <2>2, <2>3 DEF Near
  <2> QED BY <2>2, <2>3, <2>4
<1> QED
  BY <1>1, <1>2, InitTypeInv, NextTypeInv, NextOnceInv, NextPeriodInv, PTL DEF Spec

-----------------------------------------------------------------------------
(* The counter. *)

CountInv ==
  /\ IsFiniteSet(reports) /\ IsFiniteSet(queue)
  /\ \A q \in queue : outcome[q] = "accepted"
  /\ created = Cardinality(queue)

LEMMA NextCountInv == TypeInv /\ OnceInv /\ CountInv /\ [Next]_vars => CountInv'
<1> SUFFICES ASSUME TypeInv, OnceInv, CountInv, [Next]_vars PROVE CountInv'
  OBVIOUS
<1> USE DEF CountInv
<1>1. CASE UNCHANGED <<queue, created>> /\ IsFiniteSet(reports')
               /\ \A q \in queue : outcome'[q] = outcome[q]
  BY <1>1
<1>2. ASSUME NEW q \in Request, Enqueue(q) PROVE CountInv'
  <2>1. q \notin queue /\ queue' = queue \cup {q} /\ created' = created + 1 /\ UNCHANGED reports
    BY <1>2 DEF Enqueue, OnceInv
  <2>2. IsFiniteSet(queue') /\ Cardinality(queue') = Cardinality(queue) + 1
    BY <2>1, FS_AddElement
  <2>3. \A p \in queue' : outcome'[p] = "accepted"
    BY <1>2, <2>1 DEF Enqueue, End, TypeInv, TypeOK
  <2> QED BY <2>1, <2>2, <2>3
<1>3. ASSUME NEW q \in Request, Commit(q) PROVE CountInv'
  <2>1. IsFiniteSet(reports')
    BY <1>3, FS_AddElement DEF Commit
  <2> QED BY <1>1, <1>3, <2>1 DEF Commit, GoTo
<1>4. ASSUME NEW q \in Request,
             Lookup(q) \/ Validate(q) \/ CheckCooldown(q) \/ ResolveMealPeriod(q)
               \/ Insert(q) \/ StoreFails(q) \/ Abort(q)
      PROVE  CountInv'
  <2>1. pc[q] # "end" /\ q \notin queue /\ UNCHANGED <<queue, created, reports>>
    BY <1>4 DEF Lookup, Validate, CheckCooldown, ResolveMealPeriod, Insert, StoreFails, Abort,
                OnceInv
  <2>2. \A p \in Request \ {q} : outcome'[p] = outcome[p]
    BY <1>4 DEF Lookup, Validate, CheckCooldown, ResolveMealPeriod, Insert, StoreFails, Abort,
                Refuse, End, GoTo, TypeInv, TypeOK
  <2> QED BY <1>1, <2>1, <2>2 DEF TypeInv, TypeOK
<1>5. CASE Tick \/ Deactivate \/ UNCHANGED vars
  BY <1>1, <1>5 DEF Tick, Deactivate, vars
<1> QED BY <1>2, <1>3, <1>4, <1>5 DEF Next, Handle

\* The counter of accepted and persisted reports never runs ahead of the table and agrees
\* with the tasks the broker got.
THEOREM CounterStaysSound == Spec => []CounterIsSound
<1>1. Init => OnceInv /\ CountInv
  BY FS_EmptySet DEF Init, OnceInv, CountInv, Stored
<1>2. TypeInv /\ OnceInv /\ CountInv => CounterIsSound
  <2> SUFFICES ASSUME TypeInv, OnceInv, CountInv
      PROVE  Cardinality(queue) <= Cardinality(reports)
    BY DEF CountInv, CounterIsSound
  <2> DEFINE rowOf == [q \in queue |-> CHOOSE r \in reports : r.id = q]
  <2>1. \A q \in queue : \E r \in reports : r.id = q
    BY DEF TypeInv, TypeOK, OnceInv, CountInv, Stored
  <2>2. \A q \in queue : rowOf[q] \in reports /\ rowOf[q].id = q
    BY <2>1
  <2> HIDE DEF rowOf
  <2>3. rowOf \in Injection(queue, reports)
    <3>1. rowOf \in [queue -> reports]
      BY <2>2 DEF rowOf
    <3>2. \A a, b \in queue : rowOf[a] = rowOf[b] => a = b
      BY <2>2
    <3> QED BY <3>1, <3>2 DEF Injection, IsInjective
  <2> QED BY <2>3, FS_Injection DEF CountInv
<1> QED
  BY <1>1, <1>2, InitTypeInv, NextTypeInv, NextOnceInv, NextCountInv, PTL DEF Spec
=============================================================================
