----------------------------- MODULE ReportLog ------------------------------
(***************************************************************************)
(* What the reporting endpoint promises, whatever it validates: a request  *)
(* leaves nothing or exactly one report, which nobody changes or removes;  *)
(* its recalculation is announced only when the report is stored; and only *)
(* a stored and announced report is answered as accepted.  A request that  *)
(* fails may have left its report behind.                                  *)
(***************************************************************************)
CONSTANTS Request, Stored    \* Stored: what a report may be; each has a request

VARIABLES
  log,         \* the reports stored so far
  announced,   \* requests whose recalculation was announced
  answer       \* what each request was told

logVars == <<log, announced, answer>>

Answer == {"pending", "accepted", "refused", "failed"}

LogInit ==
  /\ log = {}
  /\ announced = {}
  /\ answer = [q \in Request |-> "pending"]

Has(q) == \E r \in log : r.id = q

Store(q) ==
  /\ answer[q] = "pending" /\ ~ Has(q)
  /\ \E r \in Stored : r.id = q /\ log' = log \cup {r}
  /\ UNCHANGED <<announced, answer>>

Accept(q) ==
  /\ answer[q] = "pending" /\ Has(q)
  /\ announced' = announced \cup {q}
  /\ answer' = [answer EXCEPT ![q] = "accepted"]
  /\ UNCHANGED log

Refuse(q) ==
  /\ answer[q] = "pending" /\ ~ Has(q)
  /\ answer' = [answer EXCEPT ![q] = "refused"]
  /\ UNCHANGED <<log, announced>>

Fail(q) ==
  /\ answer[q] = "pending"
  /\ answer' = [answer EXCEPT ![q] = "failed"]
  /\ UNCHANGED <<log, announced>>

LogNext == \E q \in Request : Store(q) \/ Accept(q) \/ Refuse(q) \/ Fail(q)

LogSpec == LogInit /\ [][LogNext]_logVars
=============================================================================
