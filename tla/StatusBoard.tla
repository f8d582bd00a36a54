---------------------------- MODULE StatusBoard -----------------------------
(***************************************************************************)
(* What readers and subscribers may rely on, whoever computes it and       *)
(* however many at a time.  A worker begins, refreshes the board of a meal *)
(* period and tells subscribers.  As long as no other worker has refreshed *)
(* the same board since it began, the board shows the status of ONE list   *)
(* of reports of that period that are stored, never goes back to an older  *)
(* report, and the news repeat the board.  A worker that was overtaken may *)
(* leave columns of two calculations on that board, and stale news of it,  *)
(* but nothing else.                                                       *)
(***************************************************************************)
EXTENDS Integers

CONSTANTS
  Period, Report, Worker, Null,
  Blank,         \* the board before the first calculation
  Rows(_, _),    \* the rows that a list of reports may give at a time
  News(_)        \* what subscribers are told of a row

VARIABLES
  clock, reports,
  board,         \* the row of each period
  news,          \* the last that subscribers were told of each period
  begun,         \* the workers that calculate for each period
  written,       \* the workers that have refreshed the board of each period
  overtaken      \* workers at a board that another has refreshed since they began

boardVars == <<clock, reports, board, news, begun, written, overtaken>>

BoardInit ==
  /\ clock = 0
  /\ reports = {}
  /\ board = [p \in Period |-> Blank]
  /\ news = [p \in Period |-> Null]
  /\ begun = [p \in Period |-> {}] /\ written = [p \in Period |-> {}]
  /\ overtaken = {}

TimePasses ==
  /\ clock' = clock + 1
  /\ UNCHANGED <<reports, board, news, begun, written, overtaken>>

Post ==
  /\ \E r \in reports' : r \in Report /\ reports' = reports \cup {r}
  /\ UNCHANGED <<clock, board, news, begun, written, overtaken>>

\* what one whole calculation gives, made by now over stored reports of period p
Calculations(p) ==
  UNION {Rows(R, t) : R \in SUBSET {r \in reports : r.period = p}, t \in 0..clock}

\* a value of last_report_at that does not go back behind another
NotOlder(new, old) == new # Null /\ old # Null => new >= old

Begin(w, p) ==
  /\ \A o \in Period : w \notin begun[o] \cup written[o]
  /\ begun' = [begun EXCEPT ![p] = @ \cup {w}]
  /\ UNCHANGED <<clock, reports, board, news, written, overtaken>>

\* w writes on the board of period p, once, and so overtakes the others at it
Write(w, p) ==
  /\ w \in begun[p]
  /\ begun' = [begun EXCEPT ![p] = @ \ {w}]
  /\ written' = [written EXCEPT ![p] = @ \cup {w}]
  /\ overtaken' = overtaken \cup ((begun[p] \cup written[p]) \ {w})
  /\ UNCHANGED <<clock, reports, news>>

Refresh(w, p) ==
  /\ w \notin overtaken
  /\ Write(w, p)
  /\ \E x \in Calculations(p) :
       NotOlder(x.last, board[p].last) /\ board' = [board EXCEPT ![p] = x]

\* some columns of one calculation come to stand beside what is on the board
Merge(w, p) ==
  /\ w \in overtaken
  /\ Write(w, p)
  /\ \E x \in Calculations(p) : \E C \in SUBSET DOMAIN x :
       board' = [board EXCEPT ![p] = [c \in DOMAIN x |-> IF c \in C THEN x[c] ELSE @[c]]]

\* w has done with period p, or gives it up
Leave(w, p) ==
  /\ w \in begun[p] \cup written[p]
  /\ begun' = [begun EXCEPT ![p] = @ \ {w}]
  /\ written' = [written EXCEPT ![p] = @ \ {w}]
  /\ overtaken' = overtaken \ {w}
  /\ UNCHANGED <<clock, reports, board>>

Tell(w, p) ==
  /\ w \in written[p]
  /\ Leave(w, p)
  /\ \E x \in IF w \in overtaken THEN Calculations(p) ELSE {board[p]} :
       news' = [news EXCEPT ![p] = News(x)]

GiveUp(w, p) == Leave(w, p) /\ UNCHANGED news

BoardNext ==
  \/ TimePasses \/ Post
  \/ \E w \in Worker, p \in Period :
       Begin(w, p) \/ Refresh(w, p) \/ Merge(w, p) \/ Tell(w, p) \/ GiveUp(w, p)

BoardSpec == BoardInit /\ [][BoardNext]_boardVars
=============================================================================
