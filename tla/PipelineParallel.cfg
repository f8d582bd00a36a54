SPECIFICATION Spec
CONSTANTS
  FoodEndedQuorum = 1
  FoodEndedWindow = 1
  ReportWindow = 2
  ShortWindow = 1
  MediumWindow = 1
  FreshAge = 0
  ShortMinCount = 3
  MediumMinCount = 2
  Null = Null
  Request = {q1, q2}
  Worker = {w1, w2}
  MaxTime = 3
  MaxFailures = 1
  MaxRetries = 1
  TxnLag = 1
  ClockSkew = 1
  Content <- QueueOrFoodEnded
  PeriodAt <- LunchThenDinner
SYMMETRY RequestWorkerSymmetry
INVARIANTS
  TypeOK
  TaskSeesItsReport
  NoContamination
  RowCoherent
  SettledRowIsCurrent
  SettledEventIsRow
PROPERTIES
  ImplementsStatusBoard
CHECK_DEADLOCK FALSE
