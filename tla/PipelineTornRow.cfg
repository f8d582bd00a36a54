SPECIFICATION Spec
CONSTANTS
  FoodEndedQuorum = 2
  FoodEndedWindow = 1
  ReportWindow = 2
  ShortWindow = 1
  MediumWindow = 1
  FreshAge = 0
  ShortMinCount = 3
  MediumMinCount = 2
  Null = Null
  Request = {q1, q2, q3}
  Worker = {w1, w2}
  MaxTime = 3
  MaxFailures = 0
  MaxRetries = 1
  TxnLag = 0
  ClockSkew = 0
  Content <- QueueOrFoodEnded
  PeriodAt <- AlwaysLunch
SYMMETRY RequestWorkerSymmetry
INVARIANTS
  AvgNullWithoutMean
CHECK_DEADLOCK FALSE
