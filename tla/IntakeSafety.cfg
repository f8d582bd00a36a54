SPECIFICATION Spec
CONSTANTS
  Request = {q1, q2}
  Device = {d1}
  NoDevice = NoDevice
  Cooldown = 2
  ClockSkew = 1
  DebugSkew = 3
  Debug = FALSE
  PeriodAt <- LunchDinnerClosed
  MaxTime = 5
  MaxFailures = 1
SYMMETRY RequestSymmetry
INVARIANTS
  TypeOK
  SequentialCooldown
  PeriodOpenNearReport
  CounterIsSound
PROPERTIES
  ImplementsReportLog
CHECK_DEADLOCK FALSE
