SPECIFICATION Spec
CONSTANTS
  Request = {q1, q2}
  Device = {d1}
  NoDevice = NoDevice
  Cooldown = 2
  ClockSkew = 1
  DebugSkew = 3
  Debug = FALSE
  PeriodAt <- LunchDinnerClosed
  MaxTime = 3
  MaxFailures = 0
INVARIANTS
  OneReportPerCooldown
CHECK_DEADLOCK FALSE
