SPECIFICATION StartupSpec
CONSTANTS
  k1 = k1
  k2 = k2
  n2 = n2
  c2 = c2
  x1 = x1
  n1 = n1
  c1 = c1
  Null = Null
  Absent = Absent
  Hour = {0, 1, 2}
  Request = {q1, q2, q3}
  Key = {k1, k2, k3}
  ScheduleKey = {x1, x2, x3, x4}
  Name = {n1, n2, n3}
  Campus = {c1, c2, c3}
  Weekday = {0}
  Today = 0
  InitialRestaurants <- TwoRestaurants
  InitialSchedules <- OneLunch
  Seeded <- OneSeeded
  SeedHours <- Hours
  MaxStarts = 2
SYMMETRY StartupSymmetry
INVARIANTS
  TypeOK
  RowsForEveryRestaurant
  OneSchedulePerSlot
  OneItemPerOpenRestaurant
PROPERTIES
  DeactivationIsFinal
  OnlyRacesTearHours
  StartKeepsEdits
CHECK_DEADLOCK FALSE
