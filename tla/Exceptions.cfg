SPECIFICATION Spec
CONSTANTS
  Null = Null
  Absent = Absent
  Hour = {0, 1, 2}
  Admin = {a1, a2}
  Row = {x1, x2}
  Schedules <- LunchAndDinner
SYMMETRY AdminRowSymmetry
INVARIANTS
  TypeOK
  ValidUnlessTorn
  ResolvedIsOpen
  ActiveExceptionExplains
CHECK_DEADLOCK FALSE
