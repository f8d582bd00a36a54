SPECIFICATION FairSpec
CONSTANTS
  Operator = {o1}
  MaxCommands = 3
  MaxFaults = 2
  None = None
INVARIANTS
  SchemaFollowsRevision
  HeadServesTheModels
  StuckOnlyAfterDowngrade
PROPERTIES
  ApiComesUp
CHECK_DEADLOCK FALSE
