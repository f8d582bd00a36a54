SPECIFICATION Spec
CONSTANTS
  s3 = s3
  d1 = d1
  Socket = {s1, s2, s3}
  Device = {d1}
  None = None
  DeviceOf <- Browsers
  MaxMessages = 1
  MaxFailures = 0
INVARIANTS
  EveryMessageReachesAll
CHECK_DEADLOCK FALSE
