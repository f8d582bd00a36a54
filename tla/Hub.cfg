SPECIFICATION FairSpec
CONSTANTS
  s3 = s3
  d1 = d1
  Socket = {s1, s2, s3}
  Device = {d1}
  None = None
  DeviceOf <- PhoneAndBrowser
  MaxMessages = 1
  MaxFailures = 1
INVARIANTS
  TypeOK
  SuccessorStaysRegistered
  NoTraceAfterDisconnect
  UndisturbedBroadcastReachesAll
PROPERTIES
  ListenerReturns
CHECK_DEADLOCK FALSE
