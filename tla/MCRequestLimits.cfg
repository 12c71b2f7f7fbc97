SPECIFICATION Spec
CONSTANTS
  ip1 = ip1
  IPs = {ip1}
  None = None
  BurstThreshold = 2
  BurstWindow = 2
  MaxFailed = 2
  FailureMemory = 4
  BlockDuration = 2
  AuthWindow = 3
  SomeFailures = 2
  CleanLimit = 3
  WarnedLimit = 2
  SuspiciousLimit = 1
  MaxTime = 5
  MaxEvents = 8
INVARIANTS BurstBounded LoginsWithinLimit ServedAfterBlock
CHECK_DEADLOCK FALSE
