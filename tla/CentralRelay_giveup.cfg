SPECIFICATION FairSpec
CONSTANTS
  N = 1
  MaxAttempts = 1
  MaxPending = 1
  Rounds = {h1}
  h1 = h1
  Records = {r1}
  r1 = r1
  FailureThreshold = 2
  RecoveryThreshold = 2
  MaxRows = 2
  Second = 1
  MaxTime = 0
PROPERTIES
  AutoSyncAfterRecovery
