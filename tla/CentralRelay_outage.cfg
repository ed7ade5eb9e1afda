SPECIFICATION FairSpec
CONSTANTS
  N = 2
  MaxAttempts = 2
  MaxPending = 2
  Rounds = {h1}
  h1 = h1
  Records = {r1}
  r1 = r1
  FailureThreshold = 2
  RecoveryThreshold = 3
  MaxRows = 2
  Second = 1
  MaxTime = 0
PROPERTIES
  OutageDetected
  LastingRecovery
