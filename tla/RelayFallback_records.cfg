\* Three records of both types, thresholds of two and three checks.
SPECIFICATION FairSpec
CONSTANTS
  Records = {r1,r2,r3}
  r1 = r1
  r2 = r2
  r3 = r3
  FailureThreshold = 2
  RecoveryThreshold = 3
  MaxRows = 2
  Second = 2
  MaxTime = 2

INVARIANTS
  TypeOK
  KeptUnlessClash
  DeliveredOnce
PROPERTIES
  OutageActivates
  RecoveryDrains
