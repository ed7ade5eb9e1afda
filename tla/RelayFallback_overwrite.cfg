SPECIFICATION Spec
CONSTANTS
  Records = {r1,r2,r3}
  r1 = r1
  r2 = r2
  r3 = r3
  FailureThreshold = 1
  RecoveryThreshold = 1
  MaxRows = 2
  Second = 2
  MaxTime = 2
SYMMETRY RecordSymmetry
INVARIANTS
  AcceptedRecordsKept
