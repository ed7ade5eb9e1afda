\* Two inductions and two thresholds: intervals, statuses, telegrams, flags and liveness.
CONSTANTS
  p1 = p1
  Parcels = {p1}
  MaxInductions = 2
  MaxChutes = 1
  Thresholds = {2, 3}
  MaxCell = 2
  DefaultConfig <- MCConfig
  Updates <- MCLineUpdates
  MaxInducted = 2
  MaxErrors = 1
SPECIFICATION FairSpec
INVARIANTS
  TimersFollowStatus
  SmcViewAccurate
PROPERTIES
  OverflowFlagTruthful
  EveryParcelLeaves
