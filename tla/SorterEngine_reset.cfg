\* What the reset test promises of the statistics.
CONSTANTS
  p1 = p1
  Parcels = {p1}
  MaxInductions = 1
  MaxChutes = 1
  Thresholds = {2}
  MaxCell = 2
  DefaultConfig <- MCConfig
  Updates <- MCParcelUpdates
  MaxInducted = 2
  MaxErrors = 1
SPECIFICATION Spec
INVARIANT ResetStatisticsStay
