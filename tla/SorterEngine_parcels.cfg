\* Two parcels on one induction and one chute: parcel life cycles and counters.
CONSTANTS
  p1 = p1
  p2 = p2
  Parcels = {p1, p2}
  MaxInductions = 1
  MaxChutes = 1
  Thresholds = {2}
  MaxCell = 2
  DefaultConfig <- MCConfig
  Updates <- MCParcelUpdates
  MaxInducted = 3
  MaxErrors = 1
SPECIFICATION Spec
SYMMETRY MCSymmetry
INVARIANTS
  TypeOK
  TimersMatchStages
  ExactAccounting
PROPERTIES
  FollowsProtocol
