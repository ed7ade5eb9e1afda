--------------------------- MODULE MCSorterEngine ---------------------------
(* Instances of SorterEngine for TLC.                                      *)
EXTENDS SorterEngine, TLC

\* One induction, one chute, overflow at two parcels: the configuration to start from.
MCConfig == [inductionCount |-> 1, chuteCount |-> 1, overflowThreshold |-> 2]

Partial(ic, cc, th, newInterval, patched) ==
  [inductionCount |-> ic, chuteCount |-> cc, overflowThreshold |-> th,
   newInterval |-> newInterval, patched |-> patched]

Profile(ic, cc, th) == Partial(ic, cc, th, TRUE, FALSE)

\* A profile with more inductions and a higher threshold; PATCH of the chutes, of
\* the inductions and of the interval alone; the scenario step that sets a threshold.
MCLineUpdates ==
  {Profile(2, 1, 3),
   Partial(Undefined, 1, Undefined, FALSE, TRUE),
   Partial(1, Undefined, Undefined, FALSE, TRUE),
   Partial(Undefined, Undefined, Undefined, TRUE, TRUE),
   Partial(Undefined, Undefined, 2, FALSE, FALSE)}

\* The default again, and PATCH of the chutes or of the inductions alone.
MCParcelUpdates ==
  {Profile(1, 1, 2),
   Partial(Undefined, 1, Undefined, FALSE, TRUE),
   Partial(1, Undefined, Undefined, FALSE, TRUE)}

MCSymmetry == Permutations(Parcels)
=============================================================================
