---------------------------- MODULE ChuteDisplay ----------------------------
(***************************************************************************)
(* The chute displays of the standard software                             *)
(* (apps/standard-sw/src/chute-display/chute-display.service.ts): a count, *)
(* a fill rate and a status each, kept in step by three operations.        *)
(***************************************************************************)
EXTENDS Integers, Sequences, FiniteSets

CONSTANTS
  Capacity,       \* DEFAULT_CAPACITY (200)
  RoundedDown,    \* counts whose percentage ends in a half that floating point
                  \* makes smaller (57 of 200: 28.499999999999996)
  InitialCounts,  \* counts a display may start with (0 to 159, at random)
  Displays,       \* chute numbers (1 to 20)
  MaxCount        \* bound of the model: parcels per chute

ASSUME DisplayAssumption == Capacity \in Nat \ {0} /\ InitialCounts \subseteq Nat

VARIABLE display  \* each chute's entry

Entry == [currentCount : Nat, fillRate : Nat,
          status : {"NORMAL", "NEAR_FULL", "FULL", "EMPTY"}]

\* calcStatus(): FULL at 100 %, NEAR_FULL at 80 %.
CalcStatus(count) ==
  IF count >= Capacity THEN "FULL"
  ELSE IF 10 * count >= 8 * Capacity THEN "NEAR_FULL"
  ELSE IF count = 0 THEN "EMPTY" ELSE "NORMAL"

\* Math.round() of the percentage: half a percent is rounded up, unless the
\* quotient in floating point comes out below the half.
FillRate(count) ==
  IF count \in RoundedDown /\ (200 * count) % (2 * Capacity) = Capacity
    THEN (100 * count) \div Capacity
    ELSE (200 * count + Capacity) \div (2 * Capacity)

Shown(count) ==
  [currentCount |-> count, fillRate |-> FillRate(count), status |-> CalcStatus(count)]

DisplayInit == \E counts \in [Displays -> InitialCounts] :
                 display = [c \in Displays |-> Shown(counts[c])]

\* What applyPlan() and resetChute() write.
Emptied(e) == [currentCount |-> 0, fillRate |-> 0, status |-> "EMPTY"]

\* applyPlan(): mappings of chutes that do not exist are skipped.
ApplyPlan(mapped) ==
  display' = [c \in Displays |-> IF c \in mapped THEN Emptied(display[c]) ELSE display[c]]

ResetChute(c) == display' = [display EXCEPT ![c] = Emptied(@)]

\* incrementCount(): past the capacity, too.
IncrementCount(c) ==
  /\ display[c].currentCount < MaxCount
  /\ display' = [display EXCEPT ![c] = Shown(@.currentCount + 1)]

DisplayNext ==
  \/ \E mapped \in SUBSET Displays : ApplyPlan(mapped)
  \/ \E c \in Displays : ResetChute(c) \/ IncrementCount(c)

DisplaySpec == DisplayInit /\ [][DisplayNext]_display

-----------------------------------------------------------------------------
DisplayTypeOK == display \in [Displays -> Entry]

\* What a display shows can be read off: the fill rate is a nearest whole percent of
\* the count, however floating point turns a half, and the status never contradicts
\* it, also after a reset and past the capacity; a rounded 100 % is not yet FULL
\* (chute-display.service.ts:63-69, 116).
DisplayTruthful ==
  \A c \in Displays :
    LET d == display[c]  error == 2 * (Capacity * d.fillRate - 100 * d.currentCount) IN
    /\ -Capacity <= error /\ error <= Capacity
    /\ d.status = "FULL" <=> d.currentCount >= Capacity
    /\ d.status = "EMPTY" <=> d.currentCount = 0
    /\ d.status = "FULL" => d.fillRate >= 100
    /\ d.status = "NEAR_FULL" => d.fillRate \in 80 .. 100
    /\ d.status \in {"NORMAL", "EMPTY"} => d.fillRate <= 80
=============================================================================
