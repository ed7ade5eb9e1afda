---------------------------- MODULE PidGenerator ----------------------------
(***************************************************************************)
(* Parcel ids (packages/telegram/src/pid.ts): every induction has a range  *)
(* of ids for parcels fed automatically and one for parcels keyed by hand, *)
(* and a counter that goes round in each.                                  *)
(***************************************************************************)
EXTENDS Integers, Sequences

CONSTANTS
  Inductions,   \* 1 to 4
  Block,        \* ids between the ranges of two inductions (100000)
  RangeSize,    \* ids of a range (15000)
  MaxPids       \* bound of the model: ids of each range between resets

ASSUME PidAssumption ==
  /\ Inductions \subseteq Nat \ {0} /\ RangeSize \in Nat \ {0}
  /\ Block \in Nat /\ 2 * RangeSize <= Block

VARIABLES
  counter,      \* the next id of each range, 0 while unset
  issued        \* history: the ids of each range since its last reset, in order

pidVars == <<counter, issued>>

PIDModes == {"auto", "key"}
Ranges == Inductions \X PIDModes

\* PID_RANGES
RangeStart(r) == r[1] * Block + (IF r[2] = "auto" THEN 1 ELSE RangeSize + 1)
RangeEnd(r) == RangeStart(r) + RangeSize - 1

PidInit ==
  /\ counter = [r \in Ranges |-> 0]
  /\ issued = [r \in Ranges |-> <<>>]

\* Faulty variant, for the mutant checks: the last id of a range is skipped.
NextPidShort(r) ==
  IF counter[r] = 0 \/ counter[r] >= RangeEnd(r) THEN RangeStart(r) ELSE counter[r]

\* The id generate() hands out, back at the start past the end.
NextPid(r) ==
  IF counter[r] = 0 \/ counter[r] > RangeEnd(r) THEN RangeStart(r) ELSE counter[r]

\* generate() for a range; it throws for an induction there is not.
Generate(r) ==
  /\ Len(issued[r]) < MaxPids
  /\ counter' = [counter EXCEPT ![r] = NextPid(r) + 1]
  /\ issued' = [issued EXCEPT ![r] = Append(@, NextPid(r))]

\* reset(), of one induction or of all
ResetPids(inductions) ==
  /\ counter' = [r \in Ranges |-> IF r[1] \in inductions THEN 0 ELSE counter[r]]
  /\ issued' = [r \in Ranges |-> IF r[1] \in inductions THEN <<>> ELSE issued[r]]

\* PIDGenerator.resolve(): the ranges an id belongs to
Resolve(pid) == {r \in Ranges : RangeStart(r) <= pid /\ pid <= RangeEnd(r)}

PidNext ==
  \/ \E r \in Ranges : Generate(r)
  \/ \E i \in Inductions : ResetPids({i})
  \/ ResetPids(Inductions)

PidSpec == PidInit /\ [][PidNext]_pidVars

-----------------------------------------------------------------------------
PidTypeOK ==
  /\ counter \in [Ranges -> Nat]
  /\ issued \in [Ranges -> Seq(Nat)]

\* Every id belongs to the range it was made for and to no other, and among
\* RangeSize ids of a range in a row none is there twice, unless a reset comes
\* between them: as long as fewer parcels are under way, no two share an id
\* (pid.ts:51-58).
PidsDistinct ==
  \A r \in Ranges :
    /\ \A i \in DOMAIN issued[r] : Resolve(issued[r][i]) = {r}
    /\ \A i, j \in DOMAIN issued[r] :
         (i < j /\ j < i + RangeSize) => issued[r][i] # issued[r][j]
=============================================================================
