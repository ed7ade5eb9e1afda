--------------------------- MODULE ParcelProtocol ---------------------------
(***************************************************************************)
(* What the sorter promises the SMC about each parcel, whatever commands,  *)
(* faults and timers do: T20 (inducted), T21 (discharged) and T22          *)
(* (confirmed) come once each and in this order; a parcel enters only      *)
(* while the line runs; and a parcel disappears without T22 only when the  *)
(* whole line is cleared.  The abstract specification of SorterEngine.     *)
(***************************************************************************)
CONSTANT Parcels

VARIABLES
  line,    \* the sorter's status
  phase    \* where each parcel is between its telegrams

vars == <<line, phase>>

Statuses == {"STOPPED", "RUNNING", "EMERGENCY"}
Phases == {"absent", "inTransit", "discharged"}

Init ==
  /\ line = "STOPPED"
  /\ phase = [p \in Parcels |-> "absent"]

Move(p, from, to) ==
  /\ phase[p] = from
  /\ phase' = [phase EXCEPT ![p] = to]
  /\ line' = line

Induct(p)    == line = "RUNNING" /\ Move(p, "absent", "inTransit")
Discharge(p) == Move(p, "inTransit", "discharged")
Confirm(p)   == Move(p, "discharged", "absent")

\* stop(), reset() of a line that is not stopped, reconfiguration of a running line.
ClearLine ==
  /\ line # "STOPPED"
  /\ line' \in {line, "STOPPED"}
  /\ phase' = [p \in Parcels |-> "absent"]

\* Start, trip and recovery: parcels on the line are not touched.
ChangeLine ==
  /\ line' \in Statuses
  /\ line # "RUNNING" \/ line' = "EMERGENCY"
  /\ UNCHANGED phase

Next ==
  \/ \E p \in Parcels : Induct(p) \/ Discharge(p) \/ Confirm(p)
  \/ ClearLine
  \/ ChangeLine

Spec == Init /\ [][Next]_vars
=============================================================================
