---------------------------- MODULE SorterEngine ----------------------------
(***************************************************************************)
(* The virtual sorter of the PLC simulator                                 *)
(* (apps/plc-simulator/src/sorter-engine/sorter-engine.service.ts), driven *)
(* by the SMC's control telegrams (command-handler.service.ts), by the     *)
(* HTTP controller (simulation.controller.ts, profile.service.ts) and by   *)
(* its own interval and timeout callbacks.  Node runs each handler and     *)
(* each callback to completion, so each is one action; what interleaves    *)
(* is the order of handlers and timers.  Timers carry no clock: intervals  *)
(* and delays are configurable at any time, so any armed timer may be next.*)
(*                                                                         *)
(* Random draws (destination, no-read, sort success) are nondeterministic, *)
(* which covers every rate, an undefined one too; timestamps and telegram  *)
(* layouts are abstracted, and configured counts are whole numbers.        *)
(* Induction modes and the PIDs they select are left out: a parcel is      *)
(* known by its object.                                                    *)
(***************************************************************************)
EXTENDS Integers, FiniteSets

CONSTANTS
  Parcels,          \* pool of VirtualItem objects; a parcel that left may be reused
  MaxInductions,    \* UpdateConfigDto allows 1..4 inductions, PID_RANGES has 4
  MaxChutes,        \* bound on the configurable number of chutes
  Thresholds,       \* overflow thresholds the operator may configure (DTO: >= 1)
  MaxCell,          \* last cell index before the counter wraps to 1 (65535 in the code)
  DefaultConfig,    \* DEFAULT_ENGINE_CONFIG, scaled down
  Updates,          \* the partial configurations that callers hand to updateConfig()
  MaxInducted,      \* bound on parcels inducted between two resets
  MaxErrors         \* bound on faults triggered between two resets

\* A setting whose value is undefined: no comparison with it holds.
Undefined == 0

\* A chute count that is undefined or NaN: it stays so and reaches no threshold.
NaN == -1

Configs == [inductionCount : 1..MaxInductions \cup {Undefined},
            chuteCount : 1..MaxChutes \cup {Undefined},
            overflowThreshold : Thresholds \cup {Undefined}]

\* A partial configuration: a setting that is not given is Undefined, newInterval
\* says that inductionIntervalMs is given, and patched that PATCH config sent it.
Partials == [inductionCount : 1..MaxInductions \cup {Undefined},
             chuteCount : 1..MaxChutes \cup {Undefined},
             overflowThreshold : Thresholds \cup {Undefined},
             newInterval : BOOLEAN,
             patched : BOOLEAN]

ASSUME EngineAssumption ==
  /\ MaxInductions \in 1..4
  /\ MaxChutes \in Nat \ {0}
  /\ Thresholds \subseteq Nat \ {0}
  /\ MaxCell \in Nat \ {0}
  /\ DefaultConfig \in Configs
  /\ Updates \subseteq Partials
  /\ MaxInducted \in Nat
  /\ MaxErrors \in Nat
  /\ IsFiniteSet(Parcels)

VARIABLES
  config,           \* the part of SorterEngineConfig that shapes the state
  sorterStatus,     \* sorter.status
  totals,           \* sorter.total* counters
  inductions,       \* VirtualInduction records, by number
  chutes,           \* VirtualChute records, by number
  items,            \* the parcels in this.items
  itemStatus,       \* item.status of every parcel object
  destination,      \* item.destination of every parcel object
  cellCounter,      \* this.cellCounter
  inductionTimers,  \* live setInterval handles of this.inductionTimers, per induction
  dischargeTimers,  \* parcels whose discharge timeout is armed
  confirmTimers,    \* parcels whose confirm timeout is armed
  reported,         \* last T10 / T11 values sent on RECEIVE_MCS: the SMC's view
  stray,            \* history: discharges and confirms counted, since the last
                    \* reset, for parcels that are not in this.items
  dropped           \* history: parcels still in this.items whose timeout a stop cleared

lineVars   == <<config, sorterStatus, inductions, chutes, inductionTimers, reported>>
parcelVars == <<items, itemStatus, destination, dischargeTimers, confirmTimers, dropped>>
countVars  == <<totals, cellCounter, stray>>
vars       == <<lineVars, parcelVars, countVars>>

SorterStatuses    == {"STOPPED", "RUNNING", "EMERGENCY"}
InductionStatuses == {"STOPPED", "RUNNING", "FAULT"}
ItemStatuses      == {"NONE", "IN_TRANSIT", "DISCHARGED", "CONFIRMED"}
Outcomes          == {"NO_READ", "RECIRCULATION", "NORMAL"}
FaultTypes        == {"MOTOR_TRIP", "JAM", "OVERFLOW"}
InductionNos      == 1..MaxInductions

Induction == [status : InductionStatuses, itemCount : Nat]
Chute     == [itemCount : Nat \cup {NaN}, overflow : BOOLEAN]
Totals    == [inducted : Nat, discharged : Nat, confirmed : Nat,
              errors : Nat, noRead : Nat, recirculated : Nat]

SmcView   == [sorter : SorterStatuses, ind : [InductionNos -> InductionStatuses]]
Strays    == [discharged : Nat, confirmed : Nat]

NewInductions(status, n) == [i \in 1..n |-> [status |-> status, itemCount |-> 0]]
NewChutes(n) == [c \in 1..n |-> [itemCount |-> 0, overflow |-> FALSE]]
ZeroTotals == [inducted |-> 0, discharged |-> 0, confirmed |-> 0,
               errors |-> 0, noRead |-> 0, recirculated |-> 0]
NoStray    == [discharged |-> 0, confirmed |-> 0]
NoTimers   == [i \in InductionNos |-> 0]
InFlight   == dischargeTimers \cup confirmTimers

\* startInductionTimers(): one more interval for each of this.inductions.
WithTimers(timers, inds) ==
  [i \in InductionNos |-> timers[i] + (IF i \in DOMAIN inds THEN 1 ELSE 0)]

\* clearPendingTimers(): whatever is listed has no timeout any more.
ClearPendingTimers ==
  /\ dischargeTimers' = {}
  /\ confirmTimers' = {}
  /\ dropped' = items'

PendingTimersKept == UNCHANGED <<dischargeTimers, confirmTimers, dropped>>

\* sendSorterStatus() and sendInductionStatus(ind) for every given induction.
Report(status, inds) ==
  [sorter |-> status,
   ind |-> [i \in InductionNos |-> IF i \in DOMAIN inds THEN inds[i].status
                                   ELSE reported.ind[i]]]

WithStatus(status) == [i \in DOMAIN inductions |-> [inductions[i] EXCEPT !.status = status]]

\* FAULT inductions fall back to STOPPED when a jam is cleared.
JamsCleared ==
  [i \in DOMAIN inductions |->
     IF inductions[i].status = "FAULT" THEN [inductions[i] EXCEPT !.status = "STOPPED"]
                                       ELSE inductions[i]]

\* Every triggerFault() counts an error.
CountError ==
  /\ totals.errors < MaxErrors                                  \* bound
  /\ totals' = [totals EXCEPT !.errors = @ + 1]

-----------------------------------------------------------------------------
(***************************************************************************)
(* Faulty variants: each is the definition it is named after with one slip *)
(* a maintainer could make.  No behaviour of Spec uses them; they show     *)
(* which property notices which slip.                                      *)
(***************************************************************************)

\* The wrap of the cell counter is forgotten.
NextCellUnwrapped == cellCounter + 1

\* The flag is raised one parcel too early.
DroppedInEarly(chute) ==
  LET count == IF chute.itemCount = NaN THEN NaN ELSE chute.itemCount + 1
  IN  [itemCount |-> count,
       overflow  |-> \/ chute.overflow
                     \/ /\ config.overflowThreshold # Undefined
                        /\ count + 1 >= config.overflowThreshold]

\* stop() also empties this.items but not the totals.
StopDropsItems ==
  /\ sorterStatus # "STOPPED"
  /\ sorterStatus' = "STOPPED"
  /\ inductions' = WithStatus("STOPPED")
  /\ inductionTimers' = NoTimers
  /\ items' = {}
  /\ ClearPendingTimers
  /\ reported' = Report("STOPPED", inductions')
  /\ UNCHANGED <<config, chutes, itemStatus, destination, countVars>>

\* stop() clears the discharge timeouts only.
StopKeepsConfirms ==
  /\ sorterStatus # "STOPPED"
  /\ sorterStatus' = "STOPPED"
  /\ inductions' = WithStatus("STOPPED")
  /\ inductionTimers' = NoTimers
  /\ dischargeTimers' = {}
  /\ dropped' = items
  /\ reported' = Report("STOPPED", inductions')
  /\ UNCHANGED <<config, chutes, items, itemStatus, destination, confirmTimers, countVars>>

\* setInductionControl() does not send T11.
SetInductionControlSilently(i, status) ==
  /\ i \in DOMAIN inductions
  /\ inductions' = [inductions EXCEPT ![i].status = status]
  /\ UNCHANGED <<config, sorterStatus, chutes, inductionTimers, reported, parcelVars, countVars>>

\* A motor trip leaves the induction intervals running.
MotorTripKeepsTimers ==
  /\ CountError
  /\ sorterStatus' = "EMERGENCY"
  /\ reported' = [reported EXCEPT !.sorter = "EMERGENCY"]
  /\ UNCHANGED <<config, inductions, chutes, inductionTimers, parcelVars, cellCounter, stray>>

\* confirmItem() does not take the parcel off this.items.
ConfirmItemKeepsListed(p) ==
  /\ p \in confirmTimers
  /\ itemStatus[p] = "DISCHARGED"
  /\ itemStatus' = [itemStatus EXCEPT ![p] = "CONFIRMED"]
  /\ totals' = [totals EXCEPT !.confirmed = @ + 1]
  /\ confirmTimers' = confirmTimers \ {p}
  /\ UNCHANGED <<lineVars, items, destination, dischargeTimers, dropped, cellCounter, stray>>
-----------------------------------------------------------------------------
\* The cell counter wraps to 1: 0 is never a cell.
NextCell == IF cellCounter + 1 > MaxCell THEN 1 ELSE cellCounter + 1

\* One more parcel in a chute; the flag is raised at the threshold.
DroppedIn(chute) ==
  LET count == IF chute.itemCount = NaN THEN NaN ELSE chute.itemCount + 1
  IN  [itemCount |-> count,
       overflow  |-> \/ chute.overflow
                     \/ /\ config.overflowThreshold # Undefined
                        /\ count >= config.overflowThreshold]

Init ==
  /\ config = DefaultConfig
  /\ sorterStatus = "STOPPED"
  /\ totals = ZeroTotals
  /\ inductions = NewInductions("STOPPED", DefaultConfig.inductionCount)
  /\ chutes = NewChutes(DefaultConfig.chuteCount)
  /\ items = {}
  /\ itemStatus = [p \in Parcels |-> "NONE"]
  /\ destination = [p \in Parcels |-> 1]
  /\ dropped = {}
  /\ cellCounter = 0
  /\ inductionTimers = NoTimers
  /\ dischargeTimers = {}
  /\ confirmTimers = {}
  /\ reported = [sorter |-> "STOPPED", ind |-> [i \in InductionNos |-> "STOPPED"]]
  /\ stray = NoStray
-----------------------------------------------------------------------------
(***************************************************************************)
(* Operator and SMC commands.                                              *)
(***************************************************************************)

\* start(), also setSorterControl(1) and POST start.  It only refuses when
\* RUNNING: an EMERGENCY is left without clearing the fault.
Start ==
  /\ sorterStatus # "RUNNING"
  /\ sorterStatus' = "RUNNING"
  /\ inductions' = WithStatus("RUNNING")
  /\ inductionTimers' = WithTimers(inductionTimers, inductions)
  /\ reported' = Report("RUNNING", inductions')
  /\ UNCHANGED <<config, chutes, parcelVars, countVars>>

\* stop(), also setSorterControl(0) and POST stop.  STOPPING exists only
\* inside the handler.  Parcels on the line lose their timers and stay in items.
Stop ==
  /\ sorterStatus # "STOPPED"
  /\ sorterStatus' = "STOPPED"
  /\ inductions' = WithStatus("STOPPED")
  /\ inductionTimers' = NoTimers
  /\ UNCHANGED items
  /\ ClearPendingTimers
  /\ reported' = Report("STOPPED", inductions')
  /\ UNCHANGED <<config, chutes, itemStatus, destination, countVars>>

\* reset(): stop() first, which returns at once when already STOPPED and then
\* clears no timer.
Reset ==
  /\ items' = {}
  /\ \/ /\ sorterStatus # "STOPPED"
        /\ inductionTimers' = NoTimers
        /\ ClearPendingTimers
        /\ reported' = Report("STOPPED", WithStatus("STOPPED"))
     \/ /\ sorterStatus = "STOPPED"
        /\ dropped' = {}
        /\ UNCHANGED <<inductionTimers, dischargeTimers, confirmTimers, reported>>
  /\ sorterStatus' = "STOPPED"
  /\ totals' = ZeroTotals
  /\ stray' = NoStray
  /\ cellCounter' = 0
  /\ inductions' = NewInductions("STOPPED", config.inductionCount)
  /\ chutes' = NewChutes(config.chuteCount)
  /\ UNCHANGED <<config, itemStatus, destination>>

\* updateConfig().  PATCH config hands over a transformed UpdateConfigDto, whose
\* fields that were not given are own properties and overwrite the settings with
\* undefined; the plain objects of profiles and scenario steps leave them alone.
\* A running line is stopped, rebuilt and started again; otherwise it is rebuilt in
\* place, with no telegram and the timers of parcels in flight still armed.
UpdateConfig(partial) ==
  LET assigned(new, old) == IF new = Undefined /\ ~partial.patched THEN old ELSE new
      cfg     == [inductionCount    |-> assigned(partial.inductionCount, config.inductionCount),
                  chuteCount        |-> assigned(partial.chuteCount, config.chuteCount),
                  overflowThreshold |-> assigned(partial.overflowThreshold,
                                                 config.overflowThreshold)]
      rebuild == partial.inductionCount # Undefined \/ partial.chuteCount # Undefined
      running == sorterStatus = "RUNNING"
      stopped == Report("STOPPED", WithStatus("STOPPED"))
  IN
  /\ config' = cfg
  /\ UNCHANGED items
  /\ \/ /\ rebuild /\ running
        /\ inductions' = NewInductions("RUNNING", cfg.inductionCount)
        /\ inductionTimers' = WithTimers(NoTimers, inductions')
        /\ ClearPendingTimers
        /\ reported' = [sorter |-> "RUNNING",
                        ind |-> [i \in InductionNos |-> IF i \in DOMAIN inductions'
                                                        THEN "RUNNING" ELSE stopped.ind[i]]]
     \/ /\ rebuild /\ ~running
        /\ inductions' = NewInductions("STOPPED", cfg.inductionCount)
        /\ PendingTimersKept
        /\ UNCHANGED <<inductionTimers, reported>>
     \/ /\ ~rebuild
        /\ inductionTimers' = IF partial.newInterval /\ running
                              THEN WithTimers(NoTimers, inductions) ELSE inductionTimers
        /\ PendingTimersKept
        /\ UNCHANGED <<inductions, reported>>
  /\ chutes' = IF rebuild THEN NewChutes(cfg.chuteCount) ELSE chutes
  /\ UNCHANGED <<sorterStatus, itemStatus, destination, countVars>>

\* setInductionControl(): an unknown number changes nothing (reason 1).  Neither
\* the sorter's status nor a FAULT of the induction is looked at.
SetInductionControl(i, status) ==
  /\ i \in DOMAIN inductions
  /\ inductions' = [inductions EXCEPT ![i].status = status]
  /\ reported' = [reported EXCEPT !.ind[i] = status]
  /\ UNCHANGED <<config, sorterStatus, chutes, inductionTimers, parcelVars, countVars>>

\* setResetRequest() (telegram 140): clears faults, leaves armed timers alone.
SetResetRequest ==
  /\ inductions' = JamsCleared
  /\ sorterStatus' = IF sorterStatus = "EMERGENCY" THEN "STOPPED" ELSE sorterStatus
  /\ reported' = Report(sorterStatus', inductions')
  /\ UNCHANGED <<config, chutes, inductionTimers, parcelVars, countVars>>
-----------------------------------------------------------------------------
(***************************************************************************)
(* Fault injection.                                                        *)
(***************************************************************************)

\* triggerFault('MOTOR_TRIP'), from any status.  Parcels in flight go on.
MotorTrip ==
  /\ CountError
  /\ sorterStatus' = "EMERGENCY"
  /\ inductionTimers' = NoTimers
  /\ reported' = [reported EXCEPT !.sorter = "EMERGENCY"]
  /\ UNCHANGED <<config, inductions, chutes, parcelVars, cellCounter, stray>>

\* triggerFault('JAM', i): counted even if there is no such induction.
Jam(i) ==
  /\ CountError
  /\ inductions' = [j \in DOMAIN inductions |->
                      [inductions[j] EXCEPT !.status = IF j = i THEN "FAULT" ELSE @]]
  /\ reported' = IF i \in DOMAIN inductions THEN [reported EXCEPT !.ind[i] = "FAULT"] ELSE reported
  /\ UNCHANGED <<config, sorterStatus, chutes, inductionTimers, parcelVars, cellCounter, stray>>

\* triggerFault('OVERFLOW', c): an undefined threshold leaves the count undefined.
OverflowFault(c) ==
  /\ CountError
  /\ chutes' = [d \in DOMAIN chutes |->
                  IF d = c THEN [itemCount |-> IF config.overflowThreshold = Undefined
                                               THEN NaN ELSE config.overflowThreshold,
                                 overflow  |-> TRUE]
                           ELSE chutes[d]]
  /\ UNCHANGED <<config, sorterStatus, inductions, inductionTimers, reported,
                 parcelVars, cellCounter, stray>>

\* clearFault(type), or of all types.  OVERFLOW lowers the flags and keeps the counts.
ClearFault(types) ==
  LET tripped == "MOTOR_TRIP" \in types /\ sorterStatus = "EMERGENCY" IN
  /\ sorterStatus' = IF tripped THEN "STOPPED" ELSE sorterStatus
  /\ inductions' = IF "JAM" \in types THEN JamsCleared ELSE inductions
  /\ chutes' = IF "OVERFLOW" \in types
               THEN [c \in DOMAIN chutes |-> [chutes[c] EXCEPT !.overflow = FALSE]]
               ELSE chutes
  /\ reported' = [sorter |-> IF tripped THEN "STOPPED" ELSE reported.sorter,
                  ind |-> [i \in InductionNos |->
                             IF i \in DOMAIN inductions /\ inductions'[i] # inductions[i]
                             THEN inductions'[i].status ELSE reported.ind[i]]]
  /\ UNCHANGED <<config, inductionTimers, parcelVars, countVars>>
-----------------------------------------------------------------------------
(***************************************************************************)
(* Timer callbacks.                                                        *)
(***************************************************************************)

\* pickDestination(): an undefined chute count yields NaN, which names no chute.
Destinations == IF config.chuteCount = Undefined THEN {0} ELSE 1..config.chuteCount

\* A tick of induction i's interval and the inductItem() it calls (T20).
InductItem(i, p, dest) ==
  /\ totals.inducted < MaxInducted                              \* bound
  /\ p \notin items \cup InFlight                               \* a new object
  /\ inductionTimers[i] > 0
  /\ sorterStatus = "RUNNING"
  /\ i \in DOMAIN inductions
  /\ inductions[i].status = "RUNNING"
  /\ dest \in Destinations
  /\ cellCounter' = NextCell
  /\ items' = items \cup {p}
  /\ itemStatus' = [itemStatus EXCEPT ![p] = "IN_TRANSIT"]
  /\ destination' = [destination EXCEPT ![p] = dest]
  /\ inductions' = [inductions EXCEPT ![i].itemCount = @ + 1]
  /\ totals' = [totals EXCEPT !.inducted = @ + 1]
  /\ dischargeTimers' = dischargeTimers \cup {p}
  /\ UNCHANGED <<config, sorterStatus, chutes, inductionTimers, confirmTimers,
                 dropped, reported, stray>>

\* A faulty variant of DischargeItem, for the same use as those above: no confirm
\* timeout for a parcel that goes to no chute.
DischargeItemForgetsNoReads(p, outcome) ==
  /\ p \in dischargeTimers
  /\ itemStatus[p] = "IN_TRANSIT"
  /\ itemStatus' = [itemStatus EXCEPT ![p] = "DISCHARGED"]
  /\ totals' = [totals EXCEPT !.discharged = @ + 1,
                              !.noRead = @ + (IF outcome = "NO_READ" THEN 1 ELSE 0),
                              !.recirculated = @ + (IF outcome = "RECIRCULATION" THEN 1 ELSE 0)]
  /\ stray' = [stray EXCEPT !.discharged = @ + (IF p \in items THEN 0 ELSE 1)]
  /\ chutes' = [c \in DOMAIN chutes |->
                  IF c = destination[p] /\ outcome # "NO_READ" THEN DroppedIn(chutes[c])
                                                              ELSE chutes[c]]
  /\ dischargeTimers' = dischargeTimers \ {p}
  /\ confirmTimers' = IF outcome = "NO_READ" THEN confirmTimers ELSE confirmTimers \cup {p}
  /\ UNCHANGED <<config, sorterStatus, inductions, inductionTimers, reported,
                 items, destination, dropped, cellCounter>>

\* dischargeItem() (T21).  A no-read goes to chute 0; a recirculated parcel is
\* still counted in its chute.  Chutes removed meanwhile are skipped.
DischargeItem(p, outcome) ==
  /\ p \in dischargeTimers
  /\ itemStatus[p] = "IN_TRANSIT"
  /\ itemStatus' = [itemStatus EXCEPT ![p] = "DISCHARGED"]
  /\ totals' = [totals EXCEPT !.discharged = @ + 1,
                              !.noRead = @ + (IF outcome = "NO_READ" THEN 1 ELSE 0),
                              !.recirculated = @ + (IF outcome = "RECIRCULATION" THEN 1 ELSE 0)]
  /\ stray' = [stray EXCEPT !.discharged = @ + (IF p \in items THEN 0 ELSE 1)]
  /\ chutes' = [c \in DOMAIN chutes |->
                  IF c = destination[p] /\ outcome # "NO_READ" THEN DroppedIn(chutes[c])
                                                              ELSE chutes[c]]
  /\ dischargeTimers' = dischargeTimers \ {p}
  /\ confirmTimers' = confirmTimers \cup {p}
  /\ UNCHANGED <<config, sorterStatus, inductions, inductionTimers, reported,
                 items, destination, dropped, cellCounter>>

\* confirmItem() (T22): the parcel leaves the list of active items.
ConfirmItem(p) ==
  /\ p \in confirmTimers
  /\ itemStatus[p] = "DISCHARGED"
  /\ itemStatus' = [itemStatus EXCEPT ![p] = "CONFIRMED"]
  /\ totals' = [totals EXCEPT !.confirmed = @ + 1]
  /\ stray' = [stray EXCEPT !.confirmed = @ + (IF p \in items THEN 0 ELSE 1)]
  /\ items' = items \ {p}
  /\ confirmTimers' = confirmTimers \ {p}
  /\ UNCHANGED <<lineVars, destination, dischargeTimers, dropped, cellCounter>>
-----------------------------------------------------------------------------
Command ==
  \/ Start
  \/ Stop
  \/ Reset
  \/ \E partial \in Updates : UpdateConfig(partial)
  \/ \E i \in InductionNos, status \in {"RUNNING", "STOPPED"} : SetInductionControl(i, status)
  \/ SetResetRequest

Fault ==
  \/ MotorTrip
  \/ \E i \in 0..MaxInductions : Jam(i)
  \/ \E c \in 1..MaxChutes : OverflowFault(c)
  \/ \E types \in {{t} : t \in FaultTypes} \cup {FaultTypes} : ClearFault(types)

Timer ==
  \/ \E i \in InductionNos, p \in Parcels, dest \in 0..MaxChutes : InductItem(i, p, dest)
  \/ \E p \in Parcels, outcome \in Outcomes : DischargeItem(p, outcome)
  \/ \E p \in Parcels : ConfirmItem(p)

Next == Command \/ Fault \/ Timer

Spec == Init /\ [][Next]_vars

\* Node's event loop runs every armed timeout callback that is not cancelled.
TimerFairness ==
  \A p \in Parcels : /\ WF_vars(\E outcome \in Outcomes : DischargeItem(p, outcome))
                     /\ WF_vars(ConfirmItem(p))

FairSpec == Spec /\ TimerFairness
-----------------------------------------------------------------------------
(***************************************************************************)
(* Properties.                                                             *)
(***************************************************************************)

TypeOK ==
  /\ config \in Configs
  /\ sorterStatus \in SorterStatuses
  /\ totals \in Totals
  /\ \E n \in 0..MaxInductions : inductions \in [1..n -> Induction]
  /\ \E n \in 0..MaxChutes : chutes \in [1..n -> Chute]
  /\ items \subseteq Parcels
  /\ itemStatus \in [Parcels -> ItemStatuses]
  /\ destination \in [Parcels -> 0..MaxChutes]
  /\ cellCounter \in 0..MaxCell
  /\ inductionTimers \in [InductionNos -> Nat]
  /\ dischargeTimers \subseteq Parcels
  /\ confirmTimers \subseteq Parcels
  /\ dropped \subseteq Parcels
  /\ reported \in SmcView
  /\ stray \in Strays

\* However start, stop, reset, faults, fault clearing and reconfiguration are
\* mixed, a running line has exactly one interval for each induction it has (which
\* a PATCH that wipes inductionCount may leave at none), and any other line has
\* none: no induction ticks twice, no interval outlives its induction.
TimersFollowStatus ==
  \A i \in InductionNos :
    inductionTimers[i] = IF sorterStatus = "RUNNING" /\ i \in DOMAIN inductions THEN 1 ELSE 0

\* An armed timeout finds its parcel in the stage it expects, so the early returns
\* of dischargeItem() and confirmItem() never lose a parcel; and a listed parcel
\* has the timeout its stage calls for, unless a stop cleared it: then it has none
\* and never gets one again.
TimersMatchStages ==
  /\ \A p \in dischargeTimers : itemStatus[p] = "IN_TRANSIT"
  /\ \A p \in confirmTimers : itemStatus[p] = "DISCHARGED"
  /\ \A p \in items : itemStatus[p] \in {"IN_TRANSIT", "DISCHARGED"}
  /\ \A p \in items \ dropped :
       p \in IF itemStatus[p] = "IN_TRANSIT" THEN dischargeTimers ELSE confirmTimers
  /\ dropped \subseteq items
  /\ dropped \cap InFlight = {}

ItemsIn(status) == {p \in items : itemStatus[p] = status}

\* Every parcel inducted since the last reset is listed or confirmed, and every
\* discharged one is listed as such or confirmed, once the events of parcels from
\* before the reset are set apart: no order of commands loses or doubles a count.
ExactAccounting ==
  /\ totals.inducted + stray.confirmed = Cardinality(items) + totals.confirmed
  /\ totals.discharged + stray.confirmed =
       stray.discharged + Cardinality(ItemsIn("DISCHARGED")) + totals.confirmed
  /\ totals.noRead + totals.recirculated <= totals.discharged

\* The status telegrams keep the SMC's view true: of the sorter always, of each
\* induction whenever the line runs.
SmcViewAccurate ==
  /\ reported.sorter = sorterStatus
  /\ sorterStatus = "RUNNING" =>
       \A i \in DOMAIN inductions : reported.ind[i] = inductions[i].status

\* An overflow flag is only up on a chute that holds at least the smallest
\* threshold ever configured, or whose count a fault under an undefined threshold
\* made unreadable; and as long as a threshold is configured, a chute that receives
\* a parcel at or past it has its flag up, also when clearFault lowered it while it
\* was full.
OverflowFlagTruthful ==
  /\ [](\A c \in DOMAIN chutes :
          chutes[c].overflow => \/ chutes[c].itemCount = NaN
                                \/ \E t \in Thresholds : t <= chutes[c].itemCount)
  /\ [][\A c \in DOMAIN chutes \cap DOMAIN chutes' :
          (/\ chutes'[c].itemCount > chutes[c].itemCount
           /\ config.overflowThreshold # Undefined
           /\ chutes'[c].itemCount >= config.overflowThreshold) => chutes'[c].overflow]_vars

\* The line as the SMC sees it through T20, T21 and T22.
ParcelPhase == [p \in Parcels |-> IF p \in dischargeTimers THEN "inTransit"
                                  ELSE IF p \in confirmTimers THEN "discharged"
                                  ELSE "absent"]

PP == INSTANCE ParcelProtocol WITH line <- sorterStatus, phase <- ParcelPhase

\* Every parcel goes through T20, T21, T22 in this order, enters only a running
\* line, and otherwise disappears only with all others at once.
FollowsProtocol == PP!Spec

\* On the line: with a timeout armed, or listed and not dropped by a stop.
OnLine(p) == p \in InFlight \/ p \in items \ dropped

\* Every parcel on the line gets off it: it is confirmed and leaves the list, or a
\* stop drops it, also when the line trips or a fault is cleared meanwhile.  No
\* handler leaves a listed parcel waiting for a timeout it did not arm.
EveryParcelLeaves == \A p \in Parcels : OnLine(p) ~> ~OnLine(p)

\* Test "reset() must initialise all statistics and state": until the next
\* induction the statistics stay zero.
ResetStatisticsStay ==
  totals.inducted = 0 => totals.discharged = 0 /\ totals.confirmed = 0
=============================================================================
