------------------------- MODULE SorterEngineProofs -------------------------
(***************************************************************************)
(* Theorems about SorterEngine for every pool of parcels, every bound and  *)
(* every set of thresholds.                                                *)
(***************************************************************************)
EXTENDS SorterEngine, FiniteSetTheorems, TLAPS

(***************************************************************************)
(* Type correctness.                                                       *)
(***************************************************************************)

\* Clearing jams keeps the inductions well typed.
LEMMA JamsClearedType ==
  ASSUME NEW n \in Nat, inductions \in [1..n -> Induction]
  PROVE  JamsCleared \in [1..n -> Induction]
BY DEF JamsCleared, Induction, InductionStatuses

\* So does giving all of them one status.
LEMMA WithStatusType ==
  ASSUME NEW n \in Nat, inductions \in [1..n -> Induction], NEW status \in InductionStatuses
  PROVE  WithStatus(status) \in [1..n -> Induction]
BY DEF WithStatus, Induction

\* A report built from well-typed inductions is well typed.
LEMMA ReportType ==
  ASSUME TypeOK, NEW status \in SorterStatuses,
         NEW n \in Nat, NEW inds \in [1..n -> Induction]
  PROVE  Report(status, inds) \in SmcView
BY DEF TypeOK, Report, Induction, SmcView

\* Timer counts stay natural numbers.
LEMMA WithTimersType ==
  ASSUME NEW timers \in [InductionNos -> Nat], NEW inds
  PROVE  WithTimers(timers, inds) \in [InductionNos -> Nat]
BY EngineAssumption DEF WithTimers, InductionNos

\* initializeState() makes well-typed inductions and chutes.
LEMMA FreshTypes ==
  /\ \A status \in InductionStatuses, n \in 0..MaxInductions :
       NewInductions(status, n) \in [1..n -> Induction]
  /\ \A n \in 0..MaxChutes : NewChutes(n) \in [1..n -> Chute]
BY EngineAssumption DEF NewInductions, NewChutes, Induction, Chute

\* Configured counts, undefined ones too, stay within their bounds.
LEMMA ConfigRanges ==
  ASSUME NEW c \in Configs
  PROVE  /\ c.inductionCount \in 0..MaxInductions /\ c.chuteCount \in 0..MaxChutes
         /\ c.overflowThreshold \in Nat
         /\ c.overflowThreshold # Undefined => c.overflowThreshold \in Thresholds
<1>1. /\ c.inductionCount \in 1..MaxInductions \cup {Undefined}
      /\ c.chuteCount \in 1..MaxChutes \cup {Undefined}
      /\ c.overflowThreshold \in Thresholds \cup {Undefined}
  BY DEF Configs
<1>2. MaxInductions \in Nat /\ MaxChutes \in Nat /\ Thresholds \subseteq Nat
  BY EngineAssumption
<1>3. c.inductionCount \in 0..MaxInductions /\ c.chuteCount \in 0..MaxChutes
  BY <1>1, <1>2 DEF Undefined
<1>4. c.overflowThreshold \in Nat
  <2>1. c.overflowThreshold \in Thresholds \/ c.overflowThreshold = 0
    BY <1>1 DEF Undefined
  <2>2. \A t \in Thresholds : t \in Nat
    BY <1>2
  <2>3. CASE c.overflowThreshold \in Thresholds
    BY <2>2, <2>3
  <2>4. CASE c.overflowThreshold = 0
    BY <2>4
  <2>5. QED BY <2>1, <2>3, <2>4
<1>5. c.overflowThreshold # Undefined => c.overflowThreshold \in Thresholds
  BY <1>1
<1>6. QED BY <1>3, <1>4, <1>5

\* Assigning a partial configuration gives a configuration.
LEMMA AssignedType ==
  ASSUME TypeOK, NEW partial \in Updates, UpdateConfig(partial)
  PROVE  config' \in Configs
<1>1. partial \in Partials /\ config \in Configs
  BY EngineAssumption DEF TypeOK
<1>2. QED BY <1>1 DEF UpdateConfig, Partials, Configs

\* Adding to the counters keeps them well typed.
LEMMA CountType ==
  ASSUME TypeOK, NEW a \in 0..1, NEW b \in 0..1
  PROVE  /\ [totals EXCEPT !.inducted = @ + 1] \in Totals
         /\ [totals EXCEPT !.errors = @ + 1] \in Totals
         /\ [totals EXCEPT !.confirmed = @ + 1] \in Totals
         /\ [totals EXCEPT !.discharged = @ + 1, !.noRead = @ + a, !.recirculated = @ + b] \in Totals
<1>1. totals \in Totals
  BY DEF TypeOK
<1>2. [totals EXCEPT !.inducted = @ + 1] \in Totals
  BY <1>1 DEF Totals
<1>3. [totals EXCEPT !.errors = @ + 1] \in Totals
  BY <1>1 DEF Totals
<1>4. [totals EXCEPT !.confirmed = @ + 1] \in Totals
  BY <1>1 DEF Totals
<1>5. [totals EXCEPT !.discharged = @ + 1, !.noRead = @ + a, !.recirculated = @ + b] \in Totals
  <2>1. /\ totals.discharged + 1 \in Nat
        /\ totals.noRead + a \in Nat
        /\ totals.recirculated + b \in Nat
    BY <1>1 DEF Totals
  <2>2. QED BY <1>1, <2>1 DEF Totals
<1>6. QED BY <1>2, <1>3, <1>4, <1>5

\* The initial state is well typed.
LEMMA TypeInit == Init => TypeOK
<1> SUFFICES ASSUME Init PROVE TypeOK
  OBVIOUS
<1>1. DefaultConfig \in Configs
  BY EngineAssumption
<1>2. /\ DefaultConfig.inductionCount \in 0..MaxInductions
      /\ DefaultConfig.chuteCount \in 0..MaxChutes
  BY <1>1, ConfigRanges
<1>3. \E n \in 0..MaxInductions : inductions \in [1..n -> Induction]
  BY <1>2, FreshTypes DEF Init, InductionStatuses
<1>4. \E n \in 0..MaxChutes : chutes \in [1..n -> Chute]
  BY <1>2, FreshTypes DEF Init
<1>5. /\ config \in Configs /\ sorterStatus \in SorterStatuses /\ totals \in Totals
      /\ stray \in Strays /\ cellCounter \in 0..MaxCell /\ reported \in SmcView
      /\ inductionTimers \in [InductionNos -> Nat]
  BY <1>1, EngineAssumption DEF Init, SorterStatuses, InductionStatuses, Totals, ZeroTotals, Strays,
     NoStray, SmcView, NoTimers
<1>6. /\ items \subseteq Parcels /\ dischargeTimers \subseteq Parcels
      /\ confirmTimers \subseteq Parcels /\ dropped \subseteq Parcels
      /\ itemStatus \in [Parcels -> ItemStatuses] /\ destination \in [Parcels -> 0..MaxChutes]
  BY EngineAssumption DEF Init, ItemStatuses
<1>7. QED BY <1>3, <1>4, <1>5, <1>6 DEF TypeOK

\* Every step keeps the state well typed.
LEMMA TypeNext == TypeOK /\ [Next]_vars => TypeOK'
<1> SUFFICES ASSUME TypeOK, [Next]_vars PROVE TypeOK'
  OBVIOUS
<1> USE EngineAssumption
<1>a. PICK nI \in 0..MaxInductions : inductions \in [1..nI -> Induction]
  BY DEF TypeOK
<1>b. PICK nC \in 0..MaxChutes : chutes \in [1..nC -> Chute]
  BY DEF TypeOK
<1>c. /\ nI \in Nat /\ nC \in Nat
      /\ config \in Configs
      /\ config.overflowThreshold \in Nat
      /\ config.inductionCount \in 0..MaxInductions
      /\ config.chuteCount \in 0..MaxChutes
  <2>1. config \in Configs
    BY DEF TypeOK
  <2>2. QED BY <2>1, ConfigRanges
<1>d. /\ {"STOPPED", "RUNNING", "EMERGENCY"} \subseteq SorterStatuses
      /\ {"STOPPED", "RUNNING", "FAULT"} \subseteq InductionStatuses
      /\ NoTimers \in [InductionNos -> Nat]
  BY DEF SorterStatuses, InductionStatuses, NoTimers
<1>e. Report("STOPPED", WithStatus("STOPPED")) \in SmcView
  BY <1>a, <1>c, <1>d, WithStatusType, ReportType
<1>1. CASE Start
  <2>1. inductions' \in [1..nI -> Induction]
    BY <1>1, <1>a, <1>c, <1>d, WithStatusType DEF Start
  <2>2. reported' \in SmcView
    BY <1>1, <1>c, <1>d, <2>1, ReportType DEF Start
  <2>3. inductionTimers' \in [InductionNos -> Nat]
    BY <1>1, WithTimersType DEF Start, TypeOK
  <2>4. QED
    BY <1>1, <1>d, <2>1, <2>2, <2>3 DEF Start, TypeOK, parcelVars, countVars
<1>2. CASE Stop
  <2>1. inductions' \in [1..nI -> Induction]
    BY <1>2, <1>a, <1>c, <1>d, WithStatusType DEF Stop
  <2>2. reported' \in SmcView
    BY <1>2, <1>c, <1>d, <2>1, ReportType DEF Stop
  <2>3. QED
    BY <1>2, <1>d, <2>1, <2>2 DEF Stop, ClearPendingTimers, TypeOK, countVars
<1>3. CASE Reset
  <2>1. reported' \in SmcView
    BY <1>3, <1>e DEF Reset, TypeOK
  <2>2. inductions' \in [1..config.inductionCount -> Induction]
    BY <1>3, <1>c, <1>d, FreshTypes DEF Reset
  <2>3. chutes' \in [1..config.chuteCount -> Chute]
    BY <1>3, <1>c, FreshTypes DEF Reset
  <2>4. totals' \in Totals /\ stray' \in Strays /\ cellCounter' \in 0..MaxCell
    BY <1>3 DEF Reset, Totals, ZeroTotals, NoStray, Strays
  <2>5. /\ inductionTimers' \in [InductionNos -> Nat]
        /\ dischargeTimers' \subseteq Parcels
        /\ confirmTimers' \subseteq Parcels
        /\ dropped' \subseteq Parcels
    BY <1>3, <1>d DEF Reset, ClearPendingTimers, TypeOK
  <2>6. /\ config' \in Configs /\ sorterStatus' \in SorterStatuses /\ items' \subseteq Parcels
        /\ itemStatus' \in [Parcels -> ItemStatuses] /\ destination' \in [Parcels -> 0..MaxChutes]
    BY <1>3, <1>d DEF Reset, TypeOK
  <2>7. QED
    BY <1>c, <2>1, <2>2, <2>3, <2>4, <2>5, <2>6 DEF TypeOK
<1>4. ASSUME NEW partial \in Updates, UpdateConfig(partial)
      PROVE TypeOK'
  <2>1. config' \in Configs
    BY <1>4, AssignedType
  <2>a. config'.inductionCount \in 0..MaxInductions /\ config'.chuteCount \in 0..MaxChutes
    BY <2>1, ConfigRanges
  <2>2. \E n \in 0..MaxInductions : inductions' \in [1..n -> Induction]
    <3>1. \/ inductions' = inductions
          \/ \E status \in {"RUNNING", "STOPPED"} :
               inductions' = NewInductions(status, config'.inductionCount)
      BY <1>4 DEF UpdateConfig
    <3>2. \A status \in {"RUNNING", "STOPPED"} :
            NewInductions(status, config'.inductionCount)
              \in [1..config'.inductionCount -> Induction]
      BY <2>a, <1>d, FreshTypes
    <3>3. QED BY <3>1, <3>2, <2>a, <1>a
  <2>3. \E n \in 0..MaxChutes : chutes' \in [1..n -> Chute]
    <3>1. chutes' = chutes \/ chutes' = NewChutes(config'.chuteCount)
      BY <1>4 DEF UpdateConfig
    <3>2. QED BY <3>1, <2>a, <1>b, FreshTypes
  <2>4. inductionTimers' \in [InductionNos -> Nat]
    <3>1. \A inds : WithTimers(NoTimers, inds) \in [InductionNos -> Nat]
      BY <1>d, WithTimersType
    <3>2. QED BY <1>4, <3>1 DEF UpdateConfig, TypeOK
  <2>5. reported' \in SmcView
    <3>1. \A i \in InductionNos : Report("STOPPED", WithStatus("STOPPED")).ind[i] \in InductionStatuses
      BY <1>e DEF SmcView
    <3>2. CASE reported' = reported
      BY <3>2 DEF TypeOK
    <3>3. CASE reported' # reported
      BY <1>4, <1>d, <3>1, <3>3 DEF UpdateConfig, SmcView
    <3>4. QED BY <3>2, <3>3
  <2>6. /\ items' \subseteq Parcels /\ dischargeTimers' \subseteq Parcels
        /\ confirmTimers' \subseteq Parcels /\ dropped' \subseteq Parcels
    BY <1>4 DEF UpdateConfig, ClearPendingTimers, PendingTimersKept, TypeOK
  <2>7. UNCHANGED <<sorterStatus, itemStatus, destination, totals, cellCounter, stray>>
    BY <1>4 DEF UpdateConfig, countVars
  <2>8. QED
    BY <2>1, <2>2, <2>3, <2>4, <2>5, <2>6, <2>7 DEF TypeOK
<1>5. ASSUME NEW i \in InductionNos, NEW status \in {"RUNNING", "STOPPED"},
             SetInductionControl(i, status)
      PROVE TypeOK'
  <2>1. inductions' \in [1..nI -> Induction]
    BY <1>5, <1>a, <1>d DEF SetInductionControl, Induction
  <2>2. reported' \in SmcView
    BY <1>5, <1>d DEF SetInductionControl, TypeOK, SmcView
  <2>3. QED BY <1>5, <2>1, <2>2 DEF SetInductionControl, TypeOK, parcelVars, countVars
<1>6. CASE SetResetRequest
  <2>1. inductions' \in [1..nI -> Induction]
    BY <1>6, <1>a, <1>c, JamsClearedType DEF SetResetRequest
  <2>2. sorterStatus' \in SorterStatuses
    BY <1>6, <1>d DEF SetResetRequest, TypeOK
  <2>3. reported' \in SmcView
    BY <1>6, <1>c, <2>1, <2>2, ReportType DEF SetResetRequest
  <2>4. QED
    BY <1>6, <2>1, <2>2, <2>3 DEF SetResetRequest, TypeOK, parcelVars, countVars
<1>7. CASE MotorTrip
  <2>1. totals' \in Totals
    BY <1>7, CountType DEF MotorTrip, CountError
  <2>2. reported' \in SmcView
    BY <1>7, <1>d DEF MotorTrip, TypeOK, SmcView
  <2>3. QED BY <1>7, <1>d, <2>1, <2>2 DEF MotorTrip, TypeOK, parcelVars
<1>8. ASSUME NEW i \in 0..MaxInductions, Jam(i) PROVE TypeOK'
  <2>1. inductions' \in [1..nI -> Induction]
    BY <1>8, <1>a DEF Jam, Induction, InductionStatuses
  <2>2. reported' \in SmcView
    <3>1. DOMAIN inductions \subseteq InductionNos
      BY <1>a DEF InductionNos
    <3>2. QED BY <1>8, <1>d, <3>1 DEF Jam, TypeOK, SmcView
  <2>3. totals' \in Totals
    BY <1>8, CountType DEF Jam, CountError
  <2>4. QED BY <1>8, <2>1, <2>2, <2>3 DEF Jam, TypeOK, parcelVars
<1>9. ASSUME NEW c \in 1..MaxChutes, OverflowFault(c) PROVE TypeOK'
  <2>1. chutes' \in [1..nC -> Chute]
    BY <1>9, <1>b, <1>c DEF OverflowFault, Chute
  <2>2. totals' \in Totals
    BY <1>9, CountType DEF OverflowFault, CountError
  <2>3. QED BY <1>9, <2>1, <2>2 DEF OverflowFault, TypeOK, parcelVars
<1>10. ASSUME NEW types \in {{t} : t \in FaultTypes} \cup {FaultTypes}, ClearFault(types)
       PROVE TypeOK'
  <2>1. inductions' \in [1..nI -> Induction]
    BY <1>10, <1>a, <1>c, JamsClearedType DEF ClearFault
  <2>2. chutes' \in [1..nC -> Chute]
    BY <1>10, <1>b DEF ClearFault, Chute
  <2>3. sorterStatus' \in SorterStatuses
    BY <1>10, <1>d DEF ClearFault, TypeOK
  <2>4. reported' \in SmcView
    <3>1. \A i \in DOMAIN inductions : inductions'[i].status \in InductionStatuses
      BY <1>a, <2>1 DEF Induction
    <3>2. QED BY <1>10, <1>d, <3>1 DEF ClearFault, TypeOK, SmcView
  <2>5. QED BY <1>10, <2>1, <2>2, <2>3, <2>4 DEF ClearFault, TypeOK, parcelVars, countVars
<1>11. ASSUME NEW i \in InductionNos, NEW p \in Parcels, NEW dest \in 0..MaxChutes,
              InductItem(i, p, dest)
       PROVE TypeOK'
  <2>1. inductions' \in [1..nI -> Induction]
    BY <1>11, <1>a DEF InductItem, Induction
  <2>2. cellCounter' \in 0..MaxCell
    BY <1>11 DEF InductItem, NextCell, TypeOK
  <2>3. totals' \in Totals
    BY <1>11, CountType DEF InductItem
  <2>4. QED BY <1>11, <2>1, <2>2, <2>3 DEF InductItem, TypeOK, ItemStatuses
<1>12. ASSUME NEW p \in Parcels, NEW outcome \in Outcomes, DischargeItem(p, outcome)
       PROVE TypeOK'
  <2>1. totals' \in Totals
    <3>1. /\ (IF outcome = "NO_READ" THEN 1 ELSE 0) \in 0..1
          /\ (IF outcome = "RECIRCULATION" THEN 1 ELSE 0) \in 0..1
      OBVIOUS
    <3>2. QED BY <1>12, <3>1, CountType DEF DischargeItem
  <2>2. stray' \in Strays
    BY <1>12 DEF DischargeItem, TypeOK, Strays
  <2>3. chutes' \in [1..nC -> Chute]
    <3>1. \A c \in 1..nC : DroppedIn(chutes[c]) \in Chute
      BY <1>b DEF DroppedIn, Chute
    <3>2. QED BY <1>12, <1>b, <3>1 DEF DischargeItem
  <2>4. QED BY <1>12, <2>1, <2>2, <2>3 DEF DischargeItem, TypeOK, ItemStatuses
<1>13. ASSUME NEW p \in Parcels, ConfirmItem(p) PROVE TypeOK'
  <2>1. totals' \in Totals
    BY <1>13, CountType DEF ConfirmItem
  <2>2. stray' \in Strays
    <3>1. stray \in Strays BY DEF TypeOK
    <3>2. QED BY <1>13, <3>1 DEF ConfirmItem, Strays
  <2>3. QED BY <1>13, <2>1, <2>2 DEF ConfirmItem, TypeOK, ItemStatuses, lineVars
<1>14. CASE UNCHANGED vars
  BY <1>14 DEF vars, lineVars, parcelVars, countVars, TypeOK
<1>15. QED
  BY <1>1, <1>2, <1>3, <1>4, <1>5, <1>6, <1>7, <1>8, <1>9, <1>10, <1>11, <1>12, <1>13, <1>14
     DEF Next, Command, Fault, Timer

\* Every reachable state of the engine is well typed, whichever settings a PATCH
\* leaves undefined: the cell counter never leaves 0..MaxCell, inductions and
\* chutes are numbered without a gap and stay within their bounds.
THEOREM TypeCorrect == Spec => []TypeOK
BY TypeInit, TypeNext, PTL DEF Spec

(***************************************************************************)
(* One interval per induction of a running line.                           *)
(***************************************************************************)

\* startInductionTimers() on a line without intervals yields one per induction.
LEMMA FreshTimers ==
  ASSUME NEW inds, NEW i \in InductionNos
  PROVE  WithTimers(NoTimers, inds)[i] = IF i \in DOMAIN inds THEN 1 ELSE 0
BY EngineAssumption DEF WithTimers, NoTimers, InductionNos

\* The intervals are right before the first command.
LEMMA TimersInit == Init => TimersFollowStatus
BY DEF Init, TimersFollowStatus, NoTimers

\* A step that keeps the line's status, its inductions' numbers and its intervals
\* keeps them right.
LEMMA TimersKept ==
  ASSUME TimersFollowStatus, UNCHANGED <<sorterStatus, inductionTimers>>,
         DOMAIN inductions' = DOMAIN inductions
  PROVE  TimersFollowStatus'
BY DEF TimersFollowStatus

\* Without intervals they are right on a line that does not run.
LEMMA TimersCleared ==
  ASSUME inductionTimers' = NoTimers, sorterStatus' # "RUNNING"
  PROVE  TimersFollowStatus'
BY DEF TimersFollowStatus, NoTimers

\* No step doubles, forgets or leaves behind an interval.
LEMMA TimersNext == TypeOK /\ TimersFollowStatus /\ [Next]_vars => TimersFollowStatus'
<1> SUFFICES ASSUME TypeOK, TimersFollowStatus, [Next]_vars PROVE TimersFollowStatus'
  OBVIOUS
<1>a. \A i \in InductionNos : inductionTimers[i] =
        IF sorterStatus = "RUNNING" /\ i \in DOMAIN inductions THEN 1 ELSE 0
  BY DEF TimersFollowStatus
<1>b. \A i \in InductionNos : sorterStatus # "RUNNING" => inductionTimers[i] = 0
  BY <1>a
<1>1. CASE Start
  <2>1. /\ DOMAIN inductions' = DOMAIN inductions /\ sorterStatus' = "RUNNING"
        /\ sorterStatus # "RUNNING"
        /\ inductionTimers' = WithTimers(inductionTimers, inductions)
    BY <1>1 DEF Start, WithStatus
  <2>2. \A i \in InductionNos : inductionTimers'[i] = IF i \in DOMAIN inductions THEN 1 ELSE 0
    BY <2>1, <1>b DEF WithTimers
  <2>3. QED BY <2>1, <2>2 DEF TimersFollowStatus
<1>2. CASE Stop
  BY <1>2, TimersCleared DEF Stop
<1>3. CASE Reset
  <2>1. sorterStatus' = "STOPPED"
    BY <1>3 DEF Reset
  <2>2. CASE inductionTimers' = NoTimers
    BY <2>1, <2>2, TimersCleared
  <2>3. CASE sorterStatus = "STOPPED" /\ UNCHANGED inductionTimers
    BY <2>1, <2>3, <1>b DEF TimersFollowStatus
  <2>4. QED BY <1>3, <2>2, <2>3 DEF Reset
<1>4. ASSUME NEW partial \in Updates, UpdateConfig(partial)
      PROVE TimersFollowStatus'
  <2>1. sorterStatus' = sorterStatus
    BY <1>4 DEF UpdateConfig
  <2>2. CASE inductionTimers' = WithTimers(NoTimers, inductions') /\ sorterStatus = "RUNNING"
    BY <2>1, <2>2, FreshTimers DEF TimersFollowStatus
  <2>3. CASE UNCHANGED inductionTimers /\ sorterStatus # "RUNNING"
    BY <2>1, <2>3, <1>b DEF TimersFollowStatus
  <2>4. CASE UNCHANGED <<inductionTimers, inductions>>
    BY <2>1, <2>4, TimersKept
  <2>5. QED BY <1>4, <2>2, <2>3, <2>4 DEF UpdateConfig
<1>5. CASE SetResetRequest
  <2>1. /\ DOMAIN inductions' = DOMAIN inductions /\ UNCHANGED inductionTimers
        /\ \/ sorterStatus' = sorterStatus
           \/ sorterStatus # "RUNNING" /\ sorterStatus' # "RUNNING"
    BY <1>5 DEF SetResetRequest, JamsCleared
  <2>2. QED BY <2>1, <1>b, TimersKept DEF TimersFollowStatus
<1>6. CASE MotorTrip
  BY <1>6, TimersCleared DEF MotorTrip
<1>7. ASSUME NEW types, ClearFault(types) PROVE TimersFollowStatus'
  <2>1. /\ DOMAIN inductions' = DOMAIN inductions /\ UNCHANGED inductionTimers
        /\ \/ sorterStatus' = sorterStatus
           \/ sorterStatus # "RUNNING" /\ sorterStatus' # "RUNNING"
    BY <1>7 DEF ClearFault, JamsCleared
  <2>2. QED BY <2>1, <1>b, TimersKept DEF TimersFollowStatus
<1>8. ASSUME NEW j, NEW p, NEW x
      PROVE  /\ SetInductionControl(j, x) => TimersFollowStatus'
             /\ Jam(j) => TimersFollowStatus'
             /\ OverflowFault(j) => TimersFollowStatus'
             /\ InductItem(j, p, x) => TimersFollowStatus'
             /\ DischargeItem(p, x) => TimersFollowStatus'
             /\ ConfirmItem(p) => TimersFollowStatus'
  <2>1. SetInductionControl(j, x) \/ Jam(j) \/ OverflowFault(j) \/ InductItem(j, p, x)
          \/ DischargeItem(p, x) \/ ConfirmItem(p)
        => /\ UNCHANGED <<sorterStatus, inductionTimers>>
           /\ DOMAIN inductions' = DOMAIN inductions
    <3>1. PICK n : inductions \in [1..n -> Induction]
      BY DEF TypeOK
    <3>2. QED
      BY <3>1 DEF SetInductionControl, Jam, OverflowFault, InductItem, DischargeItem, ConfirmItem,
         lineVars
  <2>2. QED BY <2>1, TimersKept
<1>9. CASE UNCHANGED vars
  BY <1>9, TimersKept DEF vars, lineVars
<1>10. QED
  BY <1>1, <1>2, <1>3, <1>4, <1>5, <1>6, <1>7, <1>8, <1>9 DEF Next, Command, Fault, Timer

\* A running line ticks once for each induction it has and any other line never
\* ticks, for every history of commands, faults and reconfigurations, also those
\* that leave the number of inductions undefined.
THEOREM OneIntervalPerInduction == Spec => []TimersFollowStatus
<1>1. Spec => [](TypeOK /\ TimersFollowStatus)
  BY TypeInit, TypeNext, TimersInit, TimersNext, PTL DEF Spec
<1>2. QED BY <1>1, PTL

(***************************************************************************)
(* Armed timeouts and the stages of parcels.                               *)
(***************************************************************************)

\* No timeout is armed at first.
LEMMA StagesInit == Init => TimersMatchStages
BY DEF Init, TimersMatchStages

\* A step that changes no stage, no list and no timeout keeps them together.
LEMMA StagesKept ==
  ASSUME TimersMatchStages, UNCHANGED parcelVars
  PROVE  TimersMatchStages'
BY DEF TimersMatchStages, InFlight, parcelVars

\* So does a stop, which drops every parcel it leaves listed.
LEMMA StagesCleared ==
  ASSUME TimersMatchStages, ClearPendingTimers, itemStatus' = itemStatus, items' \subseteq items
  PROVE  TimersMatchStages'
BY DEF TimersMatchStages, ClearPendingTimers, InFlight

\* Every step keeps armed timeouts and stages together.
LEMMA StagesNext == TypeOK /\ TimersMatchStages /\ [Next]_vars => TimersMatchStages'
<1> SUFFICES ASSUME TypeOK, TimersMatchStages, [Next]_vars PROVE TimersMatchStages'
  OBVIOUS
<1>1. ASSUME NEW i, NEW p \in Parcels, NEW dest, InductItem(i, p, dest)
      PROVE TimersMatchStages'
  <2>1. /\ dischargeTimers' = dischargeTimers \cup {p} /\ items' = items \cup {p}
        /\ confirmTimers' = confirmTimers /\ dropped' = dropped
        /\ p \notin confirmTimers /\ p \notin items /\ p \notin dischargeTimers
    BY <1>1 DEF InductItem, InFlight
  <2>2. itemStatus'[p] = "IN_TRANSIT" /\ \A q \in Parcels \ {p} : itemStatus'[q] = itemStatus[q]
    BY <1>1 DEF InductItem, TypeOK
  <2>3. QED BY <2>1, <2>2 DEF TimersMatchStages, TypeOK, InFlight
<1>2. ASSUME NEW p \in Parcels, NEW outcome, DischargeItem(p, outcome)
      PROVE TimersMatchStages'
  <2>1. /\ dischargeTimers' = dischargeTimers \ {p} /\ confirmTimers' = confirmTimers \cup {p}
        /\ items' = items /\ dropped' = dropped /\ p \in dischargeTimers
    BY <1>2 DEF DischargeItem
  <2>2. itemStatus'[p] = "DISCHARGED" /\ \A q \in Parcels \ {p} : itemStatus'[q] = itemStatus[q]
    BY <1>2 DEF DischargeItem, TypeOK
  <2>3. QED BY <2>1, <2>2 DEF TimersMatchStages, TypeOK, InFlight
<1>3. ASSUME NEW p \in Parcels, ConfirmItem(p)
      PROVE TimersMatchStages'
  <2>1. /\ dischargeTimers' = dischargeTimers /\ confirmTimers' = confirmTimers \ {p}
        /\ items' = items \ {p} /\ dropped' = dropped /\ p \in confirmTimers
    BY <1>3 DEF ConfirmItem
  <2>2. \A q \in Parcels \ {p} : itemStatus'[q] = itemStatus[q]
    BY <1>3 DEF ConfirmItem, TypeOK
  <2>3. p \notin dischargeTimers /\ p \notin dropped
    BY <1>3 DEF ConfirmItem, TimersMatchStages, InFlight
  <2>4. QED BY <2>1, <2>2, <2>3 DEF TimersMatchStages, TypeOK, InFlight
<1>4. CASE Command
  <2>1. Stop => TimersMatchStages'
    BY StagesCleared DEF Stop
  <2>2. CASE Reset
    <3>1. CASE ClearPendingTimers
      BY <2>2, <3>1, StagesCleared DEF Reset
    <3>2. CASE /\ dropped' = {} /\ items' = {}
               /\ UNCHANGED <<itemStatus, dischargeTimers, confirmTimers>>
      BY <3>2 DEF TimersMatchStages
    <3>3. QED BY <2>2, <3>1, <3>2 DEF Reset
  <2>3. ASSUME NEW partial, UpdateConfig(partial) PROVE TimersMatchStages'
    <3>1. CASE ClearPendingTimers
      BY <2>3, <3>1, StagesCleared DEF UpdateConfig
    <3>2. CASE PendingTimersKept
      BY <2>3, <3>2, StagesKept DEF UpdateConfig, PendingTimersKept, parcelVars
    <3>3. QED BY <2>3, <3>1, <3>2 DEF UpdateConfig
  <2>4. CASE Start \/ SetResetRequest \/ (\E i, status : SetInductionControl(i, status))
    BY <2>4, StagesKept DEF Start, SetResetRequest, SetInductionControl
  <2>5. QED BY <1>4, <2>1, <2>2, <2>3, <2>4 DEF Command
<1>5. CASE Fault
  BY <1>5, StagesKept DEF Fault, MotorTrip, Jam, OverflowFault, ClearFault
<1>6. CASE UNCHANGED vars
  BY <1>6, StagesKept DEF vars
<1>7. QED BY <1>1, <1>2, <1>3, <1>4, <1>5, <1>6 DEF Next, Timer

\* Whatever happens between arming a timeout and its callback, the callback
\* finds the parcel in the stage it was armed for; and every listed parcel has the
\* timeout its stage calls for, unless a stop cleared it for good.
THEOREM TimeoutsFindTheirParcel == Spec => []TimersMatchStages
<1>1. Spec => [](TypeOK /\ TimersMatchStages)
  BY TypeInit, TypeNext, StagesInit, StagesNext, PTL DEF Spec
<1>2. QED BY <1>1, PTL

(***************************************************************************)
(* The engine implements ParcelProtocol.                                   *)
(***************************************************************************)

\* Timers untouched, phases untouched.
LEMMA SamePhase ==
  ASSUME UNCHANGED <<dischargeTimers, confirmTimers>>
  PROVE  ParcelPhase' = ParcelPhase
BY DEF ParcelPhase

\* The initial line is an initial line of the protocol.
LEMMA ProtocolInit == Init => PP!Init
BY DEF Init, PP!Init, ParcelPhase

\* Each step of the engine is a step of the protocol, or invisible to it.
LEMMA ProtocolNext ==
  TypeOK /\ TimersMatchStages /\ [Next]_vars => [PP!Next]_(PP!vars)
<1> SUFFICES ASSUME TypeOK, TimersMatchStages, [Next]_vars PROVE [PP!Next]_(PP!vars)
  OBVIOUS
<1> DEFINE Stutter == UNCHANGED <<sorterStatus, dischargeTimers, confirmTimers>>
           Changes == /\ UNCHANGED <<dischargeTimers, confirmTimers>>
                      /\ sorterStatus' \in SorterStatuses
                      /\ sorterStatus # "RUNNING" \/ sorterStatus' = "EMERGENCY"
           Clears  == /\ sorterStatus # "STOPPED"
                      /\ sorterStatus' \in {sorterStatus, "STOPPED"}
                      /\ dischargeTimers' = {} /\ confirmTimers' = {}
<1>a. ASSUME Stutter PROVE UNCHANGED PP!vars
  BY <1>a, SamePhase DEF PP!vars
<1>b. ASSUME Changes PROVE PP!Next
  BY <1>b, SamePhase DEF PP!Next, PP!ChangeLine, PP!Statuses, SorterStatuses
<1>c. ASSUME Clears PROVE PP!Next
  BY <1>c DEF PP!Next, PP!ClearLine, ParcelPhase
<1>1. ASSUME NEW i, NEW p \in Parcels, NEW dest, InductItem(i, p, dest)
      PROVE PP!Next
  <2>1. /\ p \notin dischargeTimers /\ p \notin confirmTimers
        /\ dischargeTimers' = dischargeTimers \cup {p} /\ confirmTimers' = confirmTimers
        /\ sorterStatus = "RUNNING" /\ sorterStatus' = sorterStatus
    BY <1>1 DEF InductItem, InFlight
  <2>2. /\ ParcelPhase[p] = "absent"
        /\ ParcelPhase' = [ParcelPhase EXCEPT ![p] = "inTransit"]
    BY <2>1 DEF ParcelPhase
  <2>3. QED BY <2>1, <2>2 DEF PP!Next, PP!Induct, PP!Move
<1>2. ASSUME NEW p \in Parcels, NEW outcome, DischargeItem(p, outcome)
      PROVE PP!Next
  <2>1. /\ p \in dischargeTimers /\ p \notin confirmTimers
        /\ dischargeTimers' = dischargeTimers \ {p} /\ confirmTimers' = confirmTimers \cup {p}
        /\ sorterStatus' = sorterStatus
    BY <1>2 DEF DischargeItem, TimersMatchStages
  <2>2. /\ ParcelPhase[p] = "inTransit"
        /\ ParcelPhase' = [ParcelPhase EXCEPT ![p] = "discharged"]
    BY <2>1 DEF ParcelPhase
  <2>3. QED BY <2>1, <2>2 DEF PP!Next, PP!Discharge, PP!Move
<1>3. ASSUME NEW p \in Parcels, ConfirmItem(p)
      PROVE PP!Next
  <2>1. /\ p \in confirmTimers /\ p \notin dischargeTimers
        /\ dischargeTimers' = dischargeTimers /\ confirmTimers' = confirmTimers \ {p}
        /\ sorterStatus' = sorterStatus
    BY <1>3 DEF ConfirmItem, TimersMatchStages, lineVars
  <2>2. /\ ParcelPhase[p] = "discharged"
        /\ ParcelPhase' = [ParcelPhase EXCEPT ![p] = "absent"]
    BY <2>1 DEF ParcelPhase
  <2>3. QED BY <2>1, <2>2 DEF PP!Next, PP!Confirm, PP!Move
<1>4. CASE Command
  <2>1. Start => Changes
    BY DEF Start, parcelVars, SorterStatuses
  <2>2. Stop => Clears
    BY DEF Stop, ClearPendingTimers
  <2>3. Reset => Clears \/ Stutter
    BY DEF Reset, ClearPendingTimers
  <2>4. ASSUME NEW partial, UpdateConfig(partial) PROVE Clears \/ Stutter
    BY <2>4 DEF UpdateConfig, ClearPendingTimers, PendingTimersKept
  <2>5. ASSUME NEW i, NEW status, SetInductionControl(i, status) PROVE Stutter
    BY <2>5 DEF SetInductionControl, parcelVars
  <2>6. SetResetRequest => Changes \/ Stutter
    BY DEF SetResetRequest, parcelVars, SorterStatuses
  <2>7. QED BY <1>4, <1>a, <1>b, <1>c, <2>1, <2>2, <2>3, <2>4, <2>5, <2>6 DEF Command
<1>5. CASE Fault
  <2>1. MotorTrip => Changes
    BY DEF MotorTrip, parcelVars, SorterStatuses
  <2>2. ASSUME NEW i, Jam(i) \/ OverflowFault(i) PROVE Stutter
    BY <2>2 DEF Jam, OverflowFault, parcelVars
  <2>3. ASSUME NEW types, ClearFault(types) PROVE Changes \/ Stutter
    BY <2>3 DEF ClearFault, parcelVars, SorterStatuses
  <2>4. QED BY <1>5, <1>a, <1>b, <2>1, <2>2, <2>3 DEF Fault
<1>6. CASE UNCHANGED vars
  BY <1>6, <1>a DEF vars, lineVars, parcelVars
<1>7. QED BY <1>1, <1>2, <1>3, <1>4, <1>5, <1>6 DEF Next, Timer

\* T20, T21 and T22 come in order for every parcel, parcels enter only a running
\* line, and the line drops all of its parcels or none.
THEOREM EngineFollowsProtocol == Spec => FollowsProtocol
<1>1. Spec => [](TypeOK /\ TimersMatchStages)
  BY TypeInit, TypeNext, StagesInit, StagesNext, PTL DEF Spec
<1>2. QED BY <1>1, ProtocolInit, ProtocolNext, PTL DEF Spec, FollowsProtocol, PP!Spec

(***************************************************************************)
(* The books balance.                                                      *)
(***************************************************************************)

\* Lists of parcels are finite and so are their sizes.
LEMMA ItemsFinite ==
  ASSUME TypeOK, NEW status
  PROVE  /\ IsFiniteSet(items) /\ Cardinality(items) \in Nat
         /\ IsFiniteSet(ItemsIn(status)) /\ Cardinality(ItemsIn(status)) \in Nat
<1>1. IsFiniteSet(Parcels)
  BY EngineAssumption
<1>2. items \subseteq Parcels /\ ItemsIn(status) \subseteq Parcels
  BY DEF TypeOK, ItemsIn
<1>3. QED BY <1>1, <1>2, FS_Subset, FS_CardinalityType

\* The books balance before the first parcel.
LEMMA AccountingInit == Init => ExactAccounting
<1>1. ASSUME Init PROVE items = {} /\ ItemsIn("DISCHARGED") = {}
  BY <1>1 DEF Init, ItemsIn
<1>2. QED BY <1>1, FS_EmptySet DEF Init, ExactAccounting, ZeroTotals, NoStray

\* A step that leaves parcels and their counters alone keeps the books.
LEMMA AccountingKept ==
  ASSUME ExactAccounting, UNCHANGED <<items, itemStatus, stray>>,
         totals'.inducted = totals.inducted, totals'.discharged = totals.discharged,
         totals'.confirmed = totals.confirmed, totals'.noRead = totals.noRead,
         totals'.recirculated = totals.recirculated
  PROVE  ExactAccounting'
<1>1. ItemsIn("DISCHARGED")' = ItemsIn("DISCHARGED")
  BY DEF ItemsIn
<1>2. QED BY <1>1 DEF ExactAccounting

\* Every step keeps the books balanced.
LEMMA AccountingNext ==
  TypeOK /\ TimersMatchStages /\ ExactAccounting /\ [Next]_vars => ExactAccounting'
<1> SUFFICES ASSUME TypeOK, TimersMatchStages, ExactAccounting, [Next]_vars
             PROVE  ExactAccounting'
  OBVIOUS
<1> DEFINE D == ItemsIn("DISCHARGED")
<1>a. /\ IsFiniteSet(items) /\ Cardinality(items) \in Nat
      /\ IsFiniteSet(D) /\ Cardinality(D) \in Nat
  BY ItemsFinite
<1>b. /\ totals.inducted \in Nat /\ totals.discharged \in Nat /\ totals.confirmed \in Nat
      /\ totals.noRead \in Nat /\ totals.recirculated \in Nat /\ totals.errors \in Nat
      /\ stray.discharged \in Nat /\ stray.confirmed \in Nat
  BY DEF TypeOK, Totals, Strays
<1>c. totals.inducted + stray.confirmed = Cardinality(items) + totals.confirmed
  BY DEF ExactAccounting
<1>d. totals.discharged + stray.confirmed = stray.discharged + Cardinality(D) + totals.confirmed
  BY DEF ExactAccounting
<1>e. totals.noRead + totals.recirculated <= totals.discharged
  BY DEF ExactAccounting
<1>f. Cardinality(items) \in Nat /\ Cardinality(D) \in Nat
  BY <1>a
<1>g. totals \in Totals /\ stray \in Strays /\ itemStatus \in [Parcels -> ItemStatuses]
  BY DEF TypeOK
<1> HIDE DEF D
<1>1. ASSUME NEW i, NEW p \in Parcels, NEW dest, InductItem(i, p, dest)
      PROVE ExactAccounting'
  <2>1. /\ p \notin items /\ items' = items \cup {p} /\ stray' = stray
        /\ totals' = [totals EXCEPT !.inducted = @ + 1]
        /\ itemStatus' = [itemStatus EXCEPT ![p] = "IN_TRANSIT"]
    BY <1>1 DEF InductItem
  <2>2. Cardinality(items') = Cardinality(items) + 1
    BY <1>a, <2>1, FS_AddElement
  <2>3. ItemsIn("DISCHARGED")' = D
    BY <1>g, <2>1 DEF D, ItemsIn, TypeOK
  <2>4. /\ totals'.inducted = totals.inducted + 1 /\ totals'.discharged = totals.discharged
        /\ totals'.confirmed = totals.confirmed /\ totals'.noRead = totals.noRead
        /\ totals'.recirculated = totals.recirculated
    BY <1>g, <2>1 DEF Totals
  <2>5. stray'.discharged = stray.discharged /\ stray'.confirmed = stray.confirmed
    BY <2>1
  <2>6. totals'.inducted + stray'.confirmed = Cardinality(items') + totals'.confirmed
    BY <1>f, <1>b, <1>c, <2>2, <2>4, <2>5
  <2>7. totals'.discharged + stray'.confirmed =
          stray'.discharged + Cardinality(ItemsIn("DISCHARGED")') + totals'.confirmed
    BY <1>f, <1>b, <1>d, <2>3, <2>4, <2>5
  <2>8. totals'.noRead + totals'.recirculated <= totals'.discharged
    BY <1>b, <1>e, <2>4
  <2>9. QED BY <2>6, <2>7, <2>8 DEF ExactAccounting
<1>2. ASSUME NEW p \in Parcels, NEW outcome \in Outcomes, DischargeItem(p, outcome)
      PROVE ExactAccounting'
  <2> DEFINE a == IF outcome = "NO_READ" THEN 1 ELSE 0
             b == IF outcome = "RECIRCULATION" THEN 1 ELSE 0
             s == IF p \in items THEN 0 ELSE 1
  <2>1. /\ items' = items /\ itemStatus[p] = "IN_TRANSIT"
        /\ itemStatus' = [itemStatus EXCEPT ![p] = "DISCHARGED"]
        /\ totals' = [totals EXCEPT !.discharged = @ + 1, !.noRead = @ + a, !.recirculated = @ + b]
        /\ stray' = [stray EXCEPT !.discharged = @ + s]
    BY <1>2 DEF DischargeItem
  <2>2. /\ totals'.inducted = totals.inducted /\ totals'.discharged = totals.discharged + 1
        /\ totals'.confirmed = totals.confirmed /\ totals'.noRead = totals.noRead + a
        /\ totals'.recirculated = totals.recirculated + b
    BY <1>g, <2>1 DEF Totals
  <2>3. stray'.discharged = stray.discharged + s /\ stray'.confirmed = stray.confirmed
    BY <1>g, <2>1 DEF Strays
  <2>4. p \notin D
    BY <2>1 DEF D, ItemsIn
  <2>5. Cardinality(ItemsIn("DISCHARGED")') = Cardinality(D) + (1 - s)
    <3>1. CASE p \in items
      <4>1. ItemsIn("DISCHARGED")' = D \cup {p}
        BY <1>g, <2>1, <3>1 DEF D, ItemsIn, TypeOK
      <4>2. QED BY <1>a, <2>4, <3>1, <4>1, FS_AddElement
    <3>2. CASE p \notin items
      <4>1. ItemsIn("DISCHARGED")' = D
        BY <1>g, <2>1, <3>2 DEF D, ItemsIn, TypeOK
      <4>2. QED BY <1>a, <3>2, <4>1
    <3>3. QED BY <3>1, <3>2
  <2>6. a + b <= 1 /\ a \in Nat /\ b \in Nat /\ s \in 0..1
    OBVIOUS
  <2> HIDE DEF a, b, s
  <2>7. totals'.inducted + stray'.confirmed = Cardinality(items') + totals'.confirmed
    BY <1>c, <2>1, <2>2, <2>3
  <2>8. totals'.discharged + stray'.confirmed =
          stray'.discharged + Cardinality(ItemsIn("DISCHARGED")') + totals'.confirmed
    BY <1>f, <1>b, <1>d, <2>2, <2>3, <2>5, <2>6
  <2>9. totals'.noRead + totals'.recirculated <= totals'.discharged
    BY <1>b, <1>e, <2>2, <2>6
  <2>10. QED BY <2>7, <2>8, <2>9 DEF ExactAccounting
<1>3. ASSUME NEW p \in Parcels, ConfirmItem(p)
      PROVE ExactAccounting'
  <2> DEFINE s == IF p \in items THEN 0 ELSE 1
  <2>1. /\ items' = items \ {p} /\ itemStatus[p] = "DISCHARGED"
        /\ itemStatus' = [itemStatus EXCEPT ![p] = "CONFIRMED"]
        /\ totals' = [totals EXCEPT !.confirmed = @ + 1]
        /\ stray' = [stray EXCEPT !.confirmed = @ + s]
    BY <1>3 DEF ConfirmItem
  <2>2. /\ totals'.inducted = totals.inducted /\ totals'.discharged = totals.discharged
        /\ totals'.confirmed = totals.confirmed + 1 /\ totals'.noRead = totals.noRead
        /\ totals'.recirculated = totals.recirculated
    BY <1>g, <2>1 DEF Totals
  <2>3. stray'.discharged = stray.discharged /\ stray'.confirmed = stray.confirmed + s
    BY <1>g, <2>1 DEF Strays
  <2>4. ItemsIn("DISCHARGED")' = D \ {p}
    BY <1>g, <2>1 DEF D, ItemsIn, TypeOK
  <2>5. /\ Cardinality(items') = Cardinality(items) - (1 - s)
        /\ Cardinality(ItemsIn("DISCHARGED")') = Cardinality(D) - (1 - s)
    <3>1. CASE p \in items
      <4>1. p \in D
        BY <2>1, <3>1 DEF D, ItemsIn
      <4>2. s = 0
        BY <3>1
      <4>3. Cardinality(items') = Cardinality(items) - 1
        BY <1>a, <2>1, <3>1, FS_RemoveElement
      <4>4. Cardinality(ItemsIn("DISCHARGED")') = Cardinality(D) - 1
        BY <1>a, <2>4, <4>1, FS_RemoveElement
      <4>5. QED BY <4>2, <4>3, <4>4
    <3>2. CASE p \notin items
      <4>1. p \notin D /\ items' = items /\ ItemsIn("DISCHARGED")' = D
        BY <2>1, <2>4, <3>2 DEF D, ItemsIn
      <4>2. QED BY <1>a, <3>2, <4>1
    <3>3. QED BY <3>1, <3>2
  <2>6. s \in 0..1
    OBVIOUS
  <2> HIDE DEF s
  <2>7. totals'.inducted + stray'.confirmed = Cardinality(items') + totals'.confirmed
    BY <1>f, <1>b, <1>c, <2>2, <2>3, <2>5, <2>6
  <2>8. totals'.discharged + stray'.confirmed =
          stray'.discharged + Cardinality(ItemsIn("DISCHARGED")') + totals'.confirmed
    BY <1>f, <1>b, <1>d, <2>2, <2>3, <2>5, <2>6
  <2>9. totals'.noRead + totals'.recirculated <= totals'.discharged
    BY <1>b, <1>e, <2>2
  <2>10. QED BY <2>7, <2>8, <2>9 DEF ExactAccounting
<1>4. CASE Reset
  <2>1. /\ items' = {} /\ totals' = ZeroTotals /\ stray' = NoStray
        /\ ItemsIn("DISCHARGED")' = {}
    BY <1>4 DEF Reset, ItemsIn
  <2>2. QED BY <2>1, FS_EmptySet DEF ExactAccounting, ZeroTotals, NoStray
<1>5. CASE Command /\ ~Reset
  <2>1. UNCHANGED <<items, itemStatus, stray, totals>>
    BY <1>5 DEF Command, Start, Stop, UpdateConfig, SetInductionControl, SetResetRequest,
                parcelVars, countVars
  <2>2. QED BY <2>1, AccountingKept
<1>6. CASE Fault
  <2>1. UNCHANGED <<items, itemStatus, stray>>
    BY <1>6 DEF Fault, MotorTrip, Jam, OverflowFault, ClearFault, parcelVars, countVars
  <2>2. totals' = [totals EXCEPT !.errors = @ + 1] \/ totals' = totals
    BY <1>6 DEF Fault, MotorTrip, Jam, OverflowFault, ClearFault, CountError, countVars
  <2>3. /\ totals'.inducted = totals.inducted /\ totals'.discharged = totals.discharged
        /\ totals'.confirmed = totals.confirmed /\ totals'.noRead = totals.noRead
        /\ totals'.recirculated = totals.recirculated
    BY <1>g, <2>2 DEF Totals
  <2>4. QED BY <2>1, <2>3, AccountingKept
<1>7. CASE UNCHANGED vars
  BY <1>7, AccountingKept DEF vars, parcelVars, countVars
<1>8. QED BY <1>1, <1>2, <1>3, <1>4, <1>5, <1>6, <1>7 DEF Next, Timer

\* For any number of parcels and any history, inducted, discharged and confirmed
\* parcels are exactly accounted for by the list of active items.
THEOREM BooksBalance == Spec => []ExactAccounting
<1>1. Spec => [](TypeOK /\ TimersMatchStages /\ ExactAccounting)
  BY TypeInit, TypeNext, StagesInit, StagesNext, AccountingInit, AccountingNext, PTL DEF Spec
<1>2. QED BY <1>1, PTL
(***************************************************************************)
(* The SMC's view.                                                         *)
(***************************************************************************)

\* The inductions there are have numbers the telegrams cover.
LEMMA InductionsAreNumbered ==
  ASSUME TypeOK
  PROVE  DOMAIN inductions \subseteq InductionNos
<1>1. PICK n \in 0..MaxInductions : inductions \in [1..n -> Induction]
  BY DEF TypeOK
<1>2. QED BY <1>1, EngineAssumption DEF InductionNos

\* A full report makes the view true of whatever it reports.
LEMMA ReportTellsAll ==
  ASSUME NEW status, NEW inds, DOMAIN inds \subseteq InductionNos
  PROVE  /\ Report(status, inds).sorter = status
         /\ \A i \in DOMAIN inds : Report(status, inds).ind[i] = inds[i].status
BY DEF Report

\* Before the first telegram the SMC assumes a stopped line.
LEMMA ViewInit == Init => SmcViewAccurate
BY DEF Init, SmcViewAccurate

\* A step that keeps the line as it is keeps the view true.
LEMMA ViewKept ==
  ASSUME SmcViewAccurate, UNCHANGED <<sorterStatus, inductions, reported>>
  PROVE  SmcViewAccurate'
BY DEF SmcViewAccurate

\* Every step keeps the view true.
LEMMA ViewNext == TypeOK /\ SmcViewAccurate /\ [Next]_vars => SmcViewAccurate'
<1> SUFFICES ASSUME TypeOK, SmcViewAccurate, [Next]_vars PROVE SmcViewAccurate'
  OBVIOUS
<1>a. DOMAIN inductions \subseteq InductionNos /\ inductions \in [DOMAIN inductions -> Induction]
  BY InductionsAreNumbered DEF TypeOK
<1>b. reported \in SmcView
  BY DEF TypeOK
<1>1. CASE Start
  <2>1. DOMAIN inductions' \subseteq InductionNos
    BY <1>1, <1>a DEF Start, WithStatus
  <2>2. reported' = Report("RUNNING", inductions') /\ sorterStatus' = "RUNNING"
    BY <1>1 DEF Start
  <2>3. reported'.sorter = sorterStatus'
    BY <2>1, <2>2, ReportTellsAll
  <2>4. \A i \in DOMAIN inductions' : reported'.ind[i] = inductions'[i].status
    BY <2>1, <2>2, ReportTellsAll
  <2>5. QED BY <2>3, <2>4 DEF SmcViewAccurate
<1>2. CASE Stop
  BY <1>2 DEF Stop, Report, SmcViewAccurate
<1>3. CASE Reset
  BY <1>3 DEF Reset, Report, SmcViewAccurate
<1>4. ASSUME NEW partial \in Updates, UpdateConfig(partial)
      PROVE SmcViewAccurate'
  <2>1. sorterStatus' = sorterStatus
    BY <1>4 DEF UpdateConfig
  <2>2. \/ sorterStatus # "RUNNING" /\ reported' = reported
        \/ UNCHANGED <<reported, inductions>>
        \/ /\ sorterStatus = "RUNNING" /\ reported'.sorter = "RUNNING"
           /\ DOMAIN inductions' \subseteq InductionNos
           /\ \A i \in DOMAIN inductions' : inductions'[i].status = "RUNNING"
           /\ \A i \in InductionNos : i \in DOMAIN inductions' => reported'.ind[i] = "RUNNING"
    <3> DEFINE rebuild == partial.inductionCount # Undefined \/ partial.chuteCount # Undefined
    <3>1. TypeOK'
      BY TypeNext
    <3>2. DOMAIN inductions' \subseteq InductionNos
      <4>1. PICK n \in 0..MaxInductions : inductions' \in [1..n -> Induction]
        BY <3>1 DEF TypeOK
      <4>2. QED BY <4>1, EngineAssumption DEF InductionNos
    <3>3. CASE rebuild /\ sorterStatus = "RUNNING"
      <4>1. \E n : inductions' = NewInductions("RUNNING", n)
        BY <1>4, <3>3 DEF UpdateConfig
      <4>2. \A i \in DOMAIN inductions' : inductions'[i].status = "RUNNING"
        BY <4>1 DEF NewInductions
      <4>3. \E old : reported' = [sorter |-> "RUNNING",
                                 ind |-> [i \in InductionNos |->
                                            IF i \in DOMAIN inductions' THEN "RUNNING"
                                                                       ELSE old[i]]]
        BY <1>4, <3>3 DEF UpdateConfig
      <4>4. /\ reported'.sorter = "RUNNING"
            /\ \A i \in InductionNos : i \in DOMAIN inductions' => reported'.ind[i] = "RUNNING"
        BY <4>3
      <4>5. QED BY <3>2, <3>3, <4>2, <4>4
    <3>4. CASE ~rebuild \/ sorterStatus # "RUNNING"
      BY <1>4, <3>4 DEF UpdateConfig
    <3>5. QED BY <3>3, <3>4
  <2>3. QED BY <2>1, <2>2 DEF SmcViewAccurate
<1>5. ASSUME NEW i \in InductionNos, NEW status, SetInductionControl(i, status)
      PROVE SmcViewAccurate'
  BY <1>5, <1>a, <1>b DEF SetInductionControl, SmcViewAccurate, SmcView, Induction
<1>6. CASE SetResetRequest
  <2>1. DOMAIN inductions' \subseteq InductionNos
    BY <1>6, <1>a DEF SetResetRequest, JamsCleared
  <2>2. reported' = Report(sorterStatus', inductions')
    BY <1>6 DEF SetResetRequest
  <2>3. /\ reported'.sorter = sorterStatus'
        /\ \A i \in DOMAIN inductions' : reported'.ind[i] = inductions'[i].status
    BY <2>1, <2>2, ReportTellsAll
  <2>4. QED BY <2>3 DEF SmcViewAccurate
<1>7. CASE MotorTrip
  BY <1>7, <1>b DEF MotorTrip, SmcViewAccurate, SmcView
<1>8. ASSUME NEW i, Jam(i) PROVE SmcViewAccurate'
  BY <1>8, <1>a, <1>b DEF Jam, SmcViewAccurate, SmcView, Induction
<1>9. ASSUME NEW types, ClearFault(types) PROVE SmcViewAccurate'
  <2>1. /\ DOMAIN inductions' = DOMAIN inductions
        /\ \A i \in DOMAIN inductions :
             reported'.ind[i] = IF inductions'[i] # inductions[i] THEN inductions'[i].status
                                                                 ELSE reported.ind[i]
    BY <1>9, <1>a DEF ClearFault, JamsCleared
  <2>2. /\ reported'.sorter = sorterStatus'
        /\ sorterStatus' = "RUNNING" => sorterStatus = "RUNNING"
    BY <1>9 DEF ClearFault, SmcViewAccurate
  <2>3. QED BY <2>1, <2>2 DEF SmcViewAccurate
<1>10. ASSUME NEW i, NEW p, NEW dest, InductItem(i, p, dest) PROVE SmcViewAccurate'
  <2>1. /\ DOMAIN inductions' = DOMAIN inductions
        /\ \A j \in DOMAIN inductions : inductions'[j].status = inductions[j].status
    BY <1>10, <1>a DEF InductItem, Induction
  <2>2. UNCHANGED <<sorterStatus, reported>>
    BY <1>10 DEF InductItem
  <2>3. QED BY <2>1, <2>2 DEF SmcViewAccurate
<1>11. ASSUME UNCHANGED <<sorterStatus, inductions, reported>> PROVE SmcViewAccurate'
  BY <1>11, ViewKept
<1>12. (\E c : OverflowFault(c)) \/ (\E p, outcome : DischargeItem(p, outcome))
         \/ (\E p : ConfirmItem(p)) \/ UNCHANGED vars
       => UNCHANGED <<sorterStatus, inductions, reported>>
  BY DEF OverflowFault, DischargeItem, ConfirmItem, lineVars, vars
<1>13. QED
  BY <1>1, <1>2, <1>3, <1>4, <1>5, <1>6, <1>7, <1>8, <1>9, <1>10, <1>11, <1>12
     DEF Next, Command, Fault, Timer

\* However commands, faults, fault clearing and reconfiguration are mixed, T10 and
\* T11 leave the SMC with the sorter's true status, and with the true status of
\* every induction whenever the line runs (sendSorterStatus(), sendInductionStatus()).
THEOREM SmcSeesTheLine == Spec => []SmcViewAccurate
<1>1. Spec => [](TypeOK /\ SmcViewAccurate)
  BY TypeInit, TypeNext, ViewInit, ViewNext, PTL DEF Spec
<1>2. QED BY <1>1, PTL

(***************************************************************************)
(* Overflow flags.                                                         *)
(***************************************************************************)

\* A chute whose flag is up holds at least a threshold, or has no readable count.
FlagsJustified ==
  \A c \in DOMAIN chutes :
    chutes[c].overflow => \/ chutes[c].itemCount = NaN
                          \/ \E t \in Thresholds : t <= chutes[c].itemCount

\* A chute that received a parcel and is at its threshold has its flag up.
FlagsRaised ==
  \A c \in DOMAIN chutes \cap DOMAIN chutes' :
    (/\ chutes'[c].itemCount > chutes[c].itemCount
     /\ config.overflowThreshold # Undefined
     /\ chutes'[c].itemCount >= config.overflowThreshold) => chutes'[c].overflow

\* Empty chutes have no flag to justify and none to raise.
LEMMA FreshChutes ==
  ASSUME TypeOK, NEW n, chutes' = NewChutes(n)
  PROVE  FlagsJustified' /\ FlagsRaised
<1>1. \A c \in DOMAIN chutes' : chutes'[c].itemCount = 0 /\ ~chutes'[c].overflow
  BY DEF NewChutes
<1>2. config.overflowThreshold # Undefined => config.overflowThreshold \in Nat \ {0}
  <2>1. config \in Configs
    BY DEF TypeOK
  <2>2. QED BY <2>1, ConfigRanges, EngineAssumption
<1>3. QED BY <1>1, <1>2 DEF FlagsJustified, FlagsRaised

\* Every step leaves the flags truthful and raises those it must.
LEMMA FlagsNext == TypeOK /\ FlagsJustified /\ [Next]_vars => FlagsJustified' /\ FlagsRaised
<1> SUFFICES ASSUME TypeOK, FlagsJustified, [Next]_vars PROVE FlagsJustified' /\ FlagsRaised
  OBVIOUS
<1>a. \A c \in DOMAIN chutes :
        chutes[c].itemCount \in Nat \cup {NaN} /\ chutes[c].overflow \in BOOLEAN
  <2>1. PICK n : chutes \in [1..n -> Chute]
    BY DEF TypeOK
  <2>2. QED BY <2>1 DEF Chute
<1>b. /\ config.overflowThreshold # Undefined => config.overflowThreshold \in Thresholds
      /\ config.overflowThreshold \in Nat
      /\ Thresholds \subseteq Nat \ {0}
      /\ NaN = -1
  <2>1. config \in Configs
    BY DEF TypeOK
  <2>2. QED BY <2>1, ConfigRanges, EngineAssumption DEF NaN
<1>c. \A c \in DOMAIN chutes : chutes[c].itemCount \in Int
  BY <1>a, <1>b
<1>1. ASSUME chutes' = chutes PROVE FlagsJustified' /\ FlagsRaised
  <2>1. FlagsJustified'
    BY <1>1 DEF FlagsJustified
  <2>2. \A c \in DOMAIN chutes : ~(chutes'[c].itemCount > chutes[c].itemCount)
    BY <1>1, <1>c
  <2>3. QED BY <2>1, <2>2 DEF FlagsRaised
<1>2. CASE Reset
  BY <1>2, FreshChutes DEF Reset
<1>3. ASSUME NEW partial, UpdateConfig(partial) PROVE FlagsJustified' /\ FlagsRaised
  <2>1. chutes' = chutes \/ \E n : chutes' = NewChutes(n)
    BY <1>3 DEF UpdateConfig
  <2>2. QED BY <2>1, <1>1, FreshChutes
<1>4. ASSUME NEW f, OverflowFault(f) PROVE FlagsJustified' /\ FlagsRaised
  <2>1. /\ DOMAIN chutes' = DOMAIN chutes
        /\ \A c \in DOMAIN chutes :
             \/ chutes'[c] = chutes[c]
             \/ /\ chutes'[c].overflow
                /\ chutes'[c].itemCount = IF config.overflowThreshold = Undefined
                                          THEN NaN ELSE config.overflowThreshold
    BY <1>4 DEF OverflowFault
  <2>2. QED BY <2>1, <1>a, <1>b DEF FlagsJustified, FlagsRaised
<1>5. ASSUME NEW types, ClearFault(types) PROVE FlagsJustified' /\ FlagsRaised
  <2>1. /\ DOMAIN chutes' = DOMAIN chutes
        /\ \A c \in DOMAIN chutes :
             \/ chutes'[c] = chutes[c]
             \/ chutes'[c].itemCount = chutes[c].itemCount /\ ~chutes'[c].overflow
    <3>1. PICK n : chutes \in [1..n -> Chute]
      BY DEF TypeOK
    <3>2. QED BY <1>5, <3>1 DEF ClearFault, Chute
  <2>2. FlagsJustified'
    BY <2>1 DEF FlagsJustified
  <2>3. \A c \in DOMAIN chutes : ~(chutes'[c].itemCount > chutes[c].itemCount)
    BY <2>1, <1>c
  <2>4. QED BY <2>1, <2>2, <2>3 DEF FlagsRaised
<1>6. ASSUME NEW p, NEW outcome, DischargeItem(p, outcome) PROVE FlagsJustified' /\ FlagsRaised
  <2>1. /\ DOMAIN chutes' = DOMAIN chutes
        /\ \A c \in DOMAIN chutes : chutes'[c] = chutes[c] \/ chutes'[c] = DroppedIn(chutes[c])
    BY <1>6 DEF DischargeItem
  <2>2. ASSUME NEW c \in DOMAIN chutes, chutes'[c] = DroppedIn(chutes[c])
        PROVE  /\ chutes'[c].overflow => \/ chutes'[c].itemCount = NaN
                                         \/ \E t \in Thresholds : t <= chutes'[c].itemCount
               /\ (/\ config.overflowThreshold # Undefined
                   /\ chutes'[c].itemCount >= config.overflowThreshold) => chutes'[c].overflow
    <3> DEFINE more == IF chutes[c].itemCount = NaN THEN NaN ELSE chutes[c].itemCount + 1
               full == config.overflowThreshold # Undefined /\ more >= config.overflowThreshold
    <3>1. /\ chutes'[c].itemCount = more
          /\ chutes'[c].overflow <=> chutes[c].overflow \/ full
      <4>1. chutes'[c] = [itemCount |-> more, overflow |-> chutes[c].overflow \/ full]
        BY <2>2 DEF DroppedIn
      <4> HIDE DEF full, more
      <4>2. chutes'[c].itemCount = more /\ chutes'[c].overflow = (chutes[c].overflow \/ full)
        BY <4>1
      <4>3. chutes'[c].overflow <=> (chutes[c].overflow \/ full)
        BY <4>2, Zenon
      <4>4. QED BY <4>2, <4>3
    <3>2. chutes[c].overflow => more = NaN \/ \E t \in Thresholds : t <= more
      BY <1>a, <1>b DEF FlagsJustified
    <3>3. full => \E t \in Thresholds : t <= more
      BY <1>a, <1>b
    <3>4. QED BY <3>1, <3>2, <3>3
  <2>3. FlagsJustified'
    BY <2>1, <2>2 DEF FlagsJustified
  <2>4. \A c \in DOMAIN chutes :
          chutes'[c] = chutes[c] => ~(chutes'[c].itemCount > chutes[c].itemCount)
    BY <1>c
  <2>5. QED BY <2>1, <2>2, <2>3, <2>4 DEF FlagsRaised
<1>7. CASE Start \/ Stop \/ SetResetRequest \/ MotorTrip
           \/ (\E i, status : SetInductionControl(i, status)) \/ (\E i : Jam(i))
           \/ (\E i, p, dest : InductItem(i, p, dest)) \/ (\E p : ConfirmItem(p))
           \/ UNCHANGED vars
  <2>1. chutes' = chutes
    BY <1>7 DEF Start, Stop, SetResetRequest, MotorTrip, SetInductionControl, Jam, InductItem,
                ConfirmItem, lineVars, vars
  <2>2. QED BY <2>1, <1>1
<1>8. QED BY <1>2, <1>3, <1>4, <1>5, <1>6, <1>7 DEF Next, Command, Fault, Timer

\* A flag is only up over a chute that holds a threshold's worth of parcels or whose
\* count is unreadable, and as long as a threshold is configured a parcel dropped
\* into a chute at or past it always leaves the flag up, also after clearFault
\* lowered it (dischargeItem()).
THEOREM OverflowFlagsTell == Spec => OverflowFlagTruthful
<1>1. Init => FlagsJustified
  BY DEF Init, FlagsJustified, NewChutes
<1>2. Spec => [](TypeOK /\ FlagsJustified) /\ [][FlagsRaised]_vars
  BY <1>1, TypeInit, TypeNext, FlagsNext, PTL DEF Spec
<1>3. QED BY <1>2, PTL DEF OverflowFlagTruthful, FlagsJustified, FlagsRaised
=============================================================================
