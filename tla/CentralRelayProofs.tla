-------------------------- MODULE CentralRelayProofs --------------------------
(***************************************************************************)
(* Theorems of CentralRelay: the fallback, told of SIMS by the connections *)
(* of the same process, keeps what it promises with any.                   *)
(***************************************************************************)
EXTENDS CentralRelay, TLAPS

\* The fallback with its theorems
P == INSTANCE RelayFallbackProofs WITH status <- fallback, simsConnected <- SimsConnected

\* Every step of the relay is a step or a stutter of its connections: the health check
\* of the fallback only reads their status (isSimsConnected()).
THEOREM ConnectionsRunAsAlone == Spec => C!Spec
<1>1. Init => C!Init
  BY DEF Init
<1>2. [Next]_vars => [C!Next]_(C!vars)
  BY DEF Next, vars, ConnectionStep, FallbackStep, connectionVars, C!vars
<1> QED BY <1>1, <1>2, PTL DEF Spec, C!Spec

\* To the fallback a step of the connections changes the status of SIMS, or nothing.
LEMMA StepsOfConnections ==
  ASSUME ConnectionStep
  PROVE  F!SimsChanges \/ UNCHANGED F!vars
<1>1. SimsConnected \in BOOLEAN /\ SimsConnected' \in BOOLEAN
  BY DEF SimsConnected
<1>2. CASE SimsConnected' = SimsConnected
  BY <1>2 DEF ConnectionStep, fallbackVars, F!vars
<1>3. CASE SimsConnected' # SimsConnected
  BY <1>1, <1>3 DEF ConnectionStep, fallbackVars, F!SimsChanges
<1> QED BY <1>2, <1>3

\* Every step of the relay is a step or a stutter of its fallback, whatever the
\* connections make of SIMS meanwhile (isSimsConnected(), checkSimsHealth()).
THEOREM FallbackRunsAsAlone == Spec => F!Spec
<1>1. Init => F!Init
  BY DEF Init
<1>2. [Next]_vars => [F!Next]_(F!vars)
  <2> SUFFICES ASSUME [Next]_vars PROVE F!Next \/ UNCHANGED F!vars
    OBVIOUS
  <2>1. CASE ConnectionStep
    BY <2>1, StepsOfConnections DEF F!Next
  <2>2. CASE FallbackStep
    BY <2>2 DEF FallbackStep, F!Next
  <2>3. CASE UNCHANGED vars
    BY <2>3 DEF vars, connectionVars, fallbackVars, F!vars, SimsConnected
  <2> QED BY <2>1, <2>2, <2>3 DEF Next
<1> QED BY <1>1, <1>2, PTL DEF Spec, F!Spec

\* The fallback with its theorems is the one of the relay.
LEMMA SameSteps == F!FallbackStep <=> P!FallbackStep
<1>1. F!CheckSimsHealth <=> P!CheckSimsHealth
  BY DEF F!CheckSimsHealth, F!SimsCheckFails, F!SimsCheckSucceeds, F!Recover, F!RecordsOf,
         P!CheckSimsHealth, P!SimsCheckFails, P!SimsCheckSucceeds, P!Recover, P!RecordsOf
<1>2. ASSUME NEW items, NEW sel, NEW written
      PROVE  F!GenerateCSV(items, sel, written) <=> P!GenerateCSV(items, sel, written)
  BY DEF F!GenerateCSV, F!Selected, F!RecordsOf, P!GenerateCSV, P!Selected, P!RecordsOf
<1>3. ASSUME NEW r, NEW type, NEW written
      PROVE  F!AddPendingRecord(r, type, written) <=> P!AddPendingRecord(r, type, written)
  BY <1>2 DEF F!AddPendingRecord, F!Selected, F!RecordsOf, F!Cardinality, F!health,
              P!AddPendingRecord, P!Selected, P!RecordsOf, P!Cardinality, P!health
<1>4. ASSUME NEW sel, NEW written
      PROVE  F!TriggerCSVGeneration(sel, written) <=> P!TriggerCSVGeneration(sel, written)
  BY <1>2 DEF F!TriggerCSVGeneration, F!health, P!TriggerCSVGeneration, P!health
<1>5. F!Tick <=> P!Tick
  BY DEF F!Tick, F!health, P!Tick, P!health
<1>6. F!Types = P!Types /\ F!Selections = P!Selections
  BY DEF F!Types, F!Selections, P!Types, P!Selections
<1> QED BY <1>1, <1>3, <1>4, <1>5, <1>6 DEF F!FallbackStep, P!FallbackStep

LEMMA SameFallback == F!Spec => P!Spec
<1>1. F!Init => P!Init
  BY DEF F!Init, P!Init
<1>2. [F!Next]_(F!vars) => [P!Next]_(P!vars)
  BY SameSteps DEF F!Next, F!vars, F!SimsChanges, P!Next, P!vars, P!SimsChanges
<1> QED BY <1>1, <1>2, PTL DEF F!Spec, P!Spec

LEMMA FallbackParameters ==
  /\ FailureThreshold \in Nat \ {0} /\ RecoveryThreshold \in Nat \ {0}
  /\ MaxRows \in Nat \ {0} /\ Second \in Nat \ {0} /\ MaxTime \in Nat
BY RelayAssumption DEF RelayAssumption

\* In the relay as it is put together, with probes that end late, timers that fire
\* between checks and operators who reconnect: no record accepted is delivered twice,
\* none is lost but by a clash of ids or file names, and nothing stays pending once the
\* fallback is over (checkSimsHealth(), addPendingRecord(), generateCSVFile(),
\* startRecovery() under isSimsConnected()).
THEOREM RelayKeepsRecords ==
  Spec => [](F!DeliveredOnce /\ F!KeptUnlessClash /\ F!PendingOnlyInFallback)
<1>1. P!Spec => [](P!DeliveredOnce /\ P!KeptUnlessClash /\ P!PendingOnlyInFallback)
  BY FallbackParameters, P!RecordsDeliveredOnce, P!RecordsKept, P!NothingPendsAfterwards, PTL
<1>2. P!DeliveredOnce => F!DeliveredOnce
  BY DEF P!DeliveredOnce, P!Written, P!RecordsOf, F!DeliveredOnce, F!Written, F!RecordsOf
<1>3. P!PendingOnlyInFallback => F!PendingOnlyInFallback
  BY DEF P!PendingOnlyInFallback, F!PendingOnlyInFallback
<1>4. P!KeptUnlessClash => F!KeptUnlessClash
  BY DEF P!KeptUnlessClash, P!NoClash, P!Written, P!RecordsOf, P!IsInjective,
         F!KeptUnlessClash, F!NoClash, F!Written, F!RecordsOf, F!IsInjective
<1> QED BY <1>1, <1>2, <1>3, <1>4, FallbackRunsAsAlone, SameFallback, PTL

\* The status of the fallback is the one the checks of the connection so far call for
\* (checkSimsHealth() with FAILURE_THRESHOLD and RECOVERY_THRESHOLD).
THEOREM RelayFollowsChecks == Spec => []F!ThresholdsDecide
<1>1. P!ThresholdsDecide => F!ThresholdsDecide
  BY DEF P!ThresholdsDecide, F!ThresholdsDecide
<1> QED
  BY <1>1, FallbackParameters, P!StatusFollowsChecks, FallbackRunsAsAlone, SameFallback, PTL
===============================================================================
