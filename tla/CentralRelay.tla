---------------------------- MODULE CentralRelay ----------------------------
(***************************************************************************)
(* The central relay's way from an outage of SIMS to the fallback and      *)
(* back: RelayConnection's status of SIMS is what RelayFallback's checks   *)
(* read.  Timers of their own drive the two, nothing orders them.          *)
(***************************************************************************)
EXTENDS Integers

CONSTANTS
  N, MaxAttempts, MaxPending, Rounds,                          \* RelayConnection
  Records, FailureThreshold, RecoveryThreshold, MaxRows, Second, MaxTime  \* RelayFallback

ASSUME RelayAssumption ==
  /\ N \in Nat \ {0}
  /\ MaxPending \in Nat \ {0}
  /\ {MaxAttempts, MaxTime} \subseteq Nat
  /\ {FailureThreshold, RecoveryThreshold, MaxRows, Second} \subseteq Nat \ {0}

VARIABLES
  connection, attempts, armed, pending, probing, up,           \* RelayConnection
  fallback, failures, successes, pendingRecords, csvFilesGenerated, csv, sent,
  accepted, now                                                \* RelayFallback

connectionVars == <<connection, attempts, armed, pending, probing, up>>
fallbackVars == <<fallback, failures, successes, pendingRecords, csvFilesGenerated, csv, sent,
                  accepted, now>>
vars == <<connectionVars, fallbackVars>>

\* defaultTargets begins with SIMS.
SIMS == 1

\* isSimsConnected() takes a connection that is being made for one.
SimsConnectedOptimist == connection[SIMS] \in {"CONNECTED", "CONNECTING"}

\* isSimsConnected()
SimsConnected == connection[SIMS] = "CONNECTED"

C == INSTANCE RelayConnection WITH status <- connection
F == INSTANCE RelayFallback WITH status <- fallback, simsConnected <- SimsConnected

Init == C!Init /\ F!Init

ConnectionStep == C!Next /\ UNCHANGED fallbackVars
FallbackStep == UNCHANGED connectionVars /\ F!FallbackStep

Next == ConnectionStep \/ FallbackStep

Spec == Init /\ [][Next]_vars

\* The fairness of both parts; see there.
CheckFairness == WF_vars(UNCHANGED connectionVars /\ F!CheckSimsHealth)

FairSpec == Spec /\ C!ConnectionFairness /\ CheckFairness
-----------------------------------------------------------------------------
\* When SIMS goes down for good, the fallback is active in the end, whatever
\* probes were under way and however often operators reconnect.
OutageDetected == <>[](~up[SIMS]) => <>[](fallback = "ACTIVATED")

\* When SIMS comes back for good and operators leave it alone, the fallback ends
\* and nothing stays pending, unless the attempts to reconnect were used up.
LastingRecovery ==
  /\ <>[]up[SIMS]
  /\ <>[][~C!Reconnect(SIMS)]_vars
  => <>[](fallback = "INACTIVE" /\ pendingRecords = {}) \/ <>[]C!GaveUp(SIMS)

\* "Automatic synchronisation of unsent data after recovery from the failure".
AutoSyncAfterRecovery ==
  /\ <>[]up[SIMS]
  /\ <>[][~C!Reconnect(SIMS)]_vars
  => <>[](pendingRecords = {})
=============================================================================
