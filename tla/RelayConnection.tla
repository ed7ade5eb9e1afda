-------------------------- MODULE RelayConnection --------------------------
(***************************************************************************)
(* The central relay's connections to SIMS and the local centres           *)
(* (apps/central-relay/src/connection/connection.service.ts): connect(),   *)
(* reconnect timers, health checks and manual reconnects.                  *)
(*                                                                         *)
(* connect() and the health check await a probe, a TCP connection that is  *)
(* opened and closed; anything can happen meanwhile, and both write the    *)
(* status afterwards without looking at it again.  A probe finds its       *)
(* target as it is when the probe ends.                                    *)
(***************************************************************************)
EXTENDS Integers, FiniteSetsExt

CONSTANTS
  N,            \* number of targets, probed in the order 1..N
  MaxAttempts,  \* MAX_RECONNECT_ATTEMPTS
  MaxPending,   \* connect() calls of one target under way; the code has no limit
  Rounds        \* health checks under way: one takes up to N * 5 s, one starts every 30 s

ASSUME ConnectionAssumption ==
  /\ N \in Nat \ {0}
  /\ MaxAttempts \in Nat
  /\ MaxPending \in Nat \ {0}

VARIABLES
  status,    \* state.status
  attempts,  \* state.reconnectAttempts
  armed,     \* whether the target's reconnect timer is armed
  pending,   \* connect() calls that await their probe
  probing,   \* the target a health check awaits, 0 if it is not under way
  up         \* whether the target accepts connections

vars == <<status, attempts, armed, pending, probing, up>>

Targets == 1..N
TargetStatuses == {"CONNECTED", "DISCONNECTED", "CONNECTING", "ERROR"}

\* The target a health check probes after target i: the next one with CONNECTED.
NextProbe(st, i) ==
  LET later == {t \in Targets : t > i /\ st[t] = "CONNECTED"}
  IN  IF later = {} THEN 0 ELSE Min(later)

GaveUp(t) == attempts[t] = MaxAttempts /\ ~armed[t] /\ pending[t] = 0

-----------------------------------------------------------------------------
(* Faulty variants.  A mutant check replaces an action or operator by one   *)
(* of these and expects a property to fail.                                 *)

\* The counter is increased before it is compared.
ScheduleReconnectOnceMore(t) ==
  IF attempts[t] > MaxAttempts
  THEN UNCHANGED <<attempts, armed>>
  ELSE /\ attempts' = [attempts EXCEPT ![t] = @ + 1]
       /\ armed' = [armed EXCEPT ![t] = TRUE]

\* scheduleReconnect() only after a connection, not after a failed attempt.
ScheduleReconnectOnce(t) ==
  IF attempts[t] >= 1
  THEN UNCHANGED <<attempts, armed>>
  ELSE /\ attempts' = [attempts EXCEPT ![t] = @ + 1]
       /\ armed' = [armed EXCEPT ![t] = TRUE]

\* The health check leaves the reconnect to the next connect().
ProbeFailsSilently(r) ==
  /\ probing[r] # 0
  /\ ~up[probing[r]]
  /\ status' = [status EXCEPT ![probing[r]] = "DISCONNECTED"]
  /\ probing' = [probing EXCEPT ![r] = NextProbe(status', @)]
  /\ UNCHANGED <<attempts, armed, pending, up>>

\* The health check returns after the first live target.
ProbeEndsRound(r) ==
  /\ probing[r] # 0
  /\ up[probing[r]]
  /\ probing' = [probing EXCEPT ![r] = 0]
  /\ UNCHANGED <<status, attempts, armed, pending, up>>
-----------------------------------------------------------------------------
\* initializeConnections() calls connect() for each target.
Init ==
  /\ status = [t \in Targets |-> "CONNECTING"]
  /\ attempts = [t \in Targets |-> 0]
  /\ armed = [t \in Targets |-> FALSE]
  /\ pending = [t \in Targets |-> 1]
  /\ probing = [r \in Rounds |-> 0]
  /\ up \in [Targets -> BOOLEAN]

\* connect() up to its await.
Connect(t) ==
  /\ pending[t] < MaxPending
  /\ status' = [status EXCEPT ![t] = "CONNECTING"]
  /\ pending' = [pending EXCEPT ![t] = @ + 1]

\* scheduleReconnect(): an armed timer is replaced; after MaxAttempts none is
\* set, and one that is armed stays so.
ScheduleReconnect(t) ==
  IF attempts[t] >= MaxAttempts
  THEN UNCHANGED <<attempts, armed>>
  ELSE /\ attempts' = [attempts EXCEPT ![t] = @ + 1]
       /\ armed' = [armed EXCEPT ![t] = TRUE]

\* connect() after its await.  A reconnect timer armed meanwhile stays armed.
ConnectSucceeds(t) ==
  /\ pending[t] > 0
  /\ up[t]
  /\ status' = [status EXCEPT ![t] = "CONNECTED"]
  /\ attempts' = [attempts EXCEPT ![t] = 0]
  /\ pending' = [pending EXCEPT ![t] = @ - 1]
  /\ UNCHANGED <<armed, probing, up>>

ConnectFails(t) ==
  /\ pending[t] > 0
  /\ ~up[t]
  /\ status' = [status EXCEPT ![t] = "ERROR"]
  /\ pending' = [pending EXCEPT ![t] = @ - 1]
  /\ ScheduleReconnect(t)
  /\ UNCHANGED <<probing, up>>

\* The reconnect timer fires.
TimerFires(t) ==
  /\ armed[t]
  /\ armed' = [armed EXCEPT ![t] = FALSE]
  /\ Connect(t)
  /\ UNCHANGED <<attempts, probing, up>>

\* reconnect(), POST :targetId/reconnect, whatever the status and the timer.
Reconnect(t) ==
  /\ attempts' = [attempts EXCEPT ![t] = 0]
  /\ Connect(t)
  /\ UNCHANGED <<armed, probing, up>>

\* The health check's interval, up to the first await.
StartRound(r) ==
  /\ probing[r] = 0
  /\ NextProbe(status, 0) # 0
  /\ probing' = [probing EXCEPT ![r] = NextProbe(status, 0)]
  /\ UNCHANGED <<status, attempts, armed, pending, up>>

\* The health check's probe ends; the check goes on to the next await.
ProbeSucceeds(r) ==
  /\ probing[r] # 0
  /\ up[probing[r]]
  /\ probing' = [probing EXCEPT ![r] = NextProbe(status, @)]
  /\ UNCHANGED <<status, attempts, armed, pending, up>>

ProbeFails(r) ==
  /\ probing[r] # 0
  /\ ~up[probing[r]]
  /\ status' = [status EXCEPT ![probing[r]] = "DISCONNECTED"]
  /\ probing' = [probing EXCEPT ![r] = NextProbe(status', @)]
  /\ ScheduleReconnect(probing[r])
  /\ UNCHANGED <<pending, up>>

\* A target goes down or comes back.
UpChanges(t) ==
  /\ up' = [up EXCEPT ![t] = ~@]
  /\ UNCHANGED <<status, attempts, armed, pending, probing>>

TargetStep(t) == ConnectSucceeds(t) \/ ConnectFails(t) \/ TimerFires(t)
RoundStep(r) == StartRound(r) \/ ProbeSucceeds(r) \/ ProbeFails(r)

Next ==
  \/ \E t \in Targets : TargetStep(t) \/ Reconnect(t) \/ UpChanges(t)
  \/ \E r \in Rounds : RoundStep(r)

Spec == Init /\ [][Next]_vars

\* A probe ends after 5 s at the latest, a timer fires after its delay at the
\* latest, the health check's interval every 30 s.  Only another failed attempt
\* puts a timer off, by replacing it.
ConnectionFairness ==
  /\ \A t \in Targets : WF_vars(ConnectSucceeds(t) \/ ConnectFails(t)) /\ WF_vars(TimerFires(t))
  /\ \A r \in Rounds : WF_vars(StartRound(r)) /\ WF_vars(ProbeSucceeds(r) \/ ProbeFails(r))

FairSpec == Spec /\ ConnectionFairness
-----------------------------------------------------------------------------
TypeOK ==
  /\ status \in [Targets -> TargetStatuses]
  /\ attempts \in [Targets -> 0..MaxAttempts]
  /\ armed \in [Targets -> BOOLEAN]
  /\ pending \in [Targets -> 0..MaxPending]
  /\ probing \in [Rounds -> 0..N]
  /\ up \in [Targets -> BOOLEAN]

\* A target that is not CONNECTED is being connected to, or will be, or has used
\* up its attempts; CONNECTING is never left behind by a finished connect().
Remembered(t) ==
  /\ status[t] = "CONNECTING" => pending[t] > 0
  /\ status[t] # "CONNECTED" => pending[t] > 0 \/ armed[t] \/ attempts[t] = MaxAttempts

\* No target is forgotten, however attempts, timers, manual reconnects and health
\* checks with a stale view of it overlap.
NeverForgotten == \A t \in Targets : Remembered(t)

\* A target that stays up is found CONNECTED again and again, unless the attempts
\* were used up before.
UpTargetReconnects ==
  \A t \in Targets : <>[]up[t] => []<>(status[t] = "CONNECTED" \/ GaveUp(t))

\* A target that stays down does not stay CONNECTED, wherever it is in the list.
DownTargetNoticed ==
  \A t \in Targets : <>[](~up[t]) => <>[](status[t] # "CONNECTED")
=============================================================================
