----------------------------- MODULE AlarmBoard -----------------------------
(***************************************************************************)
(* Alarms of the standard software                                         *)
(* (apps/standard-sw/src/monitoring/monitoring.service.ts) and the board   *)
(* of a client that follows their stream                                   *)
(* (gateway/alarm-stream.gateway.ts) from the start.                       *)
(***************************************************************************)
EXTENDS Integers, Sequences, FiniteSets

CONSTANTS
  AlarmLevels,     \* INFO, WARNING, CRITICAL
  MaxBoardAlarms   \* bound of the model: alarms ever raised

ASSUME BoardAssumption == {"WARNING", "INFO"} \subseteq AlarmLevels

VARIABLES
  boardAlarms,     \* severity and status of each alarm, by number; none is dropped
  board            \* the alarms the client shows

boardVars == <<boardAlarms, board>>

BoardAlarm == [severity : AlarmLevels, status : {"ACTIVE", "ACKNOWLEDGED", "RESOLVED"}]

\* initializeSampleAlarms(): a WARNING and an INFO.
BoardInit ==
  /\ boardAlarms = <<[severity |-> "WARNING", status |-> "ACTIVE"],
                     [severity |-> "INFO", status |-> "ACTIVE"]>>
  /\ board = {1, 2}

-----------------------------------------------------------------------------
\* The gateway turns a listener's call into alarm or, once RESOLVED, alarm-clear.
Notify(id, status) ==
  board' = IF status = "RESOLVED" THEN board \ {id} ELSE board \cup {id}

BoardRaise(severity) ==
  /\ Len(boardAlarms) < MaxBoardAlarms
  /\ boardAlarms' = Append(boardAlarms, [severity |-> severity, status |-> "ACTIVE"])
  /\ Notify(Len(boardAlarms) + 1, "ACTIVE")

\* acknowledgeAlarm() tells no listener.
AcknowledgeAlarm(id) ==
  /\ boardAlarms[id].status = "ACTIVE"
  /\ boardAlarms' = [boardAlarms EXCEPT ![id].status = "ACKNOWLEDGED"]
  /\ UNCHANGED board

ResolveAlarm(id) ==
  /\ boardAlarms[id].status # "RESOLVED"
  /\ boardAlarms' = [boardAlarms EXCEPT ![id].status = "RESOLVED"]
  /\ Notify(id, "RESOLVED")

BoardNext ==
  \/ \E severity \in AlarmLevels : BoardRaise(severity)
  \/ \E id \in DOMAIN boardAlarms : AcknowledgeAlarm(id) \/ ResolveAlarm(id)

BoardSpec == BoardInit /\ [][BoardNext]_boardVars

-----------------------------------------------------------------------------
BoardTypeOK == boardAlarms \in Seq(BoardAlarm) /\ board \subseteq DOMAIN boardAlarms

\* The client shows exactly the alarms that are not RESOLVED, in whatever order
\* they are acknowledged and resolved (monitoring.service.ts:188-226).
BoardTruthful == board = {id \in DOMAIN boardAlarms : boardAlarms[id].status # "RESOLVED"}
=============================================================================
