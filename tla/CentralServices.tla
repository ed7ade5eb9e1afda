-------------------------- MODULE CentralServices --------------------------
(***************************************************************************)
(* The services of the central relay that run beside each other in one     *)
(* process without sharing state: connections, data synchronisation, file  *)
(* transfer, the communication log and the settings.  How steps of two of  *)
(* them interleave changes nothing for either, so a behaviour of this      *)
(* module exercises one service while the others rest in a state without   *)
(* anything to do; its behaviours are those of the services together.  The *)
(* log's two kinds of readers, the feed's clients and those who page       *)
(* through it, change nothing for each other either and have their turns.  *)
(***************************************************************************)
EXTENDS RelayConnection, DataSync, FileTransfer, LogStream, RelayConfig

VARIABLE service   \* the service a behaviour exercises

centralVars == <<service, vars, syncVars, transferVars, logVars, configVars>>

Services == {"connections", "data-sync", "ftp", "logs", "log-pages", "config"}

\* Every target is given up.
ConnectionsRest ==
  /\ status = [t \in Targets |-> "ERROR"]
  /\ attempts = [t \in Targets |-> MaxAttempts]
  /\ armed = [t \in Targets |-> FALSE]
  /\ pending = [t \in Targets |-> 0]
  /\ probing = [r \in Rounds |-> 0]
  /\ up = [t \in Targets |-> FALSE]

CentralInit ==
  /\ service \in Services
  /\ IF service = "connections" THEN Init ELSE ConnectionsRest
  /\ SyncInit /\ (service # "data-sync" => ~simsConnected /\ direction = "SIMS_TO_CENTER")
  /\ FtpInit /\ LogInit /\ DefaultConfig

CentralNext ==
  /\ UNCHANGED service
  /\ \/ /\ service = "connections" /\ Next
        /\ UNCHANGED <<syncVars, transferVars, logVars, configVars>>
     \/ /\ service = "data-sync" /\ SyncNext
        /\ UNCHANGED <<vars, transferVars, logVars, configVars>>
     \/ /\ service = "ftp" /\ FtpNext
        /\ UNCHANGED <<vars, syncVars, logVars, configVars>>
     \/ /\ service = "logs" /\ LogNext /\ reader' = Finished /\ matching' = {}
        /\ UNCHANGED <<vars, syncVars, transferVars, configVars>>
     \/ /\ service = "log-pages" /\ LogNext /\ logClients' = {}
        /\ UNCHANGED <<vars, syncVars, transferVars, configVars>>
     \/ /\ service = "config" /\ ConfigNext
        /\ UNCHANGED <<vars, syncVars, transferVars, logVars>>

CentralSpec ==
  /\ CentralInit /\ [][CentralNext]_centralVars
  /\ ConnectionFairness /\ SyncFairness /\ FtpFairness

\* The variables of every service keep their types, and lists their limits.
CentralTypeOK ==
  /\ service \in Services
  /\ TypeOK /\ SyncTypeOK /\ FtpTypeOK /\ LogTypeOK /\ ConfigTypeOK
=============================================================================
