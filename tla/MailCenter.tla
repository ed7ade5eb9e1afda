----------------------------- MODULE MailCenter -----------------------------
(***************************************************************************)
(* The services of a mail centre: the local relay and its readers and PLC  *)
(* telegrams, its inspections and tests, the services of the standard      *)
(* software, the parcel ids, the data lifecycle scheduler, and the server  *)
(* the sorter talks through.  But for the relay's channels they share no   *)
(* state, so how steps of two of them interleave changes nothing for       *)
(* either: a behaviour exercises one service while the others rest as they *)
(* start, and the behaviours are those of the services together.           *)
(***************************************************************************)
EXTENDS LocalRelay, Sorting, Keying, ChuteDisplay, AlarmBoard, Readers,
        PidGenerator, BatchReport, DataLifecycle, ChannelServer,
        Inspections, InfoLink, SimulatorRules

CONSTANTS TelegramLogCap, MaxTelegrams   \* of PlcTelegrams

ASSUME TelegramAssumption == {TelegramLogCap, MaxTelegrams} \subseteq Nat

VARIABLES telegramsSent, telegramsReceived, telegramLog,
          service   \* the service a behaviour exercises

Plc == INSTANCE PlcTelegrams

plcVars == <<telegramsSent, telegramsReceived, telegramLog>>
mailVars == <<vars, sortingVars, keyingVars, display, boardVars, readerVars,
              pidVars, reportVars, lifecycleVars, plcVars,
              serverVars, inspectionVars, linkVars, simulatorVars, service>>

MailServices == {"relay", "telegrams", "sorting", "keying", "display", "alarms",
                 "readers", "pids", "reports", "lifecycle",
                 "server", "inspections", "info-link", "simulator"}

\* A service at rest starts in one of its initial states.
Resting(s, one) == service # s => one

MailInit ==
  /\ service \in MailServices
  /\ Init /\ Resting("relay", equipment = [e \in Equipment |-> "STOPPED"])
  /\ SortingInit /\ KeyingInit /\ BoardInit /\ ReadersInit /\ PidInit /\ LifecycleInit
  /\ DisplayInit /\ Resting("display", \A c \in Displays : display[c].currentCount = 0)
  /\ ReportInit /\ Resting("reports", kind = "summary" /\ clock = 0)
  /\ Plc!TelegramInit /\ ServerInit /\ InspectionsInit /\ LinkInit
  /\ SimulatorInit

\* The channels change while telegrams go over them.
TelegramStep ==
  \/ Plc!TelegramNext /\ UNCHANGED vars
  \/ /\ \E c \in Channels : ConnectChannel(c) \/ DisconnectChannel(c)
     /\ UNCHANGED plcVars

RelayStep ==
  /\ service = "relay" /\ Next
  /\ UNCHANGED <<sortingVars, keyingVars, display, boardVars, readerVars, pidVars,
                 reportVars, lifecycleVars, plcVars,
                 serverVars, inspectionVars, linkVars, simulatorVars>>

PlcStep ==
  /\ service = "telegrams" /\ TelegramStep
  /\ UNCHANGED <<sortingVars, keyingVars, display, boardVars, readerVars, pidVars,
                 reportVars, lifecycleVars, serverVars, inspectionVars, linkVars, simulatorVars>>

SoftwareStep ==
  /\ \/ /\ service = "sorting" /\ SortingNext
        /\ UNCHANGED <<keyingVars, display, boardVars, linkVars>>
     \/ /\ service = "keying" /\ KeyingNext
        /\ UNCHANGED <<sortingVars, display, boardVars, linkVars>>
     \/ /\ service = "display" /\ DisplayNext
        /\ UNCHANGED <<sortingVars, keyingVars, boardVars, linkVars>>
     \/ /\ service = "alarms" /\ BoardNext
        /\ UNCHANGED <<sortingVars, keyingVars, display, linkVars>>
     \/ /\ service = "info-link" /\ LinkNext
        /\ UNCHANGED <<sortingVars, keyingVars, display, boardVars>>
  /\ UNCHANGED <<vars, readerVars, pidVars, reportVars, lifecycleVars, plcVars,
                 serverVars, inspectionVars, simulatorVars>>

OtherStep ==
  /\ \/ /\ service = "readers" /\ ReadersNext
        /\ UNCHANGED <<pidVars, reportVars, lifecycleVars, serverVars, inspectionVars,
                       simulatorVars>>
     \/ /\ service = "pids" /\ PidNext
        /\ UNCHANGED <<readerVars, reportVars, lifecycleVars, serverVars, inspectionVars,
                       simulatorVars>>
     \/ /\ service = "reports" /\ ReportNext
        /\ UNCHANGED <<readerVars, pidVars, lifecycleVars, serverVars, inspectionVars,
                       simulatorVars>>
     \/ /\ service = "lifecycle" /\ LifecycleNext
        /\ UNCHANGED <<readerVars, pidVars, reportVars, serverVars, inspectionVars,
                       simulatorVars>>
     \/ /\ service = "server" /\ ServerNext
        /\ UNCHANGED <<readerVars, pidVars, reportVars, lifecycleVars, inspectionVars,
                       simulatorVars>>
     \/ /\ service = "inspections" /\ InspectionsNext
        /\ UNCHANGED <<readerVars, pidVars, reportVars, lifecycleVars, serverVars,
                       simulatorVars>>
     \/ /\ service = "simulator" /\ SimulatorNext
        /\ UNCHANGED <<readerVars, pidVars, reportVars, lifecycleVars, serverVars,
                       inspectionVars>>
  /\ UNCHANGED <<vars, sortingVars, keyingVars, display, boardVars, plcVars, linkVars>>

MailNext == UNCHANGED service /\ (RelayStep \/ PlcStep \/ SoftwareStep \/ OtherStep)

MailSpec == MailInit /\ [][MailNext]_mailVars

-----------------------------------------------------------------------------
\* The variables of every service keep their types, and lists their limits.
MailTypeOK ==
  /\ service \in MailServices
  /\ TypeOK /\ SortingTypeOK /\ KeyingTypeOK /\ DisplayTypeOK /\ BoardTypeOK
  /\ ReadersTypeOK /\ PidTypeOK /\ ReportTypeOK /\ LifecycleTypeOK /\ Plc!TelegramTypeOK
  /\ ServerTypeOK /\ InspectionsTypeOK /\ LinkTypeOK /\ SimulatorTypeOK

\* Counters and the capped lists beside them tell the same of what was done: the
\* sorting engine's statistics and history, the keying stations' and their requests,
\* the readers' and the channels' and their logs (sorting.service.ts:191, 262,
\* keying.service.ts:142, ips.service.ts:102, plc-connection.service.ts:186).
AccountsAgree ==
  SortingAccounts /\ KeyingAccounts /\ ReadersTruthful /\ Plc!TelegramsAccounted

\* Who is connected has been told everything: the sorter's clients what was sent since
\* they came, whichever others failed, and the alarm stream's client every alarm that
\* is not resolved (tcp-server.service.ts:162, monitoring.service.ts:188-226).
ClientsServed == ServerTruthful /\ BoardTruthful

\* The screens of the local relay and of the displays agree with what happened: the
\* simulated items with the counter and with the rules they bear, the switch history
\* with the mode, fill rates and states with the counts (simulator.service.ts:51, 148,
\* 234, operation.service.ts:76, chute-display.service.ts:63, 116).
ScreensTruthful ==
  ItemsConsecutive /\ ItemsFollowRules /\ HistoryIsChain /\ DisplayTruthful
=============================================================================
