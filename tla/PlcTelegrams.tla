---------------------------- MODULE PlcTelegrams ----------------------------
(***************************************************************************)
(* Telegrams of the local relay's PLC channels                             *)
(* (apps/local-relay/src/plc-connection/plc-connection.service.ts): their  *)
(* counters and the log of the last ones.  The channels themselves are     *)
(* LocalRelay's.                                                           *)
(***************************************************************************)
EXTENDS Integers, Sequences, FiniteSets

CONSTANTS
  Channels,        \* names of the channels
  TelegramLogCap,  \* MAX_TELEGRAM_LOG (500)
  MaxTelegrams     \* bound of the model: telegrams of all channels

VARIABLES
  channel,         \* status of each channel
  telegramsSent, telegramsReceived,   \* counters of each channel
  telegramLog      \* the last telegrams, newest first

telegramVars == <<telegramsSent, telegramsReceived, telegramLog>>

TelegramInit ==
  /\ telegramsSent = [c \in Channels |-> 0]
  /\ telegramsReceived = [c \in Channels |-> 0]
  /\ telegramLog = <<>>

Smaller(a, b) == IF a <= b THEN a ELSE b

\* The telegrams of a direction, as the counters number them
Telegrams(count) == UNION {{c} \X (1 .. count[c]) : c \in Channels}
Total == Cardinality(Telegrams(telegramsSent)) + Cardinality(Telegrams(telegramsReceived))

RecordTelegram(c, direction) ==
  LET grown == <<[channel |-> c, direction |-> direction]>> \o telegramLog
  IN  telegramLog' = SubSeq(grown, 1, Smaller(Len(grown), TelegramLogCap))

\* sendTelegram(): refused unless the channel is CONNECTED.
SendTelegram(c) ==
  /\ Total < MaxTelegrams
  /\ channel[c] = "CONNECTED"
  /\ telegramsSent' = [telegramsSent EXCEPT ![c] = @ + 1]
  /\ RecordTelegram(c, "SEND")
  /\ UNCHANGED <<channel, telegramsReceived>>

\* receiveTelegram(): whatever the channel's status.
ReceiveTelegram(c) ==
  /\ Total < MaxTelegrams
  /\ telegramsReceived' = [telegramsReceived EXCEPT ![c] = @ + 1]
  /\ RecordTelegram(c, "RECEIVE")
  /\ UNCHANGED <<channel, telegramsSent>>

TelegramNext == \E c \in Channels : SendTelegram(c) \/ ReceiveTelegram(c)

-----------------------------------------------------------------------------
TelegramTypeOK ==
  /\ telegramsSent \in [Channels -> Nat] /\ telegramsReceived \in [Channels -> Nat]
  /\ telegramLog \in Seq([channel : Channels, direction : {"SEND", "RECEIVE"}])

\* The log holds the last telegrams of all channels up to its limit, and no
\* more of a channel than its counters say (plc-connection.service.ts:186).
TelegramsAccounted ==
  LET logged(c, d) == Cardinality({i \in DOMAIN telegramLog :
                        telegramLog[i] = [channel |-> c, direction |-> d]})
  IN  /\ Len(telegramLog) = Smaller(Total, TelegramLogCap)
      /\ \A c \in Channels : /\ logged(c, "SEND") <= telegramsSent[c]
                             /\ logged(c, "RECEIVE") <= telegramsReceived[c]
=============================================================================
