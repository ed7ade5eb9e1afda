---------------------------- MODULE ChannelServer ----------------------------
(***************************************************************************)
(* The sending side of a channel of the sorter's TCP server                *)
(* (apps/plc-simulator/src/tcp-server/tcp-server.service.ts), with the     *)
(* heartbeat as the telegrams sent (heartbeat.service.ts).  Clients come   *)
(* and go; a socket that failed is destroyed at once and leaves the list   *)
(* of clients only at its 'close' event.  TelegramStream has the receiving *)
(* side; here a telegram received is counted and logged.  All channels     *)
(* share one log.                                                          *)
(***************************************************************************)
EXTENDS Integers, SequencesExt

CONSTANTS
  TcpClients,
  MaxHeartbeatNo,  \* last number before the heartbeat starts again (65535)
  TcpLogCap,       \* MAX_LOG_SIZE (1000)
  MaxFrames        \* bound of the model: telegrams sent, and others logged

ASSUME ServerAssumption == MaxHeartbeatNo \in Nat \ {0} /\ {TcpLogCap, MaxFrames} \subseteq Nat

VARIABLES
  socket,       \* of each client: in channel.clients unless "closed"
  got,          \* history: heartbeat numbers written to the socket
  joined,       \* history: the number of telegrams sent before it connected
  heartbeatNo,
  tcpStats,     \* channel.stats: telegramsSent, telegramsReceived
  tcpLog,       \* telegramLog, newest first: direction and number, "OTHER" for
                \* an entry of another channel
  sends,        \* history: the heartbeat numbers sendToChannel() took
  others,       \* history: entries of the other channels
  listening     \* the server is in this.servers

serverVars == <<socket, got, joined, heartbeatNo, tcpStats, tcpLog, sends,
                others, listening>>

\* startAllServers()
ServerInit ==
  /\ socket = [c \in TcpClients |-> "closed"]
  /\ got = [c \in TcpClients |-> <<>>] /\ joined = [c \in TcpClients |-> 0]
  /\ heartbeatNo = 0 /\ tcpStats = [sent |-> 0, received |-> 0]
  /\ tcpLog = <<>> /\ sends = <<>> /\ others = 0 /\ listening = TRUE

ServerClients == {c \in TcpClients : socket[c] # "closed"}

-----------------------------------------------------------------------------
\* handleConnection()
AcceptClient(c) ==
  /\ listening /\ socket[c] = "closed"
  /\ socket' = [socket EXCEPT ![c] = "open"]
  /\ got' = [got EXCEPT ![c] = <<>>]
  /\ joined' = [joined EXCEPT ![c] = Len(sends)]
  /\ UNCHANGED <<heartbeatNo, tcpStats, tcpLog, sends, others, listening>>

\* The 'error' event: it is logged only, and the socket destroyed.
SocketFails(c) ==
  /\ socket[c] = "open"
  /\ socket' = [socket EXCEPT ![c] = "destroyed"]
  /\ UNCHANGED <<got, joined, heartbeatNo, tcpStats, tcpLog, sends, others, listening>>

\* The 'close' event, of a failed socket or of one the client has ended.
SocketCloses(c) ==
  /\ socket[c] # "closed"
  /\ socket' = [socket EXCEPT ![c] = "closed"]
  /\ UNCHANGED <<got, joined, heartbeatNo, tcpStats, tcpLog, sends, others, listening>>

\* addLog()
Logged(entry) == SubSeq(<<entry>> \o tcpLog, 1, Min({TcpLogCap, Len(tcpLog) + 1}))

\* Faulty variant, for the mutant checks: a failed socket ends the loop.
WrittenUntilFailure(c) ==
  /\ socket[c] = "open" /\ \A d \in TcpClients : socket[d] # "destroyed"

\* The clients the loop writes to.
Written(c) == socket[c] = "open"

\* sendToChannel(): nothing at all without a client in the list, destroyed or not.
SendToChannel(no) ==
  IF ~listening \/ ServerClients = {}
    THEN UNCHANGED <<socket, got, joined, tcpStats, tcpLog, sends, others, listening>>
    ELSE /\ got' = [c \in TcpClients |-> IF Written(c) THEN Append(got[c], no) ELSE got[c]]
         /\ tcpStats' = [tcpStats EXCEPT !.sent = @ + 1]
         /\ tcpLog' = Logged([direction |-> "TX", no |-> no])
         /\ sends' = Append(sends, no)
         /\ UNCHANGED <<socket, joined, others, listening>>

\* sendHeartbeat(): the number goes on whether or not anybody is there.
SendHeartbeat ==
  LET no == IF heartbeatNo + 1 > MaxHeartbeatNo THEN 1 ELSE heartbeatNo + 1 IN
  /\ Len(sends) < MaxFrames
  /\ heartbeatNo' = no
  /\ SendToChannel(no)

\* reset() of the heartbeat
ResetHeartbeat ==
  /\ heartbeatNo' = 0
  /\ UNCHANGED <<socket, got, joined, tcpStats, tcpLog, sends, others, listening>>

\* handleData() with a telegram that parses, from a client in the list
ReceiveFrame(c) ==
  /\ socket[c] = "open" /\ tcpStats.received + others < MaxFrames
  /\ tcpStats' = [tcpStats EXCEPT !.received = @ + 1]
  /\ tcpLog' = Logged([direction |-> "RX", no |-> 0])
  /\ UNCHANGED <<socket, got, joined, heartbeatNo, sends, others, listening>>

\* addLog() with a telegram of another channel
OtherChannelLogs ==
  /\ listening /\ tcpStats.received + others < MaxFrames
  /\ others' = others + 1
  /\ tcpLog' = Logged([direction |-> "OTHER", no |-> 0])
  /\ UNCHANGED <<socket, got, joined, heartbeatNo, tcpStats, sends, listening>>

\* stopAllServers()
StopAllServers ==
  /\ listening
  /\ listening' = FALSE
  /\ socket' = [c \in TcpClients |-> IF socket[c] = "open" THEN "destroyed" ELSE socket[c]]
  /\ UNCHANGED <<got, joined, heartbeatNo, tcpStats, tcpLog, sends, others>>

ServerNext ==
  \/ SendHeartbeat \/ ResetHeartbeat \/ OtherChannelLogs \/ StopAllServers
  \/ \E c \in TcpClients :
       AcceptClient(c) \/ SocketFails(c) \/ SocketCloses(c) \/ ReceiveFrame(c)

ServerSpec == ServerInit /\ [][ServerNext]_serverVars

-----------------------------------------------------------------------------
ServerTypeOK ==
  /\ socket \in [TcpClients -> {"open", "destroyed", "closed"}]
  /\ heartbeatNo \in 0 .. MaxHeartbeatNo
  /\ tcpStats \in [sent : 0 .. MaxFrames, received : 0 .. MaxFrames]
  /\ others \in 0 .. MaxFrames
  /\ Len(tcpLog) <= TcpLogCap

\* The entries of telegrams sent among the newest n of the log
Sent(n) == {i \in 1 .. n : tcpLog[i].direction = "TX"}

\* Every client that stays got all that was sent since it connected, once and in
\* order, whichever others failed or left meanwhile; the log shows the newest of
\* what the counters of the channels count (tcp-server.service.ts:162, 168, 203).
ServerTruthful ==
  /\ \A c \in TcpClients :
       socket[c] = "open" => got[c] = SubSeq(sends, joined[c] + 1, Len(sends))
  /\ tcpStats.sent = Len(sends)
  /\ Len(tcpLog) = Min({TcpLogCap, tcpStats.sent + tcpStats.received + others})
  /\ \A i \in Sent(Len(tcpLog)) :
       tcpLog[i].no = sends[Len(sends) - Cardinality(Sent(i - 1))]
=============================================================================
