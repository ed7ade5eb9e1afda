----------------------------- MODULE LogStream -----------------------------
(***************************************************************************)
(* The central relay's communication log and its live feed                 *)
(* (apps/central-relay/src/comm-log/comm-log.service.ts,                   *)
(* gateway/logs.gateway.ts).  A client gets the latest entries when it     *)
(* connects; a timer sends all clients the entries since the last one it   *)
(* sent, looking back a fixed number of them.  Another client reads the    *)
(* entries that match a query page by page while more are logged.          *)
(***************************************************************************)
EXTENDS Integers, Sequences, SequencesExt

CONSTANTS
  LogClients,   \* clients of /ws/logs
  LogCap,       \* MAX_LOG_ENTRIES (100000)
  OnConnect,    \* entries sent to a new client (20)
  LookBack,     \* entries the broadcast looks at (10)
  PageSize,     \* limit of a query (50)
  MaxLogs       \* bound of the model: entries ever logged

\* A new client gets at least what a broadcast looks at (20 and 10).
ASSUME LogAssumption ==
  /\ {LogCap, OnConnect, LookBack, MaxLogs} \subseteq Nat /\ PageSize \in Nat \ {0}
  /\ LookBack <= OnConnect

VARIABLES
  logs,         \* ids of the entries kept, newest first
  logCounter,   \* id of the last entry
  logClients,   \* the clients connected
  lastLogId,    \* the newest entry broadcast, 0 for none
  received,     \* history: what each client has received since it connected
  matching,     \* entries that match the reader's query
  reader        \* its next offset, what it has seen, and what there was when it began

logVars == <<logs, logCounter, logClients, lastLogId, received, matching, reader>>

GetRecentLogs(count) == SubSeq(logs, 1, IF Len(logs) < count THEN Len(logs) ELSE count)

\* No reader is on its way.
Finished == [offset |-> 0, seen |-> {}, due |-> {}, reading |-> FALSE]

LogInit ==
  /\ logs = <<>> /\ logCounter = 0
  /\ logClients = {} /\ lastLogId = 0
  /\ received = [c \in LogClients |-> {}]
  /\ matching = {} /\ reader = Finished

-----------------------------------------------------------------------------
\* Faulty variant, for the mutant checks: the newest entry only is sent.
NewestOnly == IF GetRecentLogs(LookBack)[1] = lastLogId THEN {} ELSE {GetRecentLogs(LookBack)[1]}
-----------------------------------------------------------------------------
\* log()
Log ==
  LET grown == <<logCounter + 1>> \o logs IN
  /\ logCounter < MaxLogs
  /\ logCounter' = logCounter + 1
  /\ matching' \in {matching, matching \cup {logCounter + 1}}
  /\ logs' = IF Len(grown) > LogCap THEN SubSeq(grown, 1, LogCap) ELSE grown
  /\ UNCHANGED <<logClients, lastLogId, received, reader>>

\* cleanupExpiredLogs() drops the oldest entries, those of over 60 days.
CleanupExpiredLogs(kept) ==
  /\ logs' = SubSeq(logs, 1, kept)
  /\ UNCHANGED <<logCounter, logClients, lastLogId, received, matching, reader>>

\* handleConnection() of the logs gateway.
Greeting == ToSet(GetRecentLogs(OnConnect))

HandleConnection(c) ==
  /\ c \notin logClients
  /\ logClients' = logClients \cup {c}
  /\ received' = [received EXCEPT ![c] = Greeting]
  /\ UNCHANGED <<logs, logCounter, lastLogId, matching, reader>>

HandleDisconnect(c) ==
  /\ c \in logClients
  /\ logClients' = logClients \ {c}
  /\ received' = [received EXCEPT ![c] = {}]
  /\ UNCHANGED <<logs, logCounter, lastLogId, matching, reader>>

\* The entries down to the last one sent, all LookBack of them if it is further back.
NewLogs ==
  LET recent == GetRecentLogs(LookBack) IN
  {recent[i] : i \in {k \in DOMAIN recent : \A h \in 1 .. k : recent[h] # lastLogId}}

\* broadcastNewLogs(): nothing is sent, or noted, while no client is there.
BroadcastNewLogs ==
  /\ logClients # {} /\ logs # <<>>
  /\ logs[1] # lastLogId
  /\ lastLogId' = logs[1]
  /\ received' = [c \in LogClients |->
                    IF c \in logClients THEN received[c] \cup NewLogs ELSE received[c]]
  /\ UNCHANGED <<logs, logCounter, logClients, matching, reader>>

\* getLogs(): of the entries that match, those with at least offset newer ones
\* before them and fewer than offset + limit.
Matches == ToSet(logs) \cap matching
Newer(id) == {n \in Matches : n > id}
GetLogs(offset, limit) ==
  {id \in Matches : Cardinality(Newer(id)) \in offset .. offset + limit - 1}

\* A reader begins with the first page and ends with the first short one.
ReadPage ==
  LET page == GetLogs(reader.offset, PageSize) IN
  /\ reader' = [offset |-> reader.offset + PageSize,
                seen |-> reader.seen \cup page,
                due |-> IF reader.reading THEN reader.due ELSE Matches,
                reading |-> Cardinality(page) = PageSize]
  /\ UNCHANGED <<logs, logCounter, logClients, lastLogId, received, matching>>

NextReader ==
  /\ ~reader.reading
  /\ reader' = Finished
  /\ UNCHANGED <<logs, logCounter, logClients, lastLogId, received, matching>>

LogNext ==
  \/ Log \/ BroadcastNewLogs
  \/ (reader.reading \/ reader = Finished) /\ ReadPage
  \/ NextReader
  \/ \E kept \in 0 .. Len(logs) : CleanupExpiredLogs(kept)
  \/ \E c \in LogClients : HandleConnection(c) \/ HandleDisconnect(c)

LogSpec == LogInit /\ [][LogNext]_logVars

-----------------------------------------------------------------------------
LogTypeOK ==
  /\ logs \in Seq(1 .. logCounter) /\ Len(logs) <= LogCap
  /\ logCounter \in Nat /\ lastLogId \in 0 .. logCounter
  /\ logClients \subseteq LogClients
  /\ received \in [LogClients -> SUBSET (1 .. logCounter)]
  /\ matching \cup reader.seen \cup reader.due \subseteq 1 .. logCounter

\* A broadcast leaves every client, whenever it has connected, with all of the
\* latest LookBack entries: only a burst of more than that between two
\* broadcasts leaves a gap (logs.gateway.ts:45, 55-69).
BroadcastCatchesUp ==
  [][lastLogId' # lastLogId =>
       \A c \in logClients : ToSet(GetRecentLogs(LookBack)) \subseteq received'[c]]_logVars

\* A reader that has come to its last page has seen every entry that matched when
\* it began and is still kept, whatever was logged or cleaned up between its pages:
\* entries move on in the list only (comm-log.service.ts:141-146).
PagesMissNothing == ~reader.reading => reader.due \cap ToSet(logs) \subseteq reader.seen

\* Neither the feed nor the pages leave a gap.
LogReadersMissNothing == BroadcastCatchesUp /\ []PagesMissNothing
=============================================================================
