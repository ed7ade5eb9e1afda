------------------------------ MODULE DataSync ------------------------------
(***************************************************************************)
(* Synchronisation of one kind of record between SIMS and the centres      *)
(* (apps/central-relay/src/data-sync/data-sync.service.ts).  The five      *)
(* kinds share nothing but the history, so the module follows one, in      *)
(* either direction.  Jobs of one kind overlap: the interval does not wait *)
(* for the job it started before, and a manual one starts at any time.     *)
(*                                                                         *)
(* The records live in the databases of SIMS and of the centres, outside   *)
(* this code, which reaches them through four methods that are stubs; the  *)
(* model keeps their sequence numbers and lets each call throw at any      *)
(* time, or succeed, a call to SIMS only while SIMS is connected.          *)
(***************************************************************************)
EXTENDS Integers, Sequences, FiniteSetsExt, SequencesExt

CONSTANTS
  SyncJobs,       \* names for the jobs under way; the code has no limit
  BatchSize,      \* records per batch sent to SIMS (100)
  SyncHistoryCap, \* entries of the history kept (1000)
  MaxRecords      \* bound of the model: records that come into being

ASSUME SyncAssumption == BatchSize \in Nat \ {0} /\ SyncHistoryCap \in Nat /\ MaxRecords \in Nat

VARIABLES
  direction,      \* SyncDirection of the kind followed; never changes
  simsConnected,  \* isSimsConnected()
  records,        \* last sequence number in the source's database
  checkpoint,     \* checkpoints.get(key).lastSequenceNo
  job,            \* the jobs under way
  delivered,      \* history: records applied or sent
  failed,         \* history: records counted in some job's errorRecords
  syncHistory     \* finished jobs, newest first

syncVars == <<direction, simsConnected, records, checkpoint, job,
              delivered, failed, syncHistory>>

Directions == {"SIMS_TO_CENTER", "CENTER_TO_SIMS"}

\* A SyncJob with the checkpoint it has read.
Job == [phase : {"none", "fetching", "passing"}, from : Nat,
        totalRecords : Nat, processedRecords : Nat, errorRecords : Nat]

NoJob == [phase |-> "none", from |-> 0, totalRecords |-> 0,
          processedRecords |-> 0, errorRecords |-> 0]

HistoryEntry == [status : {"COMPLETED", "FAILED"},
                 totalRecords : Nat, processedRecords : Nat, errorRecords : Nat]

SyncInit ==
  /\ direction \in Directions
  /\ simsConnected \in BOOLEAN
  /\ records = 0 /\ checkpoint = 0
  /\ job = [j \in SyncJobs |-> NoJob]
  /\ delivered = {} /\ failed = {}
  /\ syncHistory = <<>>

-----------------------------------------------------------------------------
\* Faulty variants of operators and actions below, for the mutant checks.

\* Counted from the checkpoint of now, which another job may have moved.
MovedFromCurrent(d) ==
  IF direction = "SIMS_TO_CENTER"
    THEN checkpoint + d.totalRecords ELSE checkpoint + d.processedRecords

\* The test of isSimsConnected() is turned round.
IntervalRunsOffline(j) == ~simsConnected

-----------------------------------------------------------------------------
\* executeSyncJob() up to its first await; the checkpoint is read here.
ExecuteSyncJob(j) ==
  /\ job[j].phase = "none"
  /\ job' = [job EXCEPT ![j].phase = "fetching", ![j].from = checkpoint]
  /\ UNCHANGED <<direction, simsConnected, records, checkpoint,
                 delivered, failed, syncHistory>>

\* The interval does nothing while SIMS is not connected.
IntervalRuns(j) == simsConnected

ScheduledJob(j) == IntervalRuns(j) /\ ExecuteSyncJob(j)

\* POST trigger asks for no connection.
TriggerManualSync(j) == ExecuteSyncJob(j)

\* addToHistory()
AddToHistory(d, status) ==
  LET entry == [status |-> status, totalRecords |-> d.totalRecords,
                processedRecords |-> d.processedRecords,
                errorRecords |-> d.errorRecords]
      grown == <<entry>> \o syncHistory
  IN  syncHistory' = IF Len(grown) > SyncHistoryCap
                       THEN SubSeq(grown, 1, SyncHistoryCap) ELSE grown

\* The checkpoint after job d: counted from the one d has read, inbound by all
\* its records, outbound by those sent.
Moved(d) ==
  IF direction = "SIMS_TO_CENTER"
    THEN IF d.totalRecords > 0 THEN d.from + d.totalRecords ELSE checkpoint
    ELSE IF d.processedRecords > 0 THEN d.from + d.processedRecords ELSE checkpoint

\* Job j goes on as d: it ends with the last of its records.
Proceed(j, d) ==
  IF d.processedRecords + d.errorRecords = d.totalRecords
    THEN /\ checkpoint' = Moved(d)
         /\ AddToHistory(d, "COMPLETED")
         /\ job' = [job EXCEPT ![j] = NoJob]
    ELSE /\ job' = [job EXCEPT ![j] = d]
         /\ UNCHANGED <<checkpoint, syncHistory>>

\* fetchIncrementalChanges() or collectPendingOutboundData() returns what the
\* source holds after the checkpoint the job has read.
FetchSucceeds(j) ==
  /\ job[j].phase = "fetching"
  /\ direction = "SIMS_TO_CENTER" => simsConnected
  /\ Proceed(j, [job[j] EXCEPT !.phase = "passing",
                               !.totalRecords = records - job[j].from])
  /\ UNCHANGED <<direction, simsConnected, records, delivered, failed>>

\* The fetch throws: the job is an ERROR and the checkpoint stays.
FetchFails(j) ==
  /\ job[j].phase = "fetching"
  /\ AddToHistory(job[j], "FAILED")
  /\ job' = [job EXCEPT ![j] = NoJob]
  /\ UNCHANGED <<direction, simsConnected, records, checkpoint, delivered, failed>>

\* What job d passes on next: one change, or the next batch.
NextBatch(d) ==
  LET tried == d.processedRecords + d.errorRecords
      n == IF direction = "SIMS_TO_CENTER" THEN 1
           ELSE Min({BatchSize, d.totalRecords - tried})
  IN  d.from + tried + 1 .. d.from + tried + n

\* resolveConflictAndApply() or sendBatchToSIMS() succeeds.
BatchSucceeds(j) ==
  LET batch == NextBatch(job[j]) IN
  /\ job[j].phase = "passing"
  /\ direction = "CENTER_TO_SIMS" => simsConnected
  /\ delivered' = delivered \cup batch
  /\ Proceed(j, [job[j] EXCEPT !.processedRecords = @ + Cardinality(batch)])
  /\ UNCHANGED <<direction, simsConnected, records, failed>>

\* It throws: the records are counted as errors and the loop goes on.
BatchFails(j) ==
  LET batch == NextBatch(job[j]) IN
  /\ job[j].phase = "passing"
  /\ failed' = failed \cup batch
  /\ Proceed(j, [job[j] EXCEPT !.errorRecords = @ + Cardinality(batch)])
  /\ UNCHANGED <<direction, simsConnected, records, delivered>>

\* A record comes into being at the source.
RecordArrives ==
  /\ records < MaxRecords
  /\ records' = records + 1
  /\ UNCHANGED <<direction, simsConnected, checkpoint, job,
                 delivered, failed, syncHistory>>

SimsChanges ==
  /\ simsConnected' = ~simsConnected
  /\ UNCHANGED <<direction, records, checkpoint, job, delivered, failed, syncHistory>>

JobStep(j) == FetchSucceeds(j) \/ FetchFails(j) \/ BatchSucceeds(j) \/ BatchFails(j)

SyncNext ==
  \/ \E j \in SyncJobs : ScheduledJob(j) \/ TriggerManualSync(j) \/ JobStep(j)
  \/ RecordArrives \/ SimsChanges

SyncSpec == SyncInit /\ [][SyncNext]_syncVars

\* The interval keeps firing, every awaited call returns or throws, and of the fetches
\* that are made again and again while they can succeed some do.
SyncFairness ==
  /\ WF_syncVars(\E j \in SyncJobs : ScheduledJob(j))
  /\ \A j \in SyncJobs : WF_syncVars(JobStep(j))
  /\ SF_syncVars(\E j \in SyncJobs : FetchSucceeds(j))

-----------------------------------------------------------------------------
SyncTypeOK ==
  /\ direction \in Directions /\ simsConnected \in BOOLEAN
  /\ records \in Nat /\ checkpoint \in 0 .. records
  /\ job \in [SyncJobs -> Job]
  /\ delivered \subseteq 1 .. records /\ failed \subseteq 1 .. records
  /\ syncHistory \in Seq(HistoryEntry) /\ Len(syncHistory) <= SyncHistoryCap

\* What the checkpoint has passed is delivered or was counted as an error,
\* although overlapping jobs write checkpoints they computed from old ones and
\* failed batches between good ones shift it (data-sync.service.ts:200, 236).
CheckpointCovers == 1 .. checkpoint \subseteq delivered \cup failed

\* While SIMS stays connected and not every fetch throws, every record is tried in the
\* end, although jobs fail and a slow one may set the checkpoint back
\* (data-sync.service.ts:108, 322).
EveryRecordTried ==
  <>[]simsConnected =>
    \A n \in 1 .. MaxRecords : records >= n ~> n \in delivered \cup failed
=============================================================================
