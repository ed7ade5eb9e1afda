------------------------ MODULE CentralServicesProofs ------------------------
(***************************************************************************)
(* Proofs about the services of the central relay: connections, data       *)
(* synchronisation, file transfer, the log's live feed and the settings,   *)
(* each for every value of its constants, and the services together.       *)
(***************************************************************************)
EXTENDS CentralServices, WellFoundedInduction, FiniteSetTheorems, SequenceTheorems, TLAPS

(***************************************************************************)
(* Connections.  What the checks show on two targets, for any number of    *)
(* targets, attempts, and calls and health checks under way.               *)
(***************************************************************************)

\* A nonempty set of naturals has a minimum.
LEMMA MinOfNaturals ==
  ASSUME NEW S \in SUBSET Nat, S # {}
  PROVE  Min(S) \in S /\ \A x \in S : Min(S) <= x
<1>1. PICK m \in S : \A y \in S : ~ (<<y, m>> \in OpToRel(<, Nat))
  BY NatLessThanWellFounded, WFMin
<1>2. \A y \in S : ~ (y < m)
  BY <1>1, Zenon DEF OpToRel
<1>3. \A y \in S : m <= y
  BY <1>2
<1>4. QED BY <1>3 DEF Min

\* A health check's next probe is one of a target, or there is none.
LEMMA NextProbeType ==
  ASSUME NEW st, NEW i
  PROVE  NextProbe(st, i) \in 0..N
<1> DEFINE later == {t \in Targets : t > i /\ st[t] = "CONNECTED"}
<1>1. CASE later = {}
  BY <1>1, ConnectionAssumption DEF NextProbe, ConnectionAssumption
<1>2. CASE later # {}
  <2>1. later \in SUBSET Nat /\ later \subseteq 0..N
    BY DEF Targets
  <2>2. Min(later) \in 0..N
    BY <1>2, <2>1, MinOfNaturals
  <2>3. QED BY <1>2, <2>2 DEF NextProbe
<1>3. QED BY <1>1, <1>2

LEMMA TypeOKInit == Init => TypeOK
BY ConnectionAssumption DEF Init, TypeOK, ConnectionAssumption, Targets, TargetStatuses

\* scheduleReconnect() counts up to MaxAttempts and not beyond.
LEMMA ScheduleReconnectType ==
  ASSUME TypeOK, NEW t \in Targets, ScheduleReconnect(t)
  PROVE  attempts' \in [Targets -> 0..MaxAttempts] /\ armed' \in [Targets -> BOOLEAN]
<1>1. CASE attempts[t] >= MaxAttempts
  BY <1>1 DEF TypeOK, ScheduleReconnect
<1>2. CASE ~ (attempts[t] >= MaxAttempts)
  <2>1. attempts[t] + 1 \in 0..MaxAttempts
    BY <1>2, ConnectionAssumption DEF TypeOK, ConnectionAssumption
  <2>2. QED BY <1>2, <2>1 DEF TypeOK, ScheduleReconnect
<1>3. QED BY <1>1, <1>2

LEMMA TypeOKNext == TypeOK /\ [Next]_vars => TypeOK'
<1> SUFFICES ASSUME TypeOK, [Next]_vars
             PROVE  TypeOK'
  OBVIOUS
<1>a. /\ N \in Nat \ {0} /\ MaxAttempts \in Nat /\ MaxPending \in Nat \ {0}
  BY ConnectionAssumption DEF ConnectionAssumption
<1>1. ASSUME NEW t \in Targets, ConnectSucceeds(t)
      PROVE  TypeOK'
  <2>1. pending[t] - 1 \in 0..MaxPending
    BY <1>a, <1>1 DEF ConnectSucceeds, TypeOK
  <2>2. QED BY <1>a, <1>1, <2>1 DEF ConnectSucceeds, TypeOK, TargetStatuses
<1>2. ASSUME NEW t \in Targets, ConnectFails(t)
      PROVE  TypeOK'
  <2>1. pending[t] - 1 \in 0..MaxPending
    BY <1>a, <1>2 DEF ConnectFails, TypeOK
  <2>2. attempts' \in [Targets -> 0..MaxAttempts] /\ armed' \in [Targets -> BOOLEAN]
    BY <1>2, ScheduleReconnectType DEF ConnectFails
  <2>3. QED BY <1>2, <2>1, <2>2 DEF ConnectFails, TypeOK, TargetStatuses
<1>3. ASSUME NEW t \in Targets, TimerFires(t) \/ Reconnect(t)
      PROVE  TypeOK'
  <2>1. pending[t] + 1 \in 0..MaxPending
    BY <1>a, <1>3 DEF TimerFires, Reconnect, Connect, TypeOK
  <2>2. /\ pending' \in [Targets -> 0..MaxPending]
        /\ status' \in [Targets -> TargetStatuses]
    BY <1>3, <2>1 DEF TimerFires, Reconnect, Connect, TypeOK, TargetStatuses
  <2>3. /\ attempts' \in [Targets -> 0..MaxAttempts]
        /\ armed' \in [Targets -> BOOLEAN]
        /\ probing' = probing /\ up' = up
    <3>1. CASE TimerFires(t)
      BY <3>1 DEF TimerFires, TypeOK
    <3>2. CASE Reconnect(t)
      BY <1>a, <3>2 DEF Reconnect, TypeOK
    <3>3. QED BY <1>3, <3>1, <3>2
  <2>4. QED BY <2>2, <2>3 DEF TypeOK
<1>4. ASSUME NEW t \in Targets, UpChanges(t)
      PROVE  TypeOK'
  BY <1>4 DEF UpChanges, TypeOK
<1>5. ASSUME NEW r \in Rounds, StartRound(r)
      PROVE  TypeOK'
  <2>1. NextProbe(status, 0) \in 0..N
    BY NextProbeType
  <2>2. QED BY <1>5, <2>1 DEF StartRound, TypeOK
<1>6. ASSUME NEW r \in Rounds, ProbeSucceeds(r)
      PROVE  TypeOK'
  <2>1. NextProbe(status, probing[r]) \in 0..N
    BY NextProbeType
  <2>2. QED BY <1>6, <2>1 DEF ProbeSucceeds, TypeOK
<1>7. ASSUME NEW r \in Rounds, ProbeFails(r)
      PROVE  TypeOK'
  <2>1. NextProbe(status', probing[r]) \in 0..N
    BY NextProbeType
  <2>2. probing[r] \in Targets
    BY <1>a, <1>7 DEF ProbeFails, TypeOK, Targets
  <2>3. attempts' \in [Targets -> 0..MaxAttempts] /\ armed' \in [Targets -> BOOLEAN]
    BY <1>7, <2>2, ScheduleReconnectType DEF ProbeFails
  <2>4. QED BY <1>7, <2>1, <2>2, <2>3 DEF ProbeFails, TypeOK, TargetStatuses
<1>8. CASE UNCHANGED vars
  BY <1>8 DEF vars, TypeOK
<1>9. QED BY <1>1, <1>2, <1>3, <1>4, <1>5, <1>6, <1>7, <1>8 DEF Next, TargetStep, RoundStep

\* Every variable keeps its type; in particular no target is tried more than
\* MaxAttempts times in a row without success or an operator's reconnect.
THEOREM ConnectionTypeCorrect == Spec => []TypeOK
BY TypeOKInit, TypeOKNext, PTL DEF Spec

\* After scheduleReconnect() a timer is armed or the attempts are used up.
LEMMA ScheduleReconnectLeavesTimer ==
  ASSUME TypeOK, NEW t \in Targets, ScheduleReconnect(t)
  PROVE  /\ armed'[t] \/ attempts'[t] = MaxAttempts
         /\ \A o \in Targets \ {t} : armed'[o] = armed[o] /\ attempts'[o] = attempts[o]
BY ConnectionAssumption DEF TypeOK, ScheduleReconnect, ConnectionAssumption

LEMMA NeverForgottenNext == TypeOK /\ NeverForgotten /\ [Next]_vars => NeverForgotten'
<1> SUFFICES ASSUME TypeOK, NeverForgotten, [Next]_vars, NEW o \in Targets
             PROVE  Remembered(o)'
  BY DEF NeverForgotten
<1>a. Remembered(o)
  BY DEF NeverForgotten
<1>b. pending[o] \in 0..MaxPending /\ MaxPending \in Nat /\ MaxAttempts \in Nat
  BY ConnectionAssumption DEF TypeOK, ConnectionAssumption
<1>1. ASSUME NEW t \in Targets, ConnectSucceeds(t)
      PROVE  Remembered(o)'
  BY <1>a, <1>b, <1>1 DEF ConnectSucceeds, TypeOK, Remembered
<1>2. ASSUME NEW t \in Targets, ConnectFails(t)
      PROVE  Remembered(o)'
  <2>1. CASE o = t
    BY <1>2, <2>1, ScheduleReconnectLeavesTimer DEF ConnectFails, TypeOK, Remembered
  <2>2. CASE o # t
    BY <1>a, <1>2, <2>2, ScheduleReconnectLeavesTimer DEF ConnectFails, TypeOK, Remembered
  <2>3. QED BY <2>1, <2>2
<1>3. ASSUME NEW t \in Targets, TimerFires(t) \/ Reconnect(t)
      PROVE  Remembered(o)'
  <2>1. CASE o = t
    <3>1. pending'[o] > 0
      BY <1>b, <1>3, <2>1 DEF TimerFires, Reconnect, Connect, TypeOK
    <3>2. QED BY <3>1 DEF Remembered
  <2>2. CASE o # t
    BY <1>a, <1>3, <2>2 DEF TimerFires, Reconnect, Connect, TypeOK, Remembered
  <2>3. QED BY <2>1, <2>2
<1>4. ASSUME NEW r \in Rounds, ProbeFails(r)
      PROVE  Remembered(o)'
  <2>1. probing[r] \in Targets
    BY <1>4, ConnectionAssumption DEF ProbeFails, TypeOK, Targets, ConnectionAssumption
  <2>2. CASE o = probing[r]
    BY <1>4, <2>1, <2>2, ScheduleReconnectLeavesTimer DEF ProbeFails, TypeOK, Remembered
  <2>3. CASE o # probing[r]
    BY <1>a, <1>4, <2>1, <2>3, ScheduleReconnectLeavesTimer DEF ProbeFails, TypeOK, Remembered
  <2>4. QED BY <2>2, <2>3
<1>5. ASSUME UNCHANGED <<status, attempts, armed, pending>>
      PROVE  Remembered(o)'
  BY <1>a, <1>5 DEF Remembered
<1>6. QED
  BY <1>1, <1>2, <1>3, <1>4, <1>5
     DEF Next, TargetStep, RoundStep, UpChanges, StartRound, ProbeSucceeds, vars

\* Any number of overlapping attempts, timers, reconnects and health checks leave
\* every target connected, under way to it, or out of attempts.
THEOREM NoTargetForgotten == Spec => []NeverForgotten
<1>1. Init => NeverForgotten
  BY DEF Init, NeverForgotten, Remembered
<1>2. QED BY TypeOKInit, TypeOKNext, NeverForgottenNext, <1>1, PTL DEF Spec

(***************************************************************************)
(* Data synchronisation.                                                   *)
(***************************************************************************)

Done == delivered \cup failed

\* What a job knows is true: all that lies before the checkpoint it has read, and
\* all it has tried since, is done, even if the checkpoint of now is another.
JobSound(d) ==
  /\ d.phase # "none" => d.from <= records /\ 1 .. d.from \subseteq Done
  /\ d.phase # "passing" =>
       d.totalRecords = 0 /\ d.processedRecords = 0 /\ d.errorRecords = 0
  /\ d.phase = "passing" =>
       /\ d.from + d.totalRecords <= records
       /\ d.processedRecords + d.errorRecords < d.totalRecords
       /\ d.from + 1 .. d.from + d.processedRecords + d.errorRecords \subseteq Done

\* The inductive invariant
SyncInv == SyncTypeOK /\ CheckpointCovers /\ \A j \in SyncJobs : JobSound(job[j])

-----------------------------------------------------------------------------
\* The smaller of two numbers.
LEMMA MinOfTwo ==
  ASSUME NEW a \in Int, NEW b \in Int
  PROVE  Min({a, b}) \in {a, b} /\ Min({a, b}) <= a /\ Min({a, b}) <= b
<1>1. \E x \in {a, b} : \A y \in {a, b} : x <= y
  <2>1. CASE a <= b
    BY <2>1
  <2>2. CASE ~(a <= b)
    BY <2>2
  <2> QED BY <2>1, <2>2
<1> QED BY <1>1 DEF Min

\* A history stays one of entries and keeps its limit (data-sync.service.ts:290-312).
LEMMA HistoryGrows ==
  ASSUME SyncAssumption, SyncTypeOK, NEW d \in Job, NEW outcome \in {"COMPLETED", "FAILED"},
         AddToHistory(d, outcome)
  PROVE  syncHistory' \in Seq(HistoryEntry) /\ Len(syncHistory') <= SyncHistoryCap
<1> DEFINE entry == [status |-> outcome, totalRecords |-> d.totalRecords,
                     processedRecords |-> d.processedRecords,
                     errorRecords |-> d.errorRecords]
           grown == <<entry>> \o syncHistory
<1>1. entry \in HistoryEntry
  BY DEF HistoryEntry, Job
<1>2. grown \in Seq(HistoryEntry) /\ Len(grown) = Len(syncHistory) + 1
  BY <1>1 DEF SyncTypeOK
<1>3. syncHistory' = IF Len(grown) > SyncHistoryCap
                       THEN SubSeq(grown, 1, SyncHistoryCap) ELSE grown
  BY DEF AddToHistory
<1> HIDE DEF grown
<1>4. CASE Len(grown) > SyncHistoryCap
  <2>1. /\ SubSeq(grown, 1, SyncHistoryCap) \in Seq(HistoryEntry)
        /\ Len(SubSeq(grown, 1, SyncHistoryCap)) = SyncHistoryCap
    BY <1>2, <1>4 DEF SyncAssumption
  <2> QED BY <1>3, <1>4, <2>1 DEF SyncAssumption
<1>5. CASE ~(Len(grown) > SyncHistoryCap)
  BY <1>2, <1>3, <1>5 DEF SyncAssumption
<1> QED BY <1>4, <1>5

\* What is sound stays sound while more is done and more records come.
LEMMA SoundStays ==
  ASSUME NEW d \in Job, JobSound(d), records \in Nat, records' \in Nat,
         records <= records', Done \subseteq Done'
  PROVE  JobSound(d)'
BY DEF JobSound, Job

\* A job that goes on, or ends and moves the checkpoint, leaves the invariant in
\* place if what it has done by now is sound (data-sync.service.ts:149-240).
LEMMA ProceedSound ==
  ASSUME SyncAssumption, SyncInv, NEW j \in SyncJobs, NEW d \in Job,
         Proceed(j, d), d.phase = "passing",
         UNCHANGED <<direction, simsConnected, records>>,
         delivered' \subseteq 1 .. records, failed' \subseteq 1 .. records,
         Done \subseteq Done', 1 .. d.from \subseteq Done',
         d.from + d.totalRecords <= records,
         d.processedRecords + d.errorRecords <= d.totalRecords,
         d.from + 1 .. d.from + d.processedRecords + d.errorRecords \subseteq Done'
  PROVE  SyncInv'
<1>1. /\ d.from \in Nat /\ d.totalRecords \in Nat
      /\ d.processedRecords \in Nat /\ d.errorRecords \in Nat
  BY DEF Job
<1>2. records \in Nat /\ checkpoint \in 0 .. records /\ job \in [SyncJobs -> Job]
  BY DEF SyncInv, SyncTypeOK
<1>3. \A k \in SyncJobs : job'[k] = job[k] => JobSound(job[k])'
  <2>1. SUFFICES ASSUME NEW k \in SyncJobs, job'[k] = job[k] PROVE JobSound(job[k])'
    OBVIOUS
  <2>2. PICK e \in Job : e = job[k]
    BY <1>2
  <2>3. JobSound(e)
    BY <2>2 DEF SyncInv
  <2>4. JobSound(e)'
    BY <1>2, <2>3, SoundStays
  <2> QED BY <2>1, <2>2, <2>4 DEF JobSound
<1>4. CASE d.processedRecords + d.errorRecords = d.totalRecords
  <2>1. /\ checkpoint' = Moved(d) /\ AddToHistory(d, "COMPLETED")
        /\ job' = [job EXCEPT ![j] = NoJob]
    BY <1>4 DEF Proceed
  <2>2. checkpoint' \in 0 .. records /\ 1 .. checkpoint' \subseteq Done'
    BY <1>1, <1>2, <1>4, <2>1 DEF Moved, SyncInv, CheckpointCovers, Done
  <2>3. NoJob \in Job /\ JobSound(NoJob)'
    BY DEF NoJob, Job, JobSound
  <2>4. job' \in [SyncJobs -> Job] /\ job'[j] = NoJob /\ \A k \in SyncJobs \ {j} : job'[k] = job[k]
    BY <1>2, <2>1, <2>3
  <2>5. \A k \in SyncJobs : JobSound(job[k])'
    BY <1>3, <2>3, <2>4 DEF JobSound
  <2>6. syncHistory' \in Seq(HistoryEntry) /\ Len(syncHistory') <= SyncHistoryCap
    BY <2>1, HistoryGrows DEF SyncInv
  <2> QED BY <1>2, <2>2, <2>4, <2>5, <2>6 DEF SyncInv, SyncTypeOK, CheckpointCovers, Done
<1>5. CASE d.processedRecords + d.errorRecords # d.totalRecords
  <2>1. job' = [job EXCEPT ![j] = d] /\ UNCHANGED <<checkpoint, syncHistory>>
    BY <1>5 DEF Proceed
  <2>2. job' \in [SyncJobs -> Job] /\ job'[j] = d /\ \A k \in SyncJobs \ {j} : job'[k] = job[k]
    BY <1>2, <2>1
  <2>3. JobSound(d)'
    BY <1>1, <1>2, <1>5 DEF JobSound
  <2>4. \A k \in SyncJobs : JobSound(job[k])'
    BY <1>3, <2>2, <2>3 DEF JobSound
  <2>5. 1 .. checkpoint \subseteq Done'
    BY DEF SyncInv, CheckpointCovers, Done
  <2> QED BY <1>2, <2>1, <2>2, <2>4, <2>5 DEF SyncInv, SyncTypeOK, CheckpointCovers, Done
<1> QED BY <1>4, <1>5

\* The batch a job passes on next follows what it has tried, is not empty and lies
\* within the records it has fetched (data-sync.service.ts:187, 222-226).
LEMMA BatchFacts ==
  ASSUME SyncAssumption, SyncInv, NEW j \in SyncJobs, job[j].phase = "passing"
  PROVE  LET d == job[j]
             tried == d.processedRecords + d.errorRecords
             batch == NextBatch(d)
         IN  \E n \in Nat \ {0} :
               /\ tried + n <= d.totalRecords
               /\ batch = d.from + tried + 1 .. d.from + tried + n
               /\ Cardinality(batch) = n
               /\ batch \subseteq 1 .. records
<1> DEFINE d == job[j]
           tried == d.processedRecords + d.errorRecords
           n == IF direction = "SIMS_TO_CENTER" THEN 1
                ELSE Min({BatchSize, d.totalRecords - tried})
<1>1. d \in Job /\ JobSound(d) /\ d.phase = "passing"
  BY DEF SyncInv, SyncTypeOK
<1>2. /\ d.from \in Nat /\ d.totalRecords \in Nat /\ tried \in Nat /\ tried < d.totalRecords
      /\ d.from + d.totalRecords <= records /\ records \in Nat
  BY <1>1 DEF Job, JobSound, SyncInv, SyncTypeOK
<1>3. NextBatch(d) = d.from + tried + 1 .. d.from + tried + n
  BY DEF NextBatch
<1> HIDE DEF d
<1>4. n \in Nat \ {0} /\ tried + n <= d.totalRecords
  <2>1. CASE direction = "SIMS_TO_CENTER"
    BY <1>2, <2>1
  <2>2. CASE direction # "SIMS_TO_CENTER"
    <3> DEFINE left == d.totalRecords - tried
    <3>1. left \in Nat \ {0} /\ BatchSize \in Nat \ {0}
      BY <1>2 DEF SyncAssumption
    <3> HIDE DEF left
    <3>2. Min({BatchSize, left}) \in {BatchSize, left} /\ Min({BatchSize, left}) <= left
      BY <3>1, MinOfTwo
    <3>3. n \in Nat \ {0} /\ n <= left
      BY <2>2, <3>1, <3>2 DEF left
    <3> QED BY <1>2, <3>1, <3>3 DEF left
  <2> QED BY <2>1, <2>2
<1> HIDE DEF n
<1>5. Cardinality(NextBatch(d)) = n
  <2> DEFINE a == d.from + tried + 1
             b == d.from + tried + n
  <2>1. a \in Int /\ b \in Int /\ a <= b /\ b - a + 1 = n
    BY <1>2, <1>4
  <2>2. Cardinality(a .. b) = b - a + 1
    <3> HIDE DEF a, b
    <3> QED BY <2>1, FS_Interval
  <2> QED BY <1>3, <2>1, <2>2
<1>6. NextBatch(d) \subseteq 1 .. records
  BY <1>2, <1>3, <1>4
<1> QED BY <1>3, <1>4, <1>5, <1>6 DEF d

-----------------------------------------------------------------------------
LEMMA InitSound == ASSUME SyncAssumption, SyncInit PROVE SyncInv
<1>1. NoJob \in Job
  BY DEF NoJob, Job
<1>2. SyncTypeOK
  BY <1>1 DEF SyncInit, SyncTypeOK, SyncAssumption
<1>3. \A j \in SyncJobs : JobSound(job[j])
  BY DEF SyncInit, NoJob, JobSound
<1>4. CheckpointCovers
  BY DEF SyncInit, CheckpointCovers
<1> QED BY <1>2, <1>3, <1>4 DEF SyncInv

\* A step that changes at most what one job knows, and what it knows is sound, leaves
\* the invariant in place if the rest of the state is.
LEMMA OneJobChanges ==
  ASSUME SyncInv, NEW j \in SyncJobs, NEW d \in Job, JobSound(d),
         job' = [job EXCEPT ![j] = d],
         UNCHANGED <<direction, simsConnected, records, checkpoint, delivered, failed>>,
         syncHistory' \in Seq(HistoryEntry), Len(syncHistory') <= SyncHistoryCap
  PROVE  SyncInv'
<1>1. job \in [SyncJobs -> Job]
  BY DEF SyncInv, SyncTypeOK
<1>2. job' \in [SyncJobs -> Job] /\ job'[j] = d /\ \A k \in SyncJobs \ {j} : job'[k] = job[k]
  BY <1>1
<1>3. \A k \in SyncJobs : JobSound(job[k])'
  BY <1>2 DEF SyncInv, JobSound, Done
<1> QED BY <1>2, <1>3 DEF SyncInv, SyncTypeOK, CheckpointCovers

\* A job that begins reads a checkpoint that covers (data-sync.service.ts:149-160).
LEMMA ExecuteSound ==
  ASSUME SyncInv, NEW j \in SyncJobs, ExecuteSyncJob(j) PROVE SyncInv'
<1> DEFINE d == [job[j] EXCEPT !.phase = "fetching", !.from = checkpoint]
<1>1. records \in Nat /\ checkpoint \in 0 .. records /\ job \in [SyncJobs -> Job]
  BY DEF SyncInv, SyncTypeOK
<1>2. job' = [job EXCEPT ![j] = d]
  BY <1>1 DEF ExecuteSyncJob
<1>3. /\ job[j].phase = "none" /\ JobSound(job[j]) /\ job[j] \in Job
  BY <1>1 DEF ExecuteSyncJob, SyncInv
<1>4. /\ d \in Job /\ d.phase = "fetching" /\ d.from = checkpoint
      /\ d.totalRecords = 0 /\ d.processedRecords = 0 /\ d.errorRecords = 0
  <2>1. checkpoint \in Nat
    BY <1>1
  <2>2. job[j].totalRecords = 0 /\ job[j].processedRecords = 0 /\ job[j].errorRecords = 0
    BY <1>3 DEF JobSound
  <2> QED BY <1>3, <2>1, <2>2 DEF Job
<1>5. JobSound(d)
  <2> HIDE DEF d
  <2> QED BY <1>1, <1>4 DEF JobSound, SyncInv, CheckpointCovers, Done
<1> HIDE DEF d
<1>6. /\ UNCHANGED <<direction, simsConnected, records, checkpoint, delivered, failed>>
      /\ syncHistory' \in Seq(HistoryEntry) /\ Len(syncHistory') <= SyncHistoryCap
  BY DEF ExecuteSyncJob, SyncInv, SyncTypeOK
<1> QED BY <1>2, <1>4, <1>5, <1>6, OneJobChanges

\* A fetch finds all records after the checkpoint its job has read; one that finds
\* none ends the job (data-sync.service.ts:162-186, 213-221).
LEMMA FetchSound ==
  ASSUME SyncAssumption, SyncInv, NEW j \in SyncJobs, FetchSucceeds(j) PROVE SyncInv'
<1> DEFINE d == [job[j] EXCEPT !.phase = "passing", !.totalRecords = records - job[j].from]
<1>1. job[j] \in Job /\ JobSound(job[j]) /\ job[j].phase = "fetching" /\ records \in Nat
  BY DEF FetchSucceeds, SyncInv, SyncTypeOK
<1>2. /\ job[j].from \in Nat /\ job[j].from <= records /\ 1 .. job[j].from \subseteq Done
      /\ job[j].processedRecords = 0 /\ job[j].errorRecords = 0
  BY <1>1 DEF Job, JobSound
<1>3. /\ d \in Job /\ d.phase = "passing" /\ d.from = job[j].from
      /\ d.totalRecords = records - job[j].from
      /\ d.processedRecords = 0 /\ d.errorRecords = 0
  <2> DEFINE total == records - job[j].from
  <2>1. total \in Nat
    BY <1>1, <1>2
  <2> HIDE DEF total
  <2>2. LET e == [job[j] EXCEPT !.phase = "passing", !.totalRecords = total]
        IN  /\ e \in Job /\ e.phase = "passing" /\ e.from = job[j].from
            /\ e.totalRecords = total
            /\ e.processedRecords = 0 /\ e.errorRecords = 0
    BY <1>1, <1>2, <2>1 DEF Job
  <2> QED BY <2>2 DEF total
<1>4. Proceed(j, d) /\ UNCHANGED <<direction, simsConnected, records, delivered, failed>>
  BY DEF FetchSucceeds
<1> HIDE DEF d
<1>5. /\ delivered' \subseteq 1 .. records /\ failed' \subseteq 1 .. records
      /\ Done \subseteq Done' /\ 1 .. d.from \subseteq Done'
  BY <1>2, <1>3, <1>4 DEF Done, SyncInv, SyncTypeOK
<1>6. /\ d.from + d.totalRecords <= records
      /\ d.processedRecords + d.errorRecords <= d.totalRecords
      /\ d.from + 1 .. d.from + d.processedRecords + d.errorRecords \subseteq Done'
  BY <1>1, <1>2, <1>3
<1> QED BY <1>3, <1>4, <1>5, <1>6, ProceedSound

\* A fetch that throws ends its job and leaves the checkpoint (data-sync.service.ts:241-255).
LEMMA FetchFailsSound ==
  ASSUME SyncAssumption, SyncInv, NEW j \in SyncJobs, FetchFails(j) PROVE SyncInv'
<1>1. NoJob \in Job /\ JobSound(NoJob)
  BY DEF NoJob, Job, JobSound
<1>2. job[j] \in Job /\ SyncTypeOK
  BY DEF SyncInv, SyncTypeOK
<1>3. syncHistory' \in Seq(HistoryEntry) /\ Len(syncHistory') <= SyncHistoryCap
  BY <1>2, HistoryGrows DEF FetchFails
<1>4. /\ job' = [job EXCEPT ![j] = NoJob]
      /\ UNCHANGED <<direction, simsConnected, records, checkpoint, delivered, failed>>
  BY DEF FetchFails
<1> QED BY <1>1, <1>3, <1>4, OneJobChanges

\* A batch, sent or refused, continues what its job has tried without a gap
\* (data-sync.service.ts:187-198, 222-234).
LEMMA BatchSound ==
  ASSUME SyncAssumption, SyncInv, NEW j \in SyncJobs, BatchSucceeds(j) \/ BatchFails(j)
  PROVE  SyncInv'
<1>1. job[j] \in Job /\ JobSound(job[j]) /\ job[j].phase = "passing" /\ records \in Nat
  BY DEF BatchSucceeds, BatchFails, SyncInv, SyncTypeOK
<1> DEFINE tried == job[j].processedRecords + job[j].errorRecords
           batch == NextBatch(job[j])
<1>2. PICK n \in Nat \ {0} :
        /\ tried + n <= job[j].totalRecords
        /\ batch = job[j].from + tried + 1 .. job[j].from + tried + n
        /\ Cardinality(batch) = n
        /\ batch \subseteq 1 .. records
  BY <1>1, BatchFacts
<1>3. /\ job[j].from \in Nat /\ job[j].totalRecords \in Nat
      /\ job[j].processedRecords \in Nat /\ job[j].errorRecords \in Nat
      /\ 1 .. job[j].from \subseteq Done
      /\ job[j].from + job[j].totalRecords <= records
      /\ job[j].from + 1 .. job[j].from + tried \subseteq Done
  BY <1>1 DEF Job, JobSound
<1>4. PICK d \in Job :
        /\ Proceed(j, d) /\ d.phase = "passing" /\ d.from = job[j].from
        /\ d.totalRecords = job[j].totalRecords
        /\ d.processedRecords \in Nat /\ d.errorRecords \in Nat
        /\ d.processedRecords + d.errorRecords = tried + n
  <2>1. CASE BatchSucceeds(j)
    <3> DEFINE e == [job[j] EXCEPT !.processedRecords = @ + Cardinality(batch)]
    <3>1. e = [job[j] EXCEPT !.processedRecords = @ + n] /\ Proceed(j, e)
      BY <1>2, <2>1 DEF BatchSucceeds
    <3>2. /\ e \in Job /\ e.phase = "passing" /\ e.from = job[j].from
          /\ e.totalRecords = job[j].totalRecords
          /\ e.processedRecords = job[j].processedRecords + n
          /\ e.errorRecords = job[j].errorRecords
      BY <1>1, <1>3, <3>1 DEF Job
    <3> HIDE DEF e
    <3>3. e.processedRecords + e.errorRecords = tried + n
      BY <1>3, <3>2
    <3>4. e.processedRecords \in Nat /\ e.errorRecords \in Nat
      BY <3>2 DEF Job
    <3> QED BY <3>1, <3>2, <3>3, <3>4, Zenon
  <2>2. CASE BatchFails(j)
    <3> DEFINE e == [job[j] EXCEPT !.errorRecords = @ + Cardinality(batch)]
    <3>1. e = [job[j] EXCEPT !.errorRecords = @ + n] /\ Proceed(j, e)
      BY <1>2, <2>2 DEF BatchFails
    <3>2. /\ e \in Job /\ e.phase = "passing" /\ e.from = job[j].from
          /\ e.totalRecords = job[j].totalRecords
          /\ e.processedRecords = job[j].processedRecords
          /\ e.errorRecords = job[j].errorRecords + n
      BY <1>1, <1>3, <3>1 DEF Job
    <3> HIDE DEF e
    <3>3. e.processedRecords + e.errorRecords = tried + n
      BY <1>3, <3>2
    <3>4. e.processedRecords \in Nat /\ e.errorRecords \in Nat
      BY <3>2 DEF Job
    <3> QED BY <3>1, <3>2, <3>3, <3>4, Zenon
  <2> QED BY <2>1, <2>2
<1>5. /\ Done' = Done \cup batch
      /\ delivered' \in {delivered, delivered \cup batch}
      /\ failed' \in {failed, failed \cup batch}
      /\ UNCHANGED <<direction, simsConnected, records>>
  BY DEF BatchSucceeds, BatchFails, Done
<1> HIDE DEF batch
<1>6. delivered' \subseteq 1 .. records /\ failed' \subseteq 1 .. records
  BY <1>2, <1>5 DEF SyncInv, SyncTypeOK
<1>7. job[j].from + 1 .. job[j].from + tried + n \subseteq Done'
  BY <1>2, <1>3, <1>5
<1>8. /\ Done \subseteq Done' /\ 1 .. d.from \subseteq Done'
      /\ d.from + d.totalRecords <= records
      /\ d.processedRecords + d.errorRecords <= d.totalRecords
  BY <1>2, <1>3, <1>4, <1>5
<1>9. d.from + 1 .. d.from + d.processedRecords + d.errorRecords \subseteq Done'
  BY <1>3, <1>4, <1>7
<1> QED BY <1>4, <1>5, <1>6, <1>8, <1>9, ProceedSound

\* Records that come, and the connection that comes and goes, disturb no job.
LEMMA EnvironmentSound ==
  ASSUME SyncInv, RecordArrives \/ SimsChanges PROVE SyncInv'
<1>1. /\ records \in Nat /\ records' \in Nat /\ records <= records'
      /\ UNCHANGED <<checkpoint, job, delivered, failed, syncHistory>>
  BY DEF RecordArrives, SimsChanges, SyncInv, SyncTypeOK
<1>2. Done' = Done
  BY <1>1 DEF Done
<1>3. \A k \in SyncJobs : JobSound(job[k])'
  <2>1. SUFFICES ASSUME NEW k \in SyncJobs PROVE JobSound(job[k])'
    OBVIOUS
  <2>2. PICK e \in Job : e = job[k]
    BY DEF SyncInv, SyncTypeOK
  <2>3. JobSound(e)'
    BY <1>1, <1>2, <2>2, SoundStays DEF SyncInv
  <2> QED BY <1>1, <2>2, <2>3 DEF JobSound
<1>4. SyncTypeOK'
  <2>1. direction' \in Directions /\ simsConnected' \in BOOLEAN
    BY DEF RecordArrives, SimsChanges, SyncInv, SyncTypeOK
  <2>2. /\ checkpoint' \in 0 .. records' /\ delivered' \subseteq 1 .. records'
        /\ failed' \subseteq 1 .. records'
    BY <1>1 DEF SyncInv, SyncTypeOK
  <2> QED BY <1>1, <2>1, <2>2 DEF SyncInv, SyncTypeOK
<1>5. CheckpointCovers'
  BY <1>1 DEF SyncInv, CheckpointCovers
<1> QED BY <1>3, <1>4, <1>5 DEF SyncInv

LEMMA StepSound ==
  ASSUME SyncAssumption, SyncInv, [SyncNext]_syncVars PROVE SyncInv'
<1>1. CASE \E j \in SyncJobs : ScheduledJob(j) \/ TriggerManualSync(j)
  BY <1>1, ExecuteSound DEF ScheduledJob, TriggerManualSync
<1>2. CASE \E j \in SyncJobs : JobStep(j)
  BY <1>2, FetchSound, FetchFailsSound, BatchSound DEF JobStep
<1>3. CASE RecordArrives \/ SimsChanges
  BY <1>3, EnvironmentSound
<1>4. CASE UNCHANGED syncVars
  BY <1>4 DEF syncVars, SyncInv, SyncTypeOK, CheckpointCovers, JobSound, Done
<1> QED BY <1>1, <1>2, <1>3, <1>4 DEF SyncNext

LEMMA SyncInvariant == SyncSpec => []SyncInv
<1>1. SyncInit => SyncInv
  BY SyncAssumption, InitSound
<1>2. SyncInv /\ [SyncNext]_syncVars => SyncInv'
  BY SyncAssumption, StepSound
<1> QED BY <1>1, <1>2, PTL DEF SyncSpec

\* The state keeps its type, the history its limit, and the checkpoint never passes
\* the last record there is (data-sync.service.ts:290-312).
THEOREM SyncTypes == SyncSpec => []SyncTypeOK
<1>1. SyncInv => SyncTypeOK
  BY DEF SyncInv
<1> QED BY <1>1, SyncInvariant, PTL

\* What the checkpoint has passed is delivered or was counted as an error, with any
\* number of overlapping jobs (data-sync.service.ts:200, 236).
THEOREM CheckpointsCover == SyncSpec => []CheckpointCovers
<1>1. SyncInv => CheckpointCovers
  BY DEF SyncInv
<1> QED BY <1>1, SyncInvariant, PTL

(***************************************************************************)
(* File transfer.                                                          *)
(***************************************************************************)

\* A transfer is over exactly when it is COMPLETED or FAILED, and one that goes on
\* has a retry left to fail.
TransferSound(t) ==
  /\ t \in TransferRecord
  /\ t.at = "end" <=> t.status \in {"COMPLETED", "FAILED"}
  /\ t.at # "end" => t.retryCount <= MaxRetries

\* The inductive invariant
FtpInv ==
  /\ FtpTypeOK
  /\ \A i \in DOMAIN transfers : TransferSound(transfers[i])
  /\ \A k \in DOMAIN transferHistory : transferHistory[k].id \in DOMAIN transfers
  /\ CompletedForGood

-----------------------------------------------------------------------------
\* A list with an entry in front, cut to its limit: the first is the entry, the
\* others have moved on by one place.
LEMMA CutPrepend ==
  ASSUME NEW S, NEW e \in S, NEW list \in Seq(S), NEW cap \in Nat,
         NEW new, new = IF Len(<<e>> \o list) > cap
                          THEN SubSeq(<<e>> \o list, 1, cap) ELSE <<e>> \o list
  PROVE  /\ new \in Seq(S) /\ Len(new) <= cap /\ Len(new) <= Len(list) + 1
         /\ \A k \in DOMAIN new : k = 1 => new[k] = e
         /\ \A k \in DOMAIN new : k # 1 => k - 1 \in DOMAIN list /\ new[k] = list[k - 1]
<1> DEFINE grown == <<e>> \o list
<1>0. Len(list) \in Nat /\ DOMAIN list = 1 .. Len(list)
  OBVIOUS
<1>1. /\ grown \in Seq(S) /\ Len(grown) = Len(list) + 1
      /\ \A k \in 1 .. Len(grown) : grown[k] = IF k = 1 THEN e ELSE list[k - 1]
  OBVIOUS
<1> HIDE DEF grown
<1>2. CASE Len(grown) > cap
  <2>1. new = SubSeq(grown, 1, cap)
    BY <1>2 DEF grown
  <2>2. new \in Seq(S) /\ Len(new) = cap /\ \A k \in 1 .. cap : new[k] = grown[k]
    BY <1>1, <1>2, <2>1
  <2>3. DOMAIN new = 1 .. cap /\ cap <= Len(list) + 1 /\ Len(new) <= cap
    BY <1>0, <1>1, <1>2, <2>2
  <2>4. \A k \in 1 .. cap : k \in 1 .. Len(grown)
    BY <1>0, <1>1, <1>2
  <2>5. \A k \in DOMAIN new : new[k] = IF k = 1 THEN e ELSE list[k - 1]
    BY <1>1, <2>2, <2>3, <2>4
  <2>6. \A k \in DOMAIN new : k # 1 => k - 1 \in 1 .. Len(list)
    BY <1>0, <2>3
  <2> QED BY <1>0, <2>2, <2>3, <2>5, <2>6
<1>3. CASE ~(Len(grown) > cap)
  <2>1. new = grown
    BY <1>3 DEF grown
  <2>2. DOMAIN new = 1 .. Len(list) + 1 /\ Len(new) <= cap /\ Len(new) <= Len(list) + 1
    BY <1>0, <1>1, <1>3, <2>1
  <2>3. \A k \in DOMAIN new : new[k] = IF k = 1 THEN e ELSE list[k - 1]
    BY <1>1, <2>1, <2>2
  <2>4. \A k \in DOMAIN new : k # 1 => k - 1 \in 1 .. Len(list)
    BY <1>0, <2>2
  <2> QED BY <1>0, <1>1, <2>1, <2>2, <2>3, <2>4
<1> QED BY <1>2, <1>3

LEMMA FtpInitSound == ASSUME FtpInit PROVE FtpInv
<1>1. transfers = <<>> /\ transferHistory = <<>> /\ centersLeft = [r \in Requests |-> 0]
  BY DEF FtpInit
<1>2. FtpTypeOK
  BY <1>1, FtpAssumption DEF FtpTypeOK, FtpAssumption
<1> QED BY <1>1, <1>2 DEF FtpInv, CompletedForGood

\* An attempt changes the status and where the execution is.
LEMMA AttemptFields ==
  ASSUME NEW t \in TransferRecord
  PROVE  /\ Attempt(t) \in TransferRecord
         /\ Attempt(t).at = "upload" /\ Attempt(t).status = "TRANSFERRING"
         /\ Attempt(t).retryCount = t.retryCount /\ Attempt(t).request = t.request
BY DEF Attempt, TransferRecord

\* A transfer that begins, anew or again, is sound.
LEMMA NewTransferSound ==
  ASSUME NEW r \in Requests \cup {"retry"} PROVE TransferSound(NewTransfer(r))
<1> DEFINE t == [status |-> "TRANSFERRING", retryCount |-> 0, at |-> "upload", request |-> r]
<1>1. t \in TransferRecord /\ t.retryCount = 0
  BY FtpAssumption DEF FtpAssumption, TransferRecord
<1>2. NewTransfer(r) = Attempt(t)
  BY DEF NewTransfer
<1> HIDE DEF t
<1> QED BY <1>1, <1>2, AttemptFields, FtpAssumption DEF FtpAssumption, TransferSound

\* A transfer added at the end disturbs nothing.
LEMMA AppendSound ==
  ASSUME FtpInv, NEW t, TransferSound(t), transfers' = Append(transfers, t),
         UNCHANGED transferHistory, centersLeft' \in [Requests -> 0 .. MaxTransfers]
  PROVE  FtpInv'
<1>1. transfers \in Seq(TransferRecord) /\ t \in TransferRecord
  BY DEF FtpInv, FtpTypeOK, TransferSound
<1>2. /\ transfers' \in Seq(TransferRecord) /\ DOMAIN transfers \subseteq DOMAIN transfers'
      /\ \A i \in DOMAIN transfers : transfers'[i] = transfers[i]
      /\ \A i \in DOMAIN transfers' : i \in DOMAIN transfers \/ transfers'[i] = t
  BY <1>1
<1>3. FtpTypeOK'
  BY <1>2 DEF FtpInv, FtpTypeOK
<1>4. \A i \in DOMAIN transfers' : TransferSound(transfers'[i])
  BY <1>2 DEF FtpInv
<1>5. \A k \in DOMAIN transferHistory : transferHistory[k].id \in DOMAIN transfers
  BY DEF FtpInv
<1>6. CompletedForGood'
  BY <1>2, <1>5 DEF FtpInv, CompletedForGood
<1> QED BY <1>2, <1>3, <1>4, <1>5, <1>6 DEF FtpInv, TransferSound

\* A sequence with one place replaced is one still.
LEMMA OneReplaced ==
  ASSUME NEW S, NEW s \in Seq(S), NEW t, NEW i \in DOMAIN s, NEW e \in S, t = [s EXCEPT ![i] = e]
  PROVE  t \in Seq(S)
OBVIOUS

\* A transfer that is not archived as COMPLETED may change on its own.
LEMMA ReplaceSound ==
  ASSUME FtpInv, NEW i \in DOMAIN transfers, transfers[i].status # "COMPLETED",
         transfers' \in Seq(TransferRecord), DOMAIN transfers' = DOMAIN transfers,
         TransferSound(transfers'[i]),
         \A k \in DOMAIN transfers \ {i} : transfers'[k] = transfers[k],
         UNCHANGED <<centersLeft, transferHistory>>
  PROVE  FtpInv'
<1>1. FtpTypeOK'
  BY DEF FtpInv, FtpTypeOK
<1>2. \A k \in DOMAIN transfers' : TransferSound(transfers'[k])
  BY DEF FtpInv
<1>3. CompletedForGood'
  BY DEF FtpInv, CompletedForGood
<1> QED BY <1>1, <1>2, <1>3 DEF FtpInv, TransferSound

\* A settled transfer is archived once, whatever its request goes on with.
LEMMA SettleSound ==
  ASSUME FtpInv, NEW i \in DOMAIN transfers, transfers[i].at # "end",
         NEW t \in TransferRecord, t.status \in {"COMPLETED", "FAILED"}, Settle(i, t)
  PROVE  FtpInv'
<1> DEFINE e == [t EXCEPT !.at = "end"]
           entry == [id |-> i, status |-> t.status]
           settled == [transfers EXCEPT ![i] = e]
<1>1. /\ transfers \in Seq(TransferRecord) /\ centersLeft \in [Requests -> 0 .. MaxTransfers]
      /\ transferHistory \in Seq(ArchiveEntry) /\ i \in Nat
  BY DEF FtpInv, FtpTypeOK
<1>2. e \in TransferRecord /\ e.at = "end" /\ e.status = t.status
  BY DEF TransferRecord
<1>3. TransferSound(e)
  BY <1>2 DEF TransferSound
<1>4. entry \in ArchiveEntry /\ entry.id = i /\ entry.status = t.status
  BY <1>1 DEF ArchiveEntry
<1>5. /\ \/ transfers' = settled
         \/ \E r \in Requests \cup {"retry"} : transfers' = Append(settled, NewTransfer(r))
      /\ centersLeft' \in [Requests -> 0 .. MaxTransfers]
  <2>1. t.request \in Requests \cup {"retry"}
    BY DEF TransferRecord
  <2>2. CASE t.request # "retry" /\ centersLeft[t.request] > 0
    <3>1. /\ transfers' = Append(settled, NewTransfer(t.request))
          /\ centersLeft' = [centersLeft EXCEPT ![t.request] = @ - 1]
      BY <2>2 DEF Settle
    <3>2. t.request \in Requests /\ centersLeft[t.request] - 1 \in 0 .. MaxTransfers
      BY <1>1, <2>1, <2>2, FtpAssumption DEF FtpAssumption
    <3> QED BY <1>1, <2>1, <3>1, <3>2
  <2>3. CASE ~(t.request # "retry" /\ centersLeft[t.request] > 0)
    BY <1>1, <2>3 DEF Settle
  <2> QED BY <2>2, <2>3
<1>6. transferHistory' = IF Len(<<entry>> \o transferHistory) > TransferHistoryCap
                           THEN SubSeq(<<entry>> \o transferHistory, 1, TransferHistoryCap)
                           ELSE <<entry>> \o transferHistory
  BY DEF Settle, Archive
<1> HIDE DEF e, entry
<1>7. settled \in Seq(TransferRecord) /\ DOMAIN settled = DOMAIN transfers /\ settled[i] = e
  BY <1>1, <1>2
<1>8. \A k \in DOMAIN transfers \ {i} : settled[k] = transfers[k]
  BY <1>1
<1> HIDE DEF settled
<1>9. /\ transfers' \in Seq(TransferRecord) /\ DOMAIN transfers \subseteq DOMAIN transfers'
      /\ transfers'[i] = e /\ \A k \in DOMAIN transfers \ {i} : transfers'[k] = transfers[k]
      /\ \A k \in DOMAIN transfers' : TransferSound(transfers'[k])
  <2>1. CASE transfers' = settled
    BY <1>3, <1>7, <1>8, <2>1 DEF FtpInv
  <2>2. ASSUME NEW r \in Requests \cup {"retry"}, transfers' = Append(settled, NewTransfer(r))
        PROVE <1>9!:
    <3>1. NewTransfer(r) \in TransferRecord /\ TransferSound(NewTransfer(r))
      BY NewTransferSound DEF TransferSound
    <3>2. /\ transfers' \in Seq(TransferRecord) /\ DOMAIN transfers \subseteq DOMAIN transfers'
          /\ \A k \in DOMAIN transfers : transfers'[k] = settled[k]
          /\ \A k \in DOMAIN transfers' : k \in DOMAIN transfers \/ transfers'[k] = NewTransfer(r)
      BY <1>7, <2>2, <3>1
    <3> QED BY <1>3, <1>7, <1>8, <3>1, <3>2 DEF FtpInv
  <2> QED BY <1>5, <2>1, <2>2
<1>10. /\ transferHistory' \in Seq(ArchiveEntry) /\ Len(transferHistory') <= TransferHistoryCap
       /\ \A k \in DOMAIN transferHistory' : k = 1 => transferHistory'[k] = entry
       /\ \A k \in DOMAIN transferHistory' :
            k # 1 => k - 1 \in DOMAIN transferHistory /\ transferHistory'[k] = transferHistory[k - 1]
  BY <1>1, <1>4, <1>6, FtpAssumption, CutPrepend, SMTT(30) DEF FtpAssumption
<1>11. FtpTypeOK'
  BY <1>5, <1>9, <1>10 DEF FtpTypeOK
<1>12. \A k \in DOMAIN transferHistory :
         transferHistory[k].status = "COMPLETED" => transferHistory[k].id \in DOMAIN transfers \ {i}
  BY DEF FtpInv, CompletedForGood, TransferSound
<1>13. \A k \in DOMAIN transferHistory' : transferHistory'[k].id \in DOMAIN transfers'
  BY <1>4, <1>9, <1>10 DEF FtpInv
<1>14. CompletedForGood'
  <2> SUFFICES ASSUME NEW k \in DOMAIN transferHistory', transferHistory'[k].status = "COMPLETED"
               PROVE  /\ transfers'[transferHistory'[k].id].status = "COMPLETED"
                      /\ \A j \in DOMAIN transferHistory' :
                           j # k => transferHistory'[j] # transferHistory'[k]
    BY DEF CompletedForGood
  <2>1. transfers'[transferHistory'[k].id].status = "COMPLETED"
    <3>1. CASE k = 1
      BY <1>2, <1>4, <1>9, <1>10, <3>1
    <3>2. CASE k # 1
      BY <1>9, <1>10, <1>12, <3>2 DEF FtpInv, CompletedForGood
    <3> QED BY <3>1, <3>2
  <2>2. ASSUME NEW j \in DOMAIN transferHistory', j # k, transferHistory'[j] = transferHistory'[k]
        PROVE  FALSE
    <3>1. transferHistory'[j].status = "COMPLETED"
      BY <2>2
    <3>2. CASE k = 1 \/ j = 1
      BY <1>4, <1>10, <1>12, <2>2, <3>1, <3>2
    <3>3. CASE k # 1 /\ j # 1
      <4>1. /\ k - 1 \in DOMAIN transferHistory /\ transferHistory'[k] = transferHistory[k - 1]
            /\ j - 1 \in DOMAIN transferHistory /\ transferHistory'[j] = transferHistory[j - 1]
        BY <1>10, <3>3
      <4>2. k - 1 # j - 1
        <5>1. k \in Int /\ j \in Int
          BY <1>10
        <5> QED BY <2>2, <5>1
      <4> QED BY <2>2, <4>1, <4>2 DEF FtpInv, CompletedForGood
    <3> QED BY <3>2, <3>3
  <2> QED BY <2>1, <2>2
<1> QED BY <1>9, <1>11, <1>13, <1>14 DEF FtpInv, TransferSound

LEMMA FtpStepSound == ASSUME FtpInv, [FtpNext]_transferVars PROVE FtpInv'
<1>0. /\ transfers \in Seq(TransferRecord) /\ centersLeft \in [Requests -> 0 .. MaxTransfers]
      /\ \A i \in DOMAIN transfers : TransferSound(transfers[i]) /\ transfers[i] \in TransferRecord
      /\ MaxRetries \in Nat /\ MaxTransfers \in Nat
  BY FtpAssumption DEF FtpInv, FtpTypeOK, FtpAssumption
<1>7. ASSUME UNCHANGED transferVars PROVE FtpInv'
  BY <1>7 DEF transferVars, FtpInv, FtpTypeOK, TransferSound, CompletedForGood
<1>1. ASSUME NEW r \in Requests, NEW n \in 0 .. MaxTransfers, Distribute(r, n) PROVE FtpInv'
  <2>1. CASE n = 0
    BY <1>1, <1>7, <2>1 DEF Distribute
  <2>2. CASE n # 0
    <3>1. transfers' = Append(transfers, NewTransfer(r)) /\ UNCHANGED transferHistory
      BY <1>1, <2>2 DEF Distribute
    <3>2. centersLeft' \in [Requests -> 0 .. MaxTransfers]
      <4>1. centersLeft' = [centersLeft EXCEPT ![r] = n - 1]
        BY <1>1, <2>2 DEF Distribute
      <4>2. n - 1 \in 0 .. MaxTransfers
        BY <1>0, <2>2
      <4> QED BY <1>0, <4>1, <4>2
    <3> QED BY <3>1, <3>2, NewTransferSound, AppendSound
  <2> QED BY <2>1, <2>2
<1>2. ASSUME NEW i \in DOMAIN transfers, UploadSucceeds(i) PROVE FtpInv'
  <2>1. /\ DOMAIN transfers' = DOMAIN transfers
        /\ \A k \in DOMAIN transfers \ {i} : transfers'[k] = transfers[k]
        /\ transfers'[i] = [transfers[i] EXCEPT !.status = "VALIDATING", !.at = "validation"]
        /\ transfers[i].at = "upload" /\ UNCHANGED <<centersLeft, transferHistory>>
    BY <1>0, <1>2 DEF UploadSucceeds
  <2>2. /\ transfers'[i] \in TransferRecord /\ transfers'[i].status = "VALIDATING"
        /\ transfers'[i].at = "validation" /\ transfers'[i].retryCount = transfers[i].retryCount
    BY <1>0, <2>1 DEF TransferRecord
  <2>3. TransferSound(transfers'[i]) /\ transfers[i].status # "COMPLETED"
    BY <1>0, <2>1, <2>2 DEF TransferSound
  <2>4. transfers' \in Seq(TransferRecord)
    <3> DEFINE half == [transfers[i] EXCEPT !.status = "VALIDATING"]
               s == [transfers EXCEPT ![i] = half]
    <3>1. half \in TransferRecord /\ [half EXCEPT !.at = "validation"] \in TransferRecord
      BY <1>0 DEF TransferRecord
    <3>2. s \in Seq(TransferRecord) /\ s[i] = half /\ i \in DOMAIN s
      BY <1>0, <3>1, OneReplaced
    <3>3. transfers' = [s EXCEPT ![i] = [half EXCEPT !.at = "validation"]]
      BY <1>0, <1>2, <3>2, Zenon DEF UploadSucceeds
    <3> HIDE DEF half, s
    <3> QED BY <3>1, <3>2, <3>3, OneReplaced
  <2> QED BY <2>1, <2>3, <2>4, ReplaceSound
<1>3. ASSUME NEW i \in DOMAIN transfers, ValidationSucceeds(i) PROVE FtpInv'
  <2>1. /\ [transfers[i] EXCEPT !.status = "COMPLETED"] \in TransferRecord
        /\ [transfers[i] EXCEPT !.status = "COMPLETED"].status = "COMPLETED"
    BY <1>0 DEF TransferRecord
  <2> QED BY <1>3, <2>1, SettleSound DEF ValidationSucceeds
<1>4. ASSUME NEW i \in DOMAIN transfers, AttemptFails(i) PROVE FtpInv'
  <2> DEFINE t == [transfers[i] EXCEPT !.retryCount = @ + 1]
  <2>1. transfers[i].at \in {"upload", "validation"}
    BY <1>4 DEF AttemptFails
  <2>2. /\ transfers[i].retryCount \in 0 .. MaxRetries
        /\ transfers[i].status \notin {"COMPLETED", "FAILED"}
    BY <1>0, <2>1 DEF TransferSound, TransferRecord
  <2>3. transfers[i].retryCount + 1 \in 0 .. MaxRetries + 1
    BY <1>0, <2>2
  <2>4. /\ t \in TransferRecord /\ t.retryCount = transfers[i].retryCount + 1
        /\ t.status = transfers[i].status
    BY <1>0, <2>3 DEF TransferRecord
  <2>5. CASE t.retryCount > MaxRetries
    <3>1. Settle(i, [t EXCEPT !.status = "FAILED"])
      BY <1>4, <2>5 DEF AttemptFails
    <3>2. [t EXCEPT !.status = "FAILED"] \in TransferRecord
          /\ [t EXCEPT !.status = "FAILED"].status = "FAILED"
      BY <2>4 DEF TransferRecord
    <3> HIDE DEF t
    <3> QED BY <2>1, <3>1, <3>2, SettleSound
  <2>6. CASE ~(t.retryCount > MaxRetries)
    <3>1. /\ transfers' = [transfers EXCEPT ![i] = [t EXCEPT !.at = "delay"]]
          /\ UNCHANGED <<centersLeft, transferHistory>>
      BY <1>4, <2>6 DEF AttemptFails
    <3> HIDE DEF t
    <3>2. /\ [t EXCEPT !.at = "delay"] \in TransferRecord /\ [t EXCEPT !.at = "delay"].at = "delay"
          /\ [t EXCEPT !.at = "delay"].retryCount = t.retryCount
          /\ [t EXCEPT !.at = "delay"].status = t.status
      BY <2>4 DEF TransferRecord
    <3>3. t.retryCount <= MaxRetries
      BY <1>0, <2>2, <2>4, <2>6
    <3>4. TransferSound([t EXCEPT !.at = "delay"])
      BY <2>2, <2>4, <3>2, <3>3 DEF TransferSound
    <3>5. PICK u : u = [t EXCEPT !.at = "delay"]
      OBVIOUS
    <3>6. u \in TransferRecord /\ TransferSound(u)
      BY <3>2, <3>4, <3>5
    <3>7. transfers' = [transfers EXCEPT ![i] = u]
      BY <3>1, <3>5
    <3>8. /\ transfers' \in Seq(TransferRecord) /\ DOMAIN transfers' = DOMAIN transfers
          /\ transfers'[i] = u /\ \A k \in DOMAIN transfers \ {i} : transfers'[k] = transfers[k]
      BY <1>0, <3>6, <3>7
    <3> QED BY <2>2, <3>1, <3>6, <3>8, ReplaceSound
  <2> QED BY <2>5, <2>6
<1>5. ASSUME NEW i \in DOMAIN transfers, DelayEnds(i) PROVE FtpInv'
  <2>1. /\ transfers[i].at = "delay" /\ transfers' = [transfers EXCEPT ![i] = Attempt(transfers[i])]
        /\ UNCHANGED <<centersLeft, transferHistory>>
    BY <1>5 DEF DelayEnds
  <2>2. TransferSound(Attempt(transfers[i])) /\ transfers[i].status # "COMPLETED"
    BY <1>0, <2>1, AttemptFields DEF TransferSound
  <2> QED BY <1>0, <2>1, <2>2, AttemptFields, ReplaceSound, SMTT(30)
<1>6. ASSUME NEW i \in DOMAIN transfers, RetryTransfer(i) PROVE FtpInv'
  <2> DEFINE t == [transfers[i] EXCEPT !.retryCount = 0, !.request = "retry"]
  <2>1. /\ transfers[i].status = "FAILED" /\ transfers' = [transfers EXCEPT ![i] = Attempt(t)]
        /\ UNCHANGED <<centersLeft, transferHistory>>
    BY <1>6 DEF RetryTransfer, Retriable
  <2>2. t \in TransferRecord /\ t.retryCount = 0
    <3>1. 0 \in 0 .. MaxRetries + 1 /\ "retry" \in Requests \cup {"retry"}
      BY <1>0
    <3> QED BY <1>0, <3>1 DEF TransferRecord
  <2> HIDE DEF t
  <2>3. TransferSound(Attempt(t)) /\ Attempt(t) \in TransferRecord
    BY <1>0, <2>2, AttemptFields DEF TransferSound
  <2> QED BY <1>0, <2>1, <2>3, ReplaceSound
<1> QED BY <1>1, <1>2, <1>3, <1>4, <1>5, <1>6, <1>7 DEF FtpNext, Execute

LEMMA FtpInvariant == FtpSpec => []FtpInv
<1>1. FtpInit => FtpInv
  BY FtpInitSound
<1>2. FtpInv /\ [FtpNext]_transferVars => FtpInv'
  BY FtpStepSound
<1> QED BY <1>1, <1>2, PTL DEF FtpSpec

\* Records, requests and the history keep their types, no attempt is counted past the
\* last, and the history its limit (ftp.service.ts:167-205, 266).
THEOREM FtpTypes == FtpSpec => []FtpTypeOK
<1>1. FtpInv => FtpTypeOK
  BY DEF FtpInv
<1> QED BY <1>1, FtpInvariant, PTL

\* However many distributions and retries by hand overlap, a transfer archived as
\* COMPLETED stays so and is archived so once (ftp.service.ts:187, 266).
THEOREM CompletedStaysCompleted == FtpSpec => []CompletedForGood
<1>1. FtpInv => CompletedForGood
  BY DEF FtpInv
<1> QED BY <1>1, FtpInvariant, PTL

(***************************************************************************)
(* The communication log.                                                  *)
(***************************************************************************)

\* The entries kept are the last ones logged, without a gap.
LogsConsecutive == \A i \in DOMAIN logs : logs[i] = logCounter + 1 - i

\* Every client connected has what was broadcast and can still be looked at.
ClientsCaughtUp ==
  \A c \in logClients : \A i \in DOMAIN logs :
    (i <= LookBack /\ logs[i] <= lastLogId) => logs[i] \in received[c]

\* Of the entries a reader is due, it has seen those its offset has passed, and all
\* of them once it is over.
PagesSound ==
  \A x \in reader.due \cap ToSet(logs) :
    /\ x \in matching
    /\ (Cardinality(Newer(x)) < reader.offset \/ ~reader.reading) => x \in reader.seen

\* The inductive invariant
LogInv ==
  /\ LogTypeOK
  /\ reader \in [offset : Nat, seen : SUBSET Nat, due : SUBSET Nat, reading : BOOLEAN]
  /\ LogsConsecutive
  /\ ClientsCaughtUp
  /\ PagesSound

-----------------------------------------------------------------------------
LEMMA LogConstants ==
  /\ LogCap \in Nat /\ OnConnect \in Nat /\ LookBack \in Nat /\ MaxLogs \in Nat
  /\ PageSize \in Nat \ {0} /\ LookBack <= OnConnect
BY LogAssumption DEF LogAssumption

\* Consecutive entries, newest first, are an interval.
LEMMA Consecutive ==
  ASSUME NEW c \in Nat, NEW l \in Seq(Nat), \A i \in DOMAIN l : l[i] = c + 1 - i
  PROVE  ToSet(l) = c + 1 - Len(l) .. c
<1>1. DOMAIN l = 1 .. Len(l) /\ Len(l) \in Nat
  OBVIOUS
<1>2. ASSUME NEW x \in ToSet(l) PROVE x \in c + 1 - Len(l) .. c
  <2>1. PICK i \in DOMAIN l : x = l[i]
    BY <1>2 DEF ToSet
  <2> QED BY <1>1, <2>1
<1>3. ASSUME NEW x \in c + 1 - Len(l) .. c PROVE x \in ToSet(l)
  <2>1. c + 1 - x \in DOMAIN l /\ l[c + 1 - x] = x
    BY <1>1
  <2> QED BY <2>1 DEF ToSet
<1> QED BY <1>2, <1>3

\* A nonempty set of numbers up to c has a greatest.
LEMMA GreatestOf ==
  ASSUME NEW c \in Nat, NEW T \in SUBSET (1 .. c), T # {}
  PROVE  \E m \in T : \A x \in T : x <= m
<1> DEFINE D == {c - t : t \in T}
<1>1. D \in SUBSET Nat /\ D # {}
  <2>1. \A t \in T : c - t \in Nat
    OBVIOUS
  <2> QED BY <2>1
<1>2. PICK m \in T : Min(D) = c - m
  BY <1>1, MinOfNaturals
<1>3. \A x \in T : Min(D) <= c - x
  BY <1>1, MinOfNaturals
<1>4. \A x \in T : x <= m
  BY <1>2, <1>3
<1> QED BY <1>4

\* A set of numbers up to n is finite.
LEMMA UpToFinite ==
  ASSUME NEW n \in Nat, NEW T \in SUBSET (1 .. n)
  PROVE  IsFiniteSet(T) /\ Cardinality(T) \in Nat
<1>1. IsFiniteSet(1 .. n)
  BY FS_Interval
<1>2. IsFiniteSet(T)
  BY <1>1, FS_Subset
<1> QED BY <1>2, FS_CardinalityType

Above(S, x) == {n \in S : n > x}
First(S, k) == {x \in S : Cardinality(Above(S, x)) < k}

LEMMA AboveFinite ==
  ASSUME NEW c \in Nat, NEW S \in SUBSET (1 .. c), NEW x
  PROVE  /\ IsFiniteSet(S) /\ IsFiniteSet(Above(S, x)) /\ Cardinality(Above(S, x)) \in Nat
         /\ \A T \in SUBSET S : IsFiniteSet(T) /\ Cardinality(T) \in Nat
<1>1. IsFiniteSet(S)
  <2>1. IsFiniteSet(1 .. c)
    BY FS_Interval
  <2> QED BY <2>1, FS_Subset
<1>2. \A T \in SUBSET S : IsFiniteSet(T) /\ Cardinality(T) \in Nat
  BY <1>1, FS_Subset, FS_CardinalityType
<1> QED BY <1>1, <1>2 DEF Above

\* The first k of a set, from the greatest, are k unless they are all of it.
LEMMA FirstSize ==
  ASSUME NEW c \in Nat, NEW S \in SUBSET (1 .. c), NEW k \in Nat, First(S, k) # S
  PROVE  Cardinality(First(S, k)) = k
<1> DEFINE A == First(S, k)
<1>0. \A x \in S : x \in Nat
  OBVIOUS
<1>1. /\ A \in SUBSET S /\ IsFiniteSet(A) /\ Cardinality(A) \in Nat
      /\ \A x : IsFiniteSet(Above(S, x)) /\ Cardinality(Above(S, x)) \in Nat
  <2>1. A \in SUBSET S
    BY DEF First
  <2> QED BY <2>1, AboveFinite
<1>2. \A x, y \in S : x < y => Cardinality(Above(S, y)) < Cardinality(Above(S, x))
  <2> SUFFICES ASSUME NEW x \in S, NEW y \in S, x < y
               PROVE  Cardinality(Above(S, y)) < Cardinality(Above(S, x))
    OBVIOUS
  <2>1. Above(S, y) \cup {y} \in SUBSET Above(S, x) /\ y \notin Above(S, y)
    <3>1. \A n \in S : n > y => n > x
      BY <1>0
    <3>2. ~(y > y) /\ y > x
      BY <1>0
    <3> QED BY <3>1, <3>2 DEF Above
  <2>2. Cardinality(Above(S, y) \cup {y}) = Cardinality(Above(S, y)) + 1
    BY <1>1, <2>1, FS_AddElement
  <2>3. Cardinality(Above(S, y) \cup {y}) <= Cardinality(Above(S, x))
    BY <1>1, <2>1, FS_Subset
  <2>4. Cardinality(Above(S, y)) \in Nat /\ Cardinality(Above(S, x)) \in Nat
    BY <1>1
  <2> QED BY <2>2, <2>3, <2>4
<1>3. PICK m \in S \ A : \A x \in S \ A : x <= m
  BY <1>1, GreatestOf
<1>4. Cardinality(Above(S, m)) >= k
  BY <1>1, <1>3 DEF First
<1>5. A = Above(S, m)
  <2>1. ASSUME NEW x \in A PROVE x \in Above(S, m)
    <3>1. Cardinality(Above(S, x)) < k /\ x \in S
      BY DEF First
    <3>2. Cardinality(Above(S, x)) \in Nat /\ Cardinality(Above(S, m)) \in Nat
      BY <1>1
    <3>3. ~(x < m) /\ x # m
      BY <1>2, <1>3, <1>4, <3>1, <3>2
    <3> QED BY <1>3, <3>1, <3>3 DEF Above
  <2>2. ASSUME NEW x \in Above(S, m) PROVE x \in A
    BY <1>3 DEF Above
  <2> QED BY <2>1, <2>2
<1>6. Cardinality(A) <= k
  <2>1. CASE A = {}
    BY <1>1, <2>1, FS_EmptySet
  <2>2. CASE A # {}
    <3>1. A \in SUBSET Nat
      BY <1>0, <1>1
    <3>2. Min(A) \in A /\ \A x \in A : Min(A) <= x
      BY <2>2, <3>1, MinOfNaturals
    <3> DEFINE y == Min(A)
    <3> HIDE DEF y
    <3>3. y \in A /\ \A x \in A : y <= x
      BY <3>2 DEF y
    <3>4. Cardinality(Above(S, y)) < k /\ y \in S
      BY <3>3 DEF First
    <3>5. A \ {y} \in SUBSET Above(S, y)
      BY <1>1, <3>1, <3>3 DEF Above
    <3>6. Cardinality(A \ {y}) <= Cardinality(Above(S, y))
      BY <1>1, <3>5, FS_Subset
    <3>7. Cardinality(A \ {y}) = Cardinality(A) - 1
      BY <1>1, <3>3, FS_RemoveElement
    <3>8. Cardinality(A) \in Nat /\ Cardinality(Above(S, y)) \in Nat
      BY <1>1
    <3> HIDE DEF A
    <3> QED BY <3>4, <3>6, <3>7, <3>8
  <2> QED BY <2>1, <2>2
<1>7. Cardinality(A) \in Nat /\ Cardinality(A) >= k
  BY <1>1, <1>4, <1>5
<1> HIDE DEF A
<1>8. Cardinality(A) = k
  BY <1>6, <1>7
<1> QED BY <1>8 DEF A

\* A page that is not full is the last one (comm-log.service.ts:141-146).
LEMMA ShortPage ==
  ASSUME NEW c \in Nat, NEW S \in SUBSET (1 .. c), NEW o \in Nat, NEW p \in Nat,
         Cardinality({x \in S : Cardinality(Above(S, x)) \in o .. o + p - 1}) # p
  PROVE  \A x \in S : Cardinality(Above(S, x)) < o + p
<1> DEFINE page == {x \in S : Cardinality(Above(S, x)) \in o .. o + p - 1}
<1>1. \A x : Cardinality(Above(S, x)) \in Nat
  BY AboveFinite
<1>2. page = First(S, o + p) \ First(S, o) /\ First(S, o) \subseteq First(S, o + p)
  BY <1>1 DEF First
<1>3. First(S, o) \in SUBSET S /\ First(S, o + p) \in SUBSET S /\ o + p \in Nat
  BY DEF First
<1>4. ASSUME First(S, o + p) # S PROVE FALSE
  <2>1. Cardinality(First(S, o + p)) = o + p
    BY <1>3, <1>4, FirstSize
  <2>2. Cardinality(First(S, o)) = o
    BY <1>2, <1>3, <1>4, FirstSize
  <2>3. IsFiniteSet(First(S, o + p))
    BY <1>3, AboveFinite
  <2>4. First(S, o + p) \cap First(S, o) = First(S, o)
    BY <1>2
  <2>5. Cardinality(page) = Cardinality(First(S, o + p)) - Cardinality(First(S, o))
    <3> DEFINE A == First(S, o + p)
               B == First(S, o)
    <3>1. page = A \ B /\ A \cap B = B /\ IsFiniteSet(A)
      BY <1>2, <2>3, <2>4
    <3> HIDE DEF page, A, B
    <3>2. Cardinality(A \ B) = Cardinality(A) - Cardinality(A \cap B)
      BY <3>1, FS_Difference
    <3> QED BY <3>1, <3>2 DEF A, B
  <2> HIDE DEF page
  <2>6. Cardinality(page) = p
    BY <2>1, <2>2, <2>5
  <2> QED BY <2>6 DEF page
<1> QED BY <1>4 DEF First
-----------------------------------------------------------------------------
LEMMA LogInitSound == ASSUME LogInit PROVE LogInv
<1>1. /\ logs = <<>> /\ logCounter = 0 /\ logClients = {} /\ lastLogId = 0
      /\ received = [c \in LogClients |-> {}] /\ matching = {} /\ reader = Finished
  BY DEF LogInit
<1>2. reader.seen = {} /\ reader.due = {} /\ reader.offset = 0 /\ reader.reading = FALSE
  BY <1>1 DEF Finished
<1>3. logs \in Seq(1 .. logCounter) /\ Len(logs) = 0 /\ DOMAIN logs = {}
  BY <1>1
<1>4. LogTypeOK
  BY <1>1, <1>2, <1>3, LogConstants DEF LogTypeOK
<1>5. reader \in [offset : Nat, seen : SUBSET Nat, due : SUBSET Nat, reading : BOOLEAN]
  BY <1>1 DEF Finished
<1> QED BY <1>1, <1>2, <1>3, <1>4, <1>5
        DEF LogInv, LogsConsecutive, ClientsCaughtUp, PagesSound

\* What the invariant says of the entries kept, at hand for each step.
LEMMA LogFacts ==
  ASSUME LogInv
  PROVE  /\ logCounter \in Nat /\ lastLogId \in 0 .. logCounter /\ Len(logs) \in Nat
         /\ logs \in Seq(1 .. logCounter) /\ logs \in Seq(Nat)
         /\ DOMAIN logs = 1 .. Len(logs) /\ Len(logs) <= LogCap
         /\ \A i \in DOMAIN logs : logs[i] = logCounter + 1 - i
         /\ ToSet(logs) = logCounter + 1 - Len(logs) .. logCounter
         /\ Matches \in SUBSET (1 .. logCounter)
         /\ reader.due \subseteq 1 .. logCounter
         /\ reader.offset \in Nat /\ reader.reading \in BOOLEAN
<1>1. /\ logCounter \in Nat /\ lastLogId \in 0 .. logCounter /\ logs \in Seq(1 .. logCounter)
      /\ Len(logs) <= LogCap /\ matching \subseteq 1 .. logCounter /\ reader.due \subseteq 1 .. logCounter
  BY DEF LogInv, LogTypeOK
<1>2. logs \in Seq(Nat) /\ Len(logs) \in Nat /\ DOMAIN logs = 1 .. Len(logs)
  BY <1>1
<1>3. \A i \in DOMAIN logs : logs[i] = logCounter + 1 - i
  BY DEF LogInv, LogsConsecutive
<1>4. ToSet(logs) = logCounter + 1 - Len(logs) .. logCounter
  BY <1>1, <1>2, <1>3, Consecutive
<1>5. reader.offset \in Nat /\ reader.reading \in BOOLEAN
  BY DEF LogInv
<1> QED BY <1>1, <1>2, <1>3, <1>4, <1>5 DEF Matches

\* The entries a lookup returns are the first ones kept.
LEMMA RecentOnes ==
  ASSUME LogInv, NEW n \in Nat
  PROVE  /\ Len(GetRecentLogs(n)) = IF Len(logs) < n THEN Len(logs) ELSE n
         /\ DOMAIN GetRecentLogs(n) = {i \in DOMAIN logs : i <= n}
         /\ \A i \in DOMAIN GetRecentLogs(n) : GetRecentLogs(n)[i] = logs[i]
<1> DEFINE k == IF Len(logs) < n THEN Len(logs) ELSE n
<1>1. logs \in Seq(Nat) /\ Len(logs) \in Nat /\ DOMAIN logs = 1 .. Len(logs)
  BY LogFacts
<1>2. k \in Nat /\ k <= Len(logs) /\ \A i \in 1 .. Len(logs) : i <= k <=> i <= n
  BY <1>1
<1>3. GetRecentLogs(n) = SubSeq(logs, 1, k)
  BY DEF GetRecentLogs
<1> HIDE DEF k
<1>4. Len(SubSeq(logs, 1, k)) = k /\ \A i \in 1 .. k : SubSeq(logs, 1, k)[i] = logs[i]
  BY <1>1, <1>2
<1>5. DOMAIN SubSeq(logs, 1, k) = 1 .. k
  BY <1>1, <1>2
<1>6. 1 .. k = {i \in DOMAIN logs : i <= n}
  BY <1>1, <1>2
<1> QED BY <1>3, <1>4, <1>5, <1>6 DEF k

\* Less kept, and nothing else changed but for entries put in front: what is sound of
\* the pages stays so.
LEMMA PagesStay ==
  ASSUME LogInv, UNCHANGED reader, logCounter' \in Nat, logCounter <= logCounter',
         matching' \cap 1 .. logCounter = matching \cap 1 .. logCounter,
         ToSet(logs') \subseteq 1 .. logCounter',
         \A x \in ToSet(logs') : x <= logCounter => x \in ToSet(logs),
         \A x \in ToSet(logs'), n \in ToSet(logs) : x < n => n \in ToSet(logs')
  PROVE  PagesSound'
<1> SUFFICES ASSUME NEW x \in reader.due \cap ToSet(logs')
             PROVE  /\ x \in matching'
                    /\ (Cardinality(Newer(x)') < reader.offset \/ ~reader.reading) => x \in reader.seen
  BY DEF PagesSound
<1>1. x \in 1 .. logCounter /\ x \in ToSet(logs) /\ logCounter \in Nat
  BY LogFacts
<1>2. /\ x \in matching
      /\ (Cardinality(Newer(x)) < reader.offset \/ ~reader.reading) => x \in reader.seen
  BY <1>1 DEF LogInv, PagesSound
<1>3. Newer(x) \subseteq Newer(x)' /\ Newer(x)' \subseteq 1 .. logCounter'
  <2>1. Matches \subseteq 1 .. logCounter
    BY LogFacts
  <2>2. \A n \in Newer(x) : n \in Newer(x)'
    BY <1>1, <2>1 DEF Newer, Matches
  <2> QED BY <2>2 DEF Newer, Matches
<1>4. Cardinality(Newer(x)) <= Cardinality(Newer(x)')
  <2>1. IsFiniteSet(Newer(x)')
    BY <1>3, UpToFinite
  <2> QED BY <1>3, <2>1, FS_Subset
<1>5. Cardinality(Newer(x)) \in Nat /\ Cardinality(Newer(x)') \in Nat
  <2>1. Newer(x) \subseteq 1 .. logCounter'
    BY <1>3
  <2> QED BY <1>3, <2>1, UpToFinite
<1>6. reader.offset \in Nat
  BY LogFacts
<1> QED BY <1>1, <1>2, <1>4, <1>5, <1>6

LEMMA LogSound == ASSUME LogInv, Log PROVE LogInv'
<1> DEFINE c == logCounter
<1>1. /\ c \in Nat /\ lastLogId \in 0 .. c /\ Len(logs) \in Nat /\ logs \in Seq(1 .. c)
      /\ DOMAIN logs = 1 .. Len(logs) /\ \A i \in DOMAIN logs : logs[i] = c + 1 - i
      /\ reader.due \subseteq 1 .. c /\ reader.offset \in Nat
      /\ ToSet(logs) = c + 1 - Len(logs) .. c
  BY LogFacts
<1>2. /\ logCounter' = c + 1 /\ (matching' = matching \/ matching' = matching \cup {c + 1})
      /\ UNCHANGED <<logClients, lastLogId, received, reader>>
      /\ logs' = IF Len(<<c + 1>> \o logs) > LogCap
                   THEN SubSeq(<<c + 1>> \o logs, 1, LogCap) ELSE <<c + 1>> \o logs
  BY DEF Log
<1> HIDE DEF c
<1>3. logs \in Seq(1 .. c + 1) /\ c + 1 \in 1 .. c + 1
  <2>1. \A i \in 1 .. Len(logs) : logs[i] \in 1 .. c + 1
    BY <1>1
  <2> QED BY <1>1, <2>1
<1>4. /\ logs' \in Seq(1 .. c + 1) /\ Len(logs') <= LogCap
      /\ \A k \in DOMAIN logs' : k = 1 => logs'[k] = c + 1
      /\ \A k \in DOMAIN logs' : k # 1 => k - 1 \in DOMAIN logs /\ logs'[k] = logs[k - 1]
  <2> DEFINE S == 1 .. c + 1
             e == c + 1
  <2>1. logs \in Seq(S) /\ e \in S /\ LogCap \in Nat
    BY <1>3, LogConstants
  <2>2. logs' = IF Len(<<e>> \o logs) > LogCap
                  THEN SubSeq(<<e>> \o logs, 1, LogCap) ELSE <<e>> \o logs
    BY <1>2
  <2> HIDE DEF S, e
  <2>3. /\ logs' \in Seq(S) /\ Len(logs') <= LogCap
        /\ \A k \in DOMAIN logs' : k = 1 => logs'[k] = e
        /\ \A k \in DOMAIN logs' : k # 1 => k - 1 \in DOMAIN logs /\ logs'[k] = logs[k - 1]
    BY <2>1, <2>2, CutPrepend, SMTT(30)
  <2> QED BY <2>3 DEF S, e
<1>5. Len(logs') \in Nat /\ DOMAIN logs' = 1 .. Len(logs') /\ logs' \in Seq(Nat)
  <2>1. Len(logs') \in Nat /\ DOMAIN logs' = 1 .. Len(logs')
    BY <1>4
  <2>2. \A k \in 1 .. Len(logs') : logs'[k] \in Nat
    BY <1>1, <1>4, <2>1
  <2> QED BY <1>4, <2>1, <2>2
<1>6. \A k \in DOMAIN logs' : logs'[k] = c + 2 - k
  <2> SUFFICES ASSUME NEW k \in DOMAIN logs' PROVE logs'[k] = c + 2 - k
    OBVIOUS
  <2>1. CASE k = 1
    BY <1>1, <1>4, <2>1
  <2>2. CASE k # 1
    <3>1. logs'[k] = c + 1 - (k - 1) /\ k \in Nat
      BY <1>1, <1>4, <1>5, <2>2
    <3> QED BY <1>1, <3>1
  <2> QED BY <2>1, <2>2
<1>7. ToSet(logs') = c + 2 - Len(logs') .. c + 1
  <2>1. c + 1 \in Nat /\ \A k \in DOMAIN logs' : logs'[k] = (c + 1) + 1 - k
    BY <1>1, <1>5, <1>6
  <2>2. ToSet(logs') = (c + 1) + 1 - Len(logs') .. c + 1
    BY <1>5, <2>1, Consecutive
  <2> QED BY <1>1, <1>5, <2>2
<1>8. LogTypeOK'
  <2>1. logs' \in Seq(1 .. logCounter') /\ Len(logs') <= LogCap
    BY <1>2, <1>4
  <2>2. logCounter' \in Nat /\ lastLogId' \in 0 .. logCounter' /\ 1 .. c \subseteq 1 .. logCounter'
    BY <1>1, <1>2
  <2>3. logClients' \subseteq LogClients /\ received' \in [LogClients -> SUBSET (1 .. logCounter')]
    BY <1>2, <2>2 DEF LogInv, LogTypeOK, c
  <2>4. matching' \cup reader'.seen \cup reader'.due \subseteq 1 .. logCounter'
    <3>1. matching \cup reader.seen \cup reader.due \subseteq 1 .. c
      BY DEF LogInv, LogTypeOK, c
    <3> QED BY <1>1, <1>2, <2>2, <3>1
  <2> QED BY <2>1, <2>2, <2>3, <2>4 DEF LogTypeOK
<1>9. LogsConsecutive'
  <2>1. \A k \in DOMAIN logs' : logs'[k] = (c + 1) + 1 - k
    BY <1>1, <1>5, <1>6
  <2> QED BY <1>2, <2>1 DEF LogsConsecutive
<1>10. ClientsCaughtUp'
  <2> SUFFICES ASSUME NEW b \in logClients, NEW i \in DOMAIN logs', i <= LookBack,
                      logs'[i] <= lastLogId
               PROVE  logs'[i] \in received[b]
    BY <1>2 DEF ClientsCaughtUp
  <2>1. i # 1 /\ i \in Nat
    BY <1>1, <1>4, <1>5
  <2>2. i - 1 \in DOMAIN logs /\ logs'[i] = logs[i - 1] /\ i - 1 <= LookBack
    BY <1>4, <2>1, LogConstants
  <2> QED BY <2>2 DEF LogInv, ClientsCaughtUp
<1>11. PagesSound'
  <2>1. c + 1 \in Nat /\ c <= c + 1 /\ ToSet(logs') \subseteq 1 .. c + 1
    <3>1. Len(logs') <= c + 1
      <4>1. CASE Len(logs') = 0
        BY <1>1, <4>1
      <4>2. CASE Len(logs') # 0
        <5>1. Len(logs') \in DOMAIN logs' /\ logs'[Len(logs')] \in 1 .. c + 1
          BY <1>4, <1>5, <4>2
        <5>2. logs'[Len(logs')] = c + 2 - Len(logs')
          BY <1>6, <5>1
        <5> QED BY <1>1, <1>5, <5>1, <5>2
      <4> QED BY <4>1, <4>2
    <3> QED BY <1>1, <1>5, <1>7, <3>1
  <2>2. matching' \cap 1 .. c = matching \cap 1 .. c
    <3>1. c + 1 \notin 1 .. c
      BY <1>1
    <3> QED BY <1>2, <3>1
  <2>3. \A x \in ToSet(logs') : x <= c => x \in ToSet(logs)
    <3> SUFFICES ASSUME NEW x \in ToSet(logs'), x <= c PROVE x \in ToSet(logs)
      OBVIOUS
    <3>1. PICK k \in DOMAIN logs' : x = logs'[k]
      BY DEF ToSet
    <3>2. k # 1
      BY <1>1, <1>4, <3>1
    <3> QED BY <1>4, <3>1, <3>2 DEF ToSet
  <2>4. \A x \in ToSet(logs'), n \in ToSet(logs) : x < n => n \in ToSet(logs')
    BY <1>1, <1>5, <1>7
  <2> QED BY <1>2, <2>1, <2>2, <2>3, <2>4, PagesStay DEF c
<1> QED BY <1>2, <1>8, <1>9, <1>10, <1>11 DEF LogInv

LEMMA CleanupSound ==
  ASSUME LogInv, NEW kept \in 0 .. Len(logs), CleanupExpiredLogs(kept) PROVE LogInv'
<1>1. /\ logCounter \in Nat /\ Len(logs) \in Nat /\ logs \in Seq(1 .. logCounter)
      /\ DOMAIN logs = 1 .. Len(logs) /\ \A i \in DOMAIN logs : logs[i] = logCounter + 1 - i
      /\ ToSet(logs) = logCounter + 1 - Len(logs) .. logCounter /\ Len(logs) <= LogCap
  BY LogFacts
<1>2. /\ logs' = SubSeq(logs, 1, kept)
      /\ UNCHANGED <<logCounter, logClients, lastLogId, received, matching, reader>>
  BY DEF CleanupExpiredLogs
<1>3. kept \in Nat /\ kept <= Len(logs)
  BY <1>1
<1>4. /\ logs' \in Seq(1 .. logCounter) /\ Len(logs') = kept /\ DOMAIN logs' = 1 .. kept
      /\ \A i \in 1 .. kept : logs'[i] = logs[i] /\ i \in DOMAIN logs
  BY <1>1, <1>2, <1>3
<1>5. LogTypeOK'
  <2>1. Len(logs') <= LogCap
    BY <1>1, <1>3, <1>4, LogConstants
  <2> QED BY <1>2, <1>4, <2>1 DEF LogInv, LogTypeOK
<1>6. LogsConsecutive'
  BY <1>1, <1>2, <1>4 DEF LogsConsecutive
<1>7. ClientsCaughtUp'
  BY <1>2, <1>4 DEF LogInv, ClientsCaughtUp
<1>8. PagesSound'
  <2>1. logs' \in Seq(Nat) /\ \A i \in DOMAIN logs' : logs'[i] = logCounter + 1 - i
    <3>1. \A i \in 1 .. kept : logs'[i] \in Nat
      BY <1>1, <1>4
    <3> QED BY <1>1, <1>4, <3>1
  <2>2. ToSet(logs') = logCounter + 1 - kept .. logCounter
    BY <1>1, <1>4, <2>1, Consecutive
  <2>3. ToSet(logs') \subseteq ToSet(logs)
    BY <1>4 DEF ToSet
  <2>4. ToSet(logs) \subseteq 1 .. logCounter
    BY <1>1 DEF ToSet
  <2>5. \A x \in ToSet(logs'), n \in ToSet(logs) : x < n => n \in ToSet(logs')
    BY <1>1, <1>3, <2>2
  <2> QED BY <1>1, <1>2, <2>3, <2>4, <2>5, PagesStay
<1> QED BY <1>2, <1>5, <1>6, <1>7, <1>8 DEF LogInv

\* Steps of the feed leave the entries and the pages alone.
LEMMA FeedLeavesPages ==
  ASSUME LogInv, UNCHANGED <<logs, logCounter, matching, reader>>
  PROVE  /\ LogsConsecutive' /\ PagesSound'
         /\ reader' \in [offset : Nat, seen : SUBSET Nat, due : SUBSET Nat, reading : BOOLEAN]
<1>1. Matches' = Matches
  BY DEF Matches
<1>2. \A x : Newer(x)' = Newer(x)
  BY <1>1 DEF Newer
<1>3. PagesSound'
  BY <1>2 DEF LogInv, PagesSound
<1> QED BY <1>3 DEF LogInv, LogsConsecutive

\* A new client is greeted with at least what broadcasts look at.
LEMMA ConnectionSound ==
  ASSUME LogInv, NEW b \in LogClients, HandleConnection(b) \/ HandleDisconnect(b) PROVE LogInv'
<1>1. UNCHANGED <<logs, logCounter, lastLogId, matching, reader>>
  BY DEF HandleConnection, HandleDisconnect
<1>2. /\ logCounter \in Nat /\ logs \in Seq(1 .. logCounter) /\ DOMAIN logs = 1 .. Len(logs)
      /\ Len(logs) \in Nat
  BY LogFacts
<1>3. received \in [LogClients -> SUBSET (1 .. logCounter)] /\ logClients \subseteq LogClients
  BY DEF LogInv, LogTypeOK
<1>4. /\ DOMAIN GetRecentLogs(OnConnect) = {i \in DOMAIN logs : i <= OnConnect}
      /\ \A i \in DOMAIN GetRecentLogs(OnConnect) : GetRecentLogs(OnConnect)[i] = logs[i]
  BY RecentOnes, LogConstants
<1>5. Greeting \subseteq 1 .. logCounter
  BY <1>2, <1>4 DEF Greeting, ToSet
<1>6. \A i \in DOMAIN logs : i <= LookBack => logs[i] \in Greeting
  <2> SUFFICES ASSUME NEW i \in DOMAIN logs, i <= LookBack PROVE logs[i] \in Greeting
    OBVIOUS
  <2>1. i <= OnConnect
    BY <1>2, LogConstants
  <2> QED BY <1>4, <2>1 DEF Greeting, ToSet
<1>7. CASE HandleConnection(b)
  <2>1. logClients' = logClients \cup {b} /\ received' = [received EXCEPT ![b] = Greeting]
    BY <1>7 DEF HandleConnection
  <2>2. received' \in [LogClients -> SUBSET (1 .. logCounter)] /\ logClients' \subseteq LogClients
    BY <1>3, <1>5, <2>1
  <2>3. ClientsCaughtUp'
    BY <1>1, <1>3, <1>6, <2>1 DEF LogInv, ClientsCaughtUp
  <2> QED BY <1>1, <2>2, <2>3, FeedLeavesPages DEF LogInv, LogTypeOK
<1>8. CASE HandleDisconnect(b)
  <2>1. logClients' = logClients \ {b} /\ received' = [received EXCEPT ![b] = {}]
    BY <1>8 DEF HandleDisconnect
  <2>2. received' \in [LogClients -> SUBSET (1 .. logCounter)] /\ logClients' \subseteq LogClients
    BY <1>3, <2>1
  <2>3. ClientsCaughtUp'
    BY <1>1, <1>3, <2>1 DEF LogInv, ClientsCaughtUp
  <2> QED BY <1>1, <2>2, <2>3, FeedLeavesPages DEF LogInv, LogTypeOK
<1> QED BY <1>7, <1>8

\* After a broadcast every client has all it looked at (logs.gateway.ts:55-69).
LEMMA BroadcastReaches ==
  ASSUME LogInv, BroadcastNewLogs
  PROVE  /\ lastLogId' = logs[1] /\ logs[1] \in 1 .. logCounter
         /\ received' \in [LogClients -> SUBSET (1 .. logCounter)]
         /\ \A b \in logClients, i \in DOMAIN logs : i <= LookBack => logs[i] \in received'[b]
<1>1. /\ logCounter \in Nat /\ logs \in Seq(1 .. logCounter) /\ DOMAIN logs = 1 .. Len(logs)
      /\ Len(logs) \in Nat /\ \A i \in DOMAIN logs : logs[i] = logCounter + 1 - i
      /\ lastLogId \in Nat
  BY LogFacts
<1>2. /\ DOMAIN GetRecentLogs(LookBack) = {i \in DOMAIN logs : i <= LookBack}
      /\ \A i \in DOMAIN GetRecentLogs(LookBack) : GetRecentLogs(LookBack)[i] = logs[i]
  BY RecentOnes, LogConstants
<1>3. /\ logs # <<>> /\ lastLogId' = logs[1]
      /\ received' = [b \in LogClients |->
                        IF b \in logClients THEN received[b] \cup NewLogs ELSE received[b]]
  BY DEF BroadcastNewLogs
<1>4. 1 \in DOMAIN logs /\ logs[1] \in 1 .. logCounter
  BY <1>1, <1>3
<1>5. NewLogs \subseteq 1 .. logCounter
  BY <1>1, <1>2 DEF NewLogs
<1>6. received \in [LogClients -> SUBSET (1 .. logCounter)] /\ logClients \subseteq LogClients
  BY DEF LogInv, LogTypeOK
<1>7. received' \in [LogClients -> SUBSET (1 .. logCounter)]
  BY <1>3, <1>5, <1>6
<1>8. ASSUME NEW b \in logClients, NEW i \in DOMAIN logs, i <= LookBack
      PROVE  logs[i] \in received'[b]
  <2>1. received'[b] = received[b] \cup NewLogs
    BY <1>3, <1>6
  <2>2. CASE logs[i] <= lastLogId
    BY <1>8, <2>1, <2>2 DEF LogInv, ClientsCaughtUp
  <2>3. CASE ~(logs[i] <= lastLogId)
    <3>1. i \in DOMAIN GetRecentLogs(LookBack) /\ i \in Nat /\ GetRecentLogs(LookBack)[i] = logs[i]
      BY <1>1, <1>2, <1>8
    <3>2. \A h \in 1 .. i : h \in DOMAIN GetRecentLogs(LookBack)
      BY <1>1, <1>2, <1>8, LogConstants
    <3>3. \A h \in 1 .. i : GetRecentLogs(LookBack)[h] # lastLogId
      BY <1>1, <1>2, <2>3, <3>1, <3>2, SMTT(30)
    <3>4. logs[i] \in NewLogs
      BY <3>1, <3>3 DEF NewLogs
    <3> QED BY <2>1, <3>4
  <2> QED BY <2>2, <2>3
<1> QED BY <1>3, <1>4, <1>7, <1>8

LEMMA BroadcastSound == ASSUME LogInv, BroadcastNewLogs PROVE LogInv'
<1>1. UNCHANGED <<logs, logCounter, logClients, matching, reader>>
  BY DEF BroadcastNewLogs
<1>2. ClientsCaughtUp'
  BY <1>1, BroadcastReaches DEF ClientsCaughtUp
<1>3. LogTypeOK'
  <2>1. lastLogId' \in 0 .. logCounter'
    BY <1>1, BroadcastReaches, LogFacts
  <2> QED BY <1>1, <2>1, BroadcastReaches DEF LogInv, LogTypeOK
<1> QED BY <1>1, <1>2, <1>3, FeedLeavesPages DEF LogInv

\* A page, and the end with the first short one (comm-log.service.ts:141-146).
LEMMA PageSound == ASSUME LogInv, reader.reading \/ reader = Finished, ReadPage PROVE LogInv'
<1> DEFINE page == GetLogs(reader.offset, PageSize)
           o == reader.offset
<1>1. /\ logCounter \in Nat /\ Matches \in SUBSET (1 .. logCounter) /\ o \in Nat
      /\ reader.due \subseteq 1 .. logCounter /\ reader.reading \in BOOLEAN
  BY LogFacts
<1>2. /\ reader' = [offset |-> o + PageSize, seen |-> reader.seen \cup page,
                    due |-> IF reader.reading THEN reader.due ELSE Matches,
                    reading |-> Cardinality(page) = PageSize]
      /\ UNCHANGED <<logs, logCounter, logClients, lastLogId, received, matching>>
  BY DEF ReadPage
<1>3. page = {x \in Matches : Cardinality(Newer(x)) \in o .. o + PageSize - 1}
      /\ \A x : Newer(x) = Above(Matches, x)
  BY DEF GetLogs, Newer, Above
<1>4. page \subseteq Matches /\ PageSize \in Nat \ {0}
  BY <1>3, LogConstants
<1> HIDE DEF page, o
<1>5. /\ reader'.offset = o + PageSize /\ reader'.seen = reader.seen \cup page
      /\ reader'.due = (IF reader.reading THEN reader.due ELSE Matches)
      /\ reader'.reading <=> Cardinality(page) = PageSize
  <2> DEFINE full == Cardinality(page) = PageSize
             due == IF reader.reading THEN reader.due ELSE Matches
  <2>1. reader' = [offset |-> o + PageSize, seen |-> reader.seen \cup page,
                   due |-> due, reading |-> full]
    BY <1>2
  <2> HIDE DEF full, due
  <2>2. /\ reader'.offset = o + PageSize /\ reader'.seen = reader.seen \cup page
        /\ reader'.due = due /\ reader'.reading = full
    BY <2>1
  <2> QED BY <2>2, Zenon DEF full, due
<1>6. matching \cup reader.seen \cup reader.due \subseteq 1 .. logCounter
  BY DEF LogInv, LogTypeOK
<1>7. matching' \cup reader'.seen \cup reader'.due \subseteq 1 .. logCounter'
  BY <1>1, <1>2, <1>4, <1>5, <1>6
<1>8. reader' \in [offset : Nat, seen : SUBSET Nat, due : SUBSET Nat, reading : BOOLEAN]
  <2>1. o + PageSize \in Nat
    BY <1>1, <1>4
  <2>2. reader.seen \cup page \in SUBSET Nat /\ reader.due \in SUBSET Nat /\ Matches \in SUBSET Nat
    <3>1. 1 .. logCounter \subseteq Nat
      OBVIOUS
    <3> QED BY <1>1, <1>4, <1>6, <3>1
  <2>3. (Cardinality(page) = PageSize) \in BOOLEAN
    OBVIOUS
  <2> QED BY <1>2, <2>1, <2>2, <2>3
<1>9. PagesSound'
  <2> SUFFICES ASSUME NEW x \in reader'.due \cap ToSet(logs)
               PROVE  /\ x \in matching
                      /\ (Cardinality(Newer(x)) < reader'.offset \/ ~reader'.reading)
                           => x \in reader'.seen
    <3>1. Matches' = Matches /\ \A x : Newer(x)' = Newer(x)
      BY <1>2 DEF Matches, Newer
    <3> QED BY <1>2, <3>1 DEF PagesSound
  <2>1. /\ x \in Matches
        /\ Cardinality(Newer(x)) < o => x \in reader.seen
    <3>1. CASE reader.reading
      BY <1>5, <3>1 DEF LogInv, PagesSound, Matches, o
    <3>2. CASE ~reader.reading
      <4>1. o = 0 /\ x \in Matches
        BY <1>5, <3>2 DEF Finished, o
      <4>2. Cardinality(Newer(x)) \in Nat
        BY <1>1, <1>3, AboveFinite
      <4> QED BY <4>1, <4>2
    <3> QED BY <3>1, <3>2
  <2>2. Cardinality(Newer(x)) \in Nat
    BY <1>1, <1>3, AboveFinite
  <2>3. Cardinality(Newer(x)) < o + PageSize => x \in reader'.seen
    BY <1>1, <1>3, <1>4, <1>5, <2>1, <2>2
  <2>4. ~reader'.reading => Cardinality(Newer(x)) < o + PageSize
    <3>1. SUFFICES ASSUME Cardinality(page) # PageSize
                   PROVE  \A y \in Matches : Cardinality(Above(Matches, y)) < o + PageSize
      BY <1>3, <1>5, <2>1
    <3>2. page = {y \in Matches : Cardinality(Above(Matches, y)) \in o .. o + PageSize - 1}
      BY <1>3
    <3> QED BY <1>1, <1>4, <3>1, <3>2, ShortPage
  <2> QED BY <1>5, <2>1, <2>3, <2>4 DEF Matches
<1>10. LogTypeOK' /\ LogsConsecutive' /\ ClientsCaughtUp'
  BY <1>2, <1>7 DEF LogInv, LogTypeOK, LogsConsecutive, ClientsCaughtUp
<1> QED BY <1>8, <1>9, <1>10 DEF LogInv

LEMMA NextReaderSound == ASSUME LogInv, NextReader PROVE LogInv'
<1>1. reader' = Finished /\ UNCHANGED <<logs, logCounter, logClients, lastLogId, received, matching>>
  BY DEF NextReader
<1>2. /\ reader'.seen = {} /\ reader'.due = {}
      /\ reader' \in [offset : Nat, seen : SUBSET Nat, due : SUBSET Nat, reading : BOOLEAN]
  BY <1>1 DEF Finished
<1>3. PagesSound'
  BY <1>2 DEF PagesSound
<1>4. LogTypeOK' /\ LogsConsecutive' /\ ClientsCaughtUp'
  BY <1>1, <1>2 DEF LogInv, LogTypeOK, LogsConsecutive, ClientsCaughtUp
<1> QED BY <1>2, <1>3, <1>4 DEF LogInv

LEMMA LogStepSound == ASSUME LogInv, [LogNext]_logVars PROVE LogInv'
<1>1. CASE UNCHANGED logVars
  <2>1. UNCHANGED <<logs, logCounter, logClients, lastLogId, received, matching, reader>>
    BY <1>1 DEF logVars
  <2>2. LogTypeOK' /\ ClientsCaughtUp'
    BY <2>1 DEF LogInv, LogTypeOK, ClientsCaughtUp
  <2> QED BY <2>1, <2>2, FeedLeavesPages DEF LogInv
<1> QED BY <1>1, LogSound, CleanupSound, ConnectionSound, BroadcastSound, PageSound, NextReaderSound
        DEF LogNext

LEMMA LogInvariant == LogSpec => []LogInv
<1>1. LogInit => LogInv
  BY LogInitSound
<1>2. LogInv /\ [LogNext]_logVars => LogInv'
  BY LogStepSound
<1> QED BY <1>1, <1>2, PTL DEF LogSpec

\* The part of BroadcastCatchesUp that a step shows.
Reached == lastLogId' # lastLogId =>
             \A c \in logClients : ToSet(GetRecentLogs(LookBack)) \subseteq received'[c]

LEMMA BroadcastReached == ASSUME LogInv, [LogNext]_logVars PROVE Reached
<1>1. CASE BroadcastNewLogs
  <2>1. /\ DOMAIN GetRecentLogs(LookBack) = {i \in DOMAIN logs : i <= LookBack}
        /\ \A i \in DOMAIN GetRecentLogs(LookBack) : GetRecentLogs(LookBack)[i] = logs[i]
    BY RecentOnes, LogConstants
  <2> QED BY <1>1, <2>1, BroadcastReaches DEF Reached, ToSet
<1>2. CASE ~BroadcastNewLogs
  <2>1. lastLogId' = lastLogId
    BY <1>2 DEF LogNext, Log, CleanupExpiredLogs, HandleConnection, HandleDisconnect, ReadPage,
                NextReader, logVars
  <2> QED BY <2>1 DEF Reached
<1> QED BY <1>1, <1>2

LEMMA PagesSeen == ASSUME LogInv PROVE PagesMissNothing
BY DEF LogInv, PagesSound, PagesMissNothing

\* The list keeps its limit and holds what was logged, and clients and readers have
\* received nothing else (comm-log.service.ts:61-87).
THEOREM LogTypes == LogSpec => []LogTypeOK
<1>1. LogInv => LogTypeOK
  BY DEF LogInv
<1> QED BY <1>1, LogInvariant, PTL

\* For any limits with a look-back no longer than the greeting, and pages of any size:
\* every broadcast leaves every client with all of the latest LookBack entries, and a
\* reader that pages to the end has seen every entry that matched when it began and is
\* still kept (logs.gateway.ts:45, 55-69; comm-log.service.ts:141-146).
THEOREM NoLogReaderMisses == LogSpec => LogReadersMissNothing
<1>1. LogSpec => [][LogInv /\ [LogNext]_logVars]_logVars
  BY LogInvariant, PTL DEF LogSpec
<1>2. LogInv /\ [LogNext]_logVars => Reached
  BY BroadcastReached
<1>3. LogSpec => [][Reached]_logVars
  BY <1>1, <1>2, PTL
<1>4. LogInv => PagesMissNothing
  BY PagesSeen
<1> QED BY <1>3, <1>4, LogInvariant, PTL DEF LogReadersMissNothing, BroadcastCatchesUp, Reached

(***************************************************************************)
(* The settings.                                                           *)
(***************************************************************************)

LEMMA ConfigInitSound == ASSUME DefaultConfig PROVE ConfigTypeOK
BY DEF DefaultConfig, ConfigTypeOK, RequestIds, ActiveCenters

LEMMA ConfigStepSound == ASSUME ConfigTypeOK, [ConfigNext]_configVars PROVE ConfigTypeOK'
<1> DEFINE Centre == [centerId : RequestIds, enabled : BOOLEAN, values : Values \cup {"default"}]
<1>1. sections \in [Sections -> Values \cup {"default"}] /\ centers \in [DOMAIN CenterIds -> Centre]
  BY DEF ConfigTypeOK
<1>2. ASSUME NEW named \in SUBSET Sections, NEW ids \in SUBSET RequestIds, NEW value \in Values,
             NEW enabled \in BOOLEAN, UpdateRelayConfig(named, ids, value, enabled)
      PROVE  /\ sections' \in [Sections -> Values \cup {"default"}]
             /\ centers' \in [DOMAIN CenterIds -> Centre]
  BY <1>1, <1>2 DEF UpdateRelayConfig
<1>3. ASSUME NEW id \in RequestIds, NEW newId \in RequestIds, NEW value \in Values,
             NEW enabled \in BOOLEAN, UpdateCenterConfig(id, newId, value, enabled)
      PROVE  /\ sections' \in [Sections -> Values \cup {"default"}]
             /\ centers' \in [DOMAIN CenterIds -> Centre]
  BY <1>1, <1>3 DEF UpdateCenterConfig, configVars
<1>4. CASE UNCHANGED configVars
  BY <1>4 DEF configVars, ConfigTypeOK, ActiveCenters
<1>5. CASE ConfigNext
  <2>1. /\ sections' \in [Sections -> Values \cup {"default"}]
        /\ centers' \in [DOMAIN CenterIds -> Centre]
    BY <1>2, <1>3, <1>5 DEF ConfigNext
  <2> QED BY <2>1 DEF ConfigTypeOK, ActiveCenters
<1> QED BY <1>4, <1>5

(***************************************************************************)
(* The services together.                                                  *)
(***************************************************************************)

\* Every service starts as it does alone; the connections may start given up.
LEMMA CentralInitParts ==
  ASSUME CentralInit
  PROVE  /\ service \in Services /\ SyncInit /\ FtpInit /\ LogInit /\ DefaultConfig
         /\ TypeOK /\ NeverForgotten
<1>1. CASE service = "connections"
  <2>1. Init
    BY <1>1 DEF CentralInit
  <2>2. NeverForgotten
    BY <2>1 DEF Init, NeverForgotten, Remembered
  <2> QED BY <2>1, <2>2, TypeOKInit DEF CentralInit
<1>2. CASE service # "connections"
  <2>1. ConnectionsRest
    BY <1>2 DEF CentralInit
  <2>2. TypeOK
    BY <2>1, ConnectionAssumption
       DEF ConnectionsRest, TypeOK, ConnectionAssumption, Targets, TargetStatuses
  <2>3. NeverForgotten
    BY <2>1 DEF ConnectionsRest, NeverForgotten, Remembered
  <2> QED BY <2>2, <2>3 DEF CentralInit
<1> QED BY <1>1, <1>2

\* Every step is one of each service, or leaves it alone.
LEMMA CentralStepParts ==
  ASSUME [CentralNext]_centralVars
  PROVE  /\ UNCHANGED service
         /\ [Next]_vars /\ [SyncNext]_syncVars /\ [FtpNext]_transferVars
         /\ [LogNext]_logVars /\ [ConfigNext]_configVars
<1>1. CASE CentralNext
  BY <1>1, Zenon DEF CentralNext
<1>2. CASE UNCHANGED centralVars
  BY <1>2, Zenon DEF centralVars
<1> QED BY <1>1, <1>2

\* Whatever the other services do meanwhile, data synchronisation, file transfer and
\* the log behave as they do alone: what holds of one holds of the whole.
THEOREM ServicesRunAsAlone == CentralSpec => SyncSpec /\ FtpSpec /\ LogSpec
<1>1. CentralInit => SyncInit /\ FtpInit /\ LogInit
  BY CentralInitParts
<1>2. [CentralNext]_centralVars =>
        [SyncNext]_syncVars /\ [FtpNext]_transferVars /\ [LogNext]_logVars
  BY CentralStepParts
<1> QED BY <1>1, <1>2, PTL DEF CentralSpec, SyncSpec, FtpSpec, LogSpec

\* The connections and the settings keep their types, whichever service is exercised.
LEMMA CentralRest == CentralSpec => [](service \in Services /\ TypeOK /\ NeverForgotten /\ ConfigTypeOK)
<1>1. CentralInit => service \in Services /\ TypeOK /\ NeverForgotten /\ ConfigTypeOK
  BY CentralInitParts, ConfigInitSound
<1>2. service \in Services /\ UNCHANGED service => (service \in Services)'
  OBVIOUS
<1>3. TypeOK /\ NeverForgotten /\ [Next]_vars => TypeOK' /\ NeverForgotten'
  BY TypeOKNext, NeverForgottenNext
<1>4. ConfigTypeOK /\ [ConfigNext]_configVars => ConfigTypeOK'
  BY ConfigStepSound
<1>5. [CentralNext]_centralVars => UNCHANGED service /\ [Next]_vars /\ [ConfigNext]_configVars
  BY CentralStepParts
<1> QED BY <1>1, <1>2, <1>3, <1>4, <1>5, PTL DEF CentralSpec

\* The variables of every service of the central relay keep their types and their
\* lists the limits of the code, whatever the sizes.
THEOREM CentralTypes == CentralSpec => []CentralTypeOK
<1>1. (service \in Services /\ TypeOK /\ NeverForgotten /\ ConfigTypeOK)
        /\ SyncTypeOK /\ FtpTypeOK /\ LogTypeOK => CentralTypeOK
  BY DEF CentralTypeOK
<1> QED BY <1>1, CentralRest, ServicesRunAsAlone, SyncTypes, FtpTypes, LogTypes, PTL

\* In the central relay as a whole no target is forgotten, no checkpoint passes an
\* untried record, no completed transfer is undone, and no reader of the log misses an
\* entry: the safety properties its run checks, together.
THEOREM CentralRelaySafe ==
  CentralSpec => [](NeverForgotten /\ CheckpointCovers /\ CompletedForGood) /\ LogReadersMissNothing
BY CentralRest, ServicesRunAsAlone, CheckpointsCover, CompletedStaysCompleted, NoLogReaderMisses, PTL
=============================================================================
