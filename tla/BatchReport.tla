----------------------------- MODULE BatchReport -----------------------------
(***************************************************************************)
(* The statistics reports of the data lifecycle scheduler                  *)
(* (packages/database/src/scheduler): every LocalPeriod a job counts the   *)
(* parcels of the last LocalPeriod, and every SimsPeriod another sums up   *)
(* the counts of the last SimsPeriod for SIMS.  The windows reach back     *)
(* from the moment a job runs, and a job may run late or fail.  Machines   *)
(* do not meet: this is one machine, and one kind of statistics.           *)
(***************************************************************************)
EXTENDS Integers, FiniteSets, Sequences

CONSTANTS
  ReportKinds,     \* of "summary", "induction", "chute", "code", "sorter"
  ParcelData,      \* what parcels may be: [induction, chute, code], each may be Null
  Null,
  LocalPeriod,     \* 10 minutes
  SimsPeriod,      \* 30 minutes
  MaxTime,         \* bounds of the model: time and parcels
  MaxParcels

ASSUME ReportAssumption ==
  /\ {LocalPeriod, SimsPeriod} \subseteq Nat \ {0}
  /\ {MaxTime, MaxParcels} \subseteq Nat /\ LocalPeriod - 1 <= MaxTime
  /\ ReportKinds \subseteq {"summary", "induction", "chute", "code", "sorter"}

VARIABLES
  kind,            \* the kind of statistics
  clock,           \* time, in units between two rounds of jobs
  parcels,         \* tbItemParcelDt (for "sorter" with tbOperMachineStateHt), oldest first
  unwritten,       \* rows a local job has counted and not written yet
  localRows,       \* the local statistics of the kind
  simsRows,        \* the statistics for SIMS
  due,             \* the next time of each job
  ran,             \* when each job last ran (the start of the scheduler at first)
  written,         \* when the last local job that wrote all its rows had counted
  covered,         \* history: written, when the last SIMS job ran
  slipped          \* history: a job failed, or ran more than its period after the last run

reportVars == <<kind, clock, parcels, unwritten, localRows, simsRows, due, ran,
                written, covered, slipped>>

Jobs == {"local", "sims"}
Period == [local |-> LocalPeriod, sims |-> SimsPeriod]

ReportInit ==
  /\ kind \in ReportKinds
  /\ clock \in 0 .. LocalPeriod - 1
  /\ parcels = <<>> /\ unwritten = {} /\ localRows = {} /\ simsRows = {}
  /\ due = [j \in Jobs |-> Period[j]]
  /\ ran = [j \in Jobs |-> clock] /\ written = clock /\ covered = clock
  /\ slipped = FALSE

-----------------------------------------------------------------------------
\* Faulty variant, for the mutant checks: a window without its first moment.
RecentAfter(period) == {i \in DOMAIN parcels : parcels[i].at > clock - period}
-----------------------------------------------------------------------------
\* where: { createdAt: { gte: Date.now() - period } }
Recent(period) == {i \in DOMAIN parcels : parcels[i].at >= clock - period}

\* groupBy: one row for each group met, with the parcels it counts.
RowsBy(group(_), ids) ==
  {[group |-> g, counted |-> {i \in ids : group(i) = g}] : g \in {group(i) : i \in ids}}

\* processLocalSummaryStats(), processLocalSorterStats(): one row, even of nothing.
LocalSummary == {[group |-> Null, counted |-> Recent(LocalPeriod)]}
LocalSorter == {[group |-> Null, counted |-> Recent(LocalPeriod)]}

\* processLocalInductionStats(), processLocalChuteStats(), processLocalCodeStats()
LocalInduction == LET of(i) == parcels[i].induction
                  IN  RowsBy(of, {i \in Recent(LocalPeriod) : of(i) # Null})
LocalChute == LET of(i) == parcels[i].chute
              IN  RowsBy(of, {i \in Recent(LocalPeriod) : of(i) # Null})
LocalCode == LET of(i) == <<parcels[i].code, parcels[i].chute>>
             IN  RowsBy(of, {i \in Recent(LocalPeriod) : parcels[i].code # Null})

LocalReport ==
  CASE kind = "summary" -> LocalSummary
    [] kind = "sorter" -> LocalSorter
    [] kind = "induction" -> LocalInduction
    [] kind = "chute" -> LocalChute
    [] kind = "code" -> LocalCode

RecentRows == {r \in localRows : r.at >= clock - SimsPeriod}

\* Rows of one group become one, which counts what they count.
SummedBy(group(_), rows) ==
  {[group |-> g, counted |-> UNION {r.counted : r \in {s \in rows : group(s) = g}}] :
     g \in {group(r) : r \in rows}}

\* processSimsSummaryStats(): one row, even of nothing.
SimsSummary == {[group |-> Null, counted |-> UNION {r.counted : r \in RecentRows}]}

\* processSimsChuteStats(), processSimsCodeStats(): the code, whatever the chute.
SimsChute == LET of(r) == r.group IN SummedBy(of, RecentRows)
SimsCode == LET of(r) == r.group[1] IN SummedBy(of, RecentRows)

\* processSimsSorterStats(): the newest row only, however old.
SimsSorter ==
  LET newest == {r \in localRows : \A s \in localRows : s.asOf <= r.asOf}
  IN  {[group |-> Null, counted |-> UNION {r.counted : r \in newest}]}

\* There is no report of inductions to SIMS.
SimsReport ==
  CASE kind = "summary" -> SimsSummary
    [] kind = "chute" -> SimsChute
    [] kind = "code" -> SimsCode
    [] kind = "sorter" -> SimsSorter
    [] kind = "induction" -> {}

\* A job that runs makes its next run due at the next full period.
Begin(job) ==
  /\ clock >= due[job]
  /\ due' = [due EXCEPT ![job] = Period[job] * (clock \div Period[job] + 1)]
  /\ ran' = [ran EXCEPT ![job] = clock]

Slip(job) == slipped \/ clock - ran[job] > Period[job]

\* A local job counts; then it writes one row after the other.
CountLocal ==
  /\ unwritten = {}
  /\ Begin("local")
  /\ unwritten' = LocalReport
  /\ slipped' = Slip("local")
  /\ written' = IF LocalReport = {} THEN clock ELSE written
  /\ UNCHANGED <<kind, clock, parcels, localRows, simsRows, covered>>

WriteRow ==
  \E r \in unwritten :
    /\ localRows' = localRows \cup {[at |-> clock, asOf |-> ran["local"],
                                  group |-> r.group, counted |-> r.counted]}
    /\ unwritten' = unwritten \ {r}
    /\ written' = IF unwritten = {r} THEN ran["local"] ELSE written
    /\ UNCHANGED <<kind, clock, parcels, simsRows, due, ran, covered, slipped>>

\* The database fails a local job, before or between its rows: the rest is not written.
WriteFails ==
  /\ unwritten # {}
  /\ unwritten' = {} /\ written' = ran["local"] /\ slipped' = TRUE
  /\ UNCHANGED <<kind, clock, parcels, localRows, simsRows, due, ran, covered>>

RunSims ==
  /\ kind # "induction"
  /\ Begin("sims")
  /\ simsRows' = simsRows \cup SimsReport
  /\ slipped' = Slip("sims")
  /\ covered' = written
  /\ UNCHANGED <<kind, clock, parcels, unwritten, localRows, written>>

\* A failed job is not repeated.
SimsFails ==
  /\ kind # "induction"
  /\ Begin("sims")
  /\ slipped' = TRUE
  /\ UNCHANGED <<kind, clock, parcels, unwritten, localRows, simsRows, written, covered>>

SortParcel(data) ==
  /\ Len(parcels) < MaxParcels
  /\ parcels' = Append(parcels, [at |-> clock, induction |-> data.induction,
                                 chute |-> data.chute, code |-> data.code])
  /\ UNCHANGED <<kind, clock, unwritten, localRows, simsRows, due, ran, written, covered, slipped>>

ReportTick ==
  /\ clock < MaxTime
  /\ clock' = clock + 1
  /\ UNCHANGED <<kind, parcels, unwritten, localRows, simsRows, due, ran, written, covered, slipped>>

ReportNext ==
  \/ CountLocal \/ WriteRow \/ WriteFails \/ RunSims \/ SimsFails \/ ReportTick
  \/ \E data \in ParcelData : SortParcel(data)

ReportSpec == ReportInit /\ [][ReportNext]_reportVars

-----------------------------------------------------------------------------
ReportTypeOK ==
  /\ kind \in ReportKinds /\ clock \in 0 .. MaxTime /\ slipped \in BOOLEAN
  /\ \A i \in 1 .. 3 : \A r \in <<unwritten, localRows, simsRows>>[i] :
       r.counted \subseteq DOMAIN parcels
  /\ {written, covered, ran["local"], ran["sims"]} \subseteq 0 .. clock

\* What the kind groups a parcel by; a parcel without it is not counted.
Counted(i) ==
  CASE kind = "chute" -> parcels[i].chute # Null
    [] kind = "code" -> parcels[i].code # Null
    [] kind \in {"summary", "sorter", "induction"} -> TRUE

\* No parcel falls between two reports: while no job fails or runs more than its
\* period after its last run, every parcel that was there when the last counts
\* SIMS could have were made is in a row for SIMS, however the jobs, their
\* single writes and new parcels meet (batch-report.processor.ts:49, 339).
\* Sorter rows are left out: SIMS gets the newest one only.
ReportsMissNothing ==
  (~slipped /\ kind \in {"summary", "chute", "code"}) =>
    \A i \in DOMAIN parcels :
      (Counted(i) /\ parcels[i].at < covered) => \E r \in simsRows : i \in r.counted
=============================================================================
